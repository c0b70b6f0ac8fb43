------------------------ MODULE HistoryPages_proofs ------------------------
(***************************************************************************)
(* Proofs about HistoryPages, for any vessels, size of a page, length of a *)
(* day, retention and bounds: its types, and that the pages of a query fit *)
(* together, whatever is inserted, pruned, asked and answered in between.  *)
(***************************************************************************)
EXTENDS HistoryPages, TLAPS, SequenceTheorems, FiniteSetTheorems, WellFoundedInduction

----------------------------------------------------------------------------
(* 1. Sequences. *)

\* What a sequence and its last element are, in the terms of its length.
LEMMA SequenceTyped ==
  ASSUME NEW S, NEW s \in Seq(S)
  PROVE  /\ Len(s) \in Nat /\ DOMAIN s = 1..Len(s)
         /\ \A i \in 1..Len(s) : s[i] \in S
         /\ s # <<>> => Len(s) \in 1..Len(s) /\ Last(s) = s[Len(s)] /\ Last(s) \in S
         /\ s = <<>> => Len(s) = 0
         /\ ToSet(s) = {s[i] : i \in 1..Len(s)}
<1>1. Len(s) \in Nat /\ DOMAIN s = 1..Len(s)
  BY LenProperties
<1>2. \A i \in 1..Len(s) : s[i] \in S
  BY ElementOfSeq
<1>3. s # <<>> => Len(s) \in Nat \ {0}
  BY EmptySeq
<1>4. s = <<>> => Len(s) = 0
  BY EmptySeq
<1> QED
  BY <1>1, <1>2, <1>3, <1>4 DEF Last, ToSet

\* Without its i-th element.
LEMMA RemoveAtTyped ==
  ASSUME NEW S, NEW s \in Seq(S), NEW i \in 1..Len(s)
  PROVE  /\ RemoveAt(s, i) \in Seq(S) /\ Len(RemoveAt(s, i)) = Len(s) - 1
         /\ \A j \in 1..Len(RemoveAt(s, i)) : \E k \in 1..Len(s) : RemoveAt(s, i)[j] = s[k]
<1> DEFINE front == SubSeq(s, 1, i - 1)
           rear == SubSeq(s, i + 1, Len(s))
<1>1. Len(s) \in Nat /\ i \in Int /\ \A k \in 1..Len(s) : s[k] \in S
  BY SequenceTyped
<1>2. /\ front \in Seq(S) /\ Len(front) = i - 1
      /\ \A k \in 1..(i - 1) : front[k] = s[k]
  <2> DEFINE n == i - 1
  <2>1. n \in Int /\ 1 \in Int /\ \A k \in 1..n : s[k] \in S
    BY <1>1
  <2> HIDE DEF n
  <2>2. /\ SubSeq(s, 1, n) \in Seq(S)
        /\ Len(SubSeq(s, 1, n)) = IF 1 <= n THEN n - 1 + 1 ELSE 0
        /\ \A k \in 1..(n - 1 + 1) : SubSeq(s, 1, n)[k] = s[1 + k - 1]
    BY <2>1, SubSeqProperties
  <2>3. n \in Nat
    BY <1>1 DEF n
  <2>4. /\ Len(SubSeq(s, 1, n)) = n
        /\ \A k \in 1..n : k \in 1..(n - 1 + 1) /\ 1 + k - 1 = k
    BY <2>2, <2>3
  <2> QED
    BY <2>2, <2>4 DEF n
<1>3. /\ rear \in Seq(S) /\ Len(rear) = Len(s) - i
      /\ \A k \in 1..(Len(s) - i) : rear[k] = s[k + i]
  <2> DEFINE m == i + 1
  <2>1. m \in Int /\ Len(s) \in Int /\ \A k \in m..Len(s) : s[k] \in S
    BY <1>1
  <2> HIDE DEF m
  <2>2. /\ SubSeq(s, m, Len(s)) \in Seq(S)
        /\ Len(SubSeq(s, m, Len(s))) = IF m <= Len(s) THEN Len(s) - m + 1 ELSE 0
        /\ \A k \in 1..(Len(s) - m + 1) : SubSeq(s, m, Len(s))[k] = s[m + k - 1]
    BY <2>1, SubSeqProperties
  <2>3. m = i + 1 /\ rear = SubSeq(s, m, Len(s))
    BY DEF m
  <2>4. /\ Len(SubSeq(s, m, Len(s))) = Len(s) - i
        /\ \A k \in 1..(Len(s) - i) : k \in 1..(Len(s) - m + 1) /\ m + k - 1 = k + i
    BY <1>1, <2>2, <2>3
  <2> QED
    BY <2>2, <2>3, <2>4
<1>4. RemoveAt(s, i) = front \o rear
  BY DEF RemoveAt
<1> HIDE DEF front, rear
<1>5. /\ front \o rear \in Seq(S) /\ Len(front \o rear) = Len(front) + Len(rear)
      /\ \A j \in 1..(Len(front) + Len(rear)) :
           (front \o rear)[j] = IF j <= Len(front) THEN front[j] ELSE rear[j - Len(front)]
  BY <1>2, <1>3, ConcatProperties
<1>6. Len(front) + Len(rear) = Len(s) - 1
  BY <1>1, <1>2, <1>3
<1>7. ASSUME NEW j \in 1..(Len(s) - 1)
      PROVE  \E k \in 1..Len(s) : (front \o rear)[j] = s[k]
  <2>1. CASE j <= i - 1
    <3>1. j \in 1..Len(s) /\ (front \o rear)[j] = s[j]
      BY <1>1, <1>2, <1>5, <1>6, <2>1
    <3> QED
      BY <3>1
  <2>2. CASE ~(j <= i - 1)
    <3>1. j - (i - 1) \in 1..(Len(s) - i) /\ j - (i - 1) + i \in 1..Len(s)
      BY <1>1, <2>2
    <3>2. (front \o rear)[j] = rear[j - (i - 1)]
      BY <1>2, <1>5, <1>6, <2>2
    <3> QED
      BY <1>3, <3>1, <3>2
  <2> QED
    BY <2>1, <2>2
<1> QED
  BY <1>4, <1>5, <1>6, <1>7

----------------------------------------------------------------------------
(* 2. Rows by falling id. *)

Falling(s) == \A i, j \in DOMAIN s : i < j => s[i].id > s[j].id

\* A set that holds 0, and each number up to the last with the one before it,
\* holds them all.
LEMMA UpTo ==
  ASSUME NEW last \in Nat, NEW S \in SUBSET Nat, 0 \in S,
         \A n \in 1..last : n - 1 \in S => n \in S
  PROVE  0..last \subseteq S
<1>. SUFFICES ASSUME (0..last) \ S # {} PROVE FALSE
  OBVIOUS
<1>1. IsWellFoundedOn(OpToRel(<, Nat), Nat)
  BY NatLessThanWellFounded, Zenon
<1>2. (0..last) \ S \in SUBSET Nat
  OBVIOUS
<1>3. PICK n \in (0..last) \ S : \A k \in (0..last) \ S : ~ (<<k, n>> \in OpToRel(<, Nat))
  BY <1>1, <1>2, WFMin, Zenon
<1>4. \A k \in (0..last) \ S : ~ (k < n)
  BY <1>2, <1>3 DEF OpToRel
<1>5. n \in 1..last /\ n - 1 \in 0..last /\ n - 1 < n
  <2>1. n \in 0..last /\ n # 0
    BY <1>3, Zenon
  <2> QED
    BY <2>1
<1>. QED
  BY <1>3, <1>4, <1>5

\* Rows whose ids differ can be put in a sequence by falling id.
LEMMA OrderExists ==
  ASSUME NEW set \in SUBSET Rows, \A r, s \in set : r.id = s.id => r = s
  PROVE  /\ IsFiniteSet(set)
         /\ \E s \in [1..Cardinality(set) -> set] : ToSet(s) = set /\ Falling(s)
<1> DEFINE U(n) == {r \in set : r.id <= n}
           Sorted(s, n) == s \in [1..Cardinality(U(n)) -> U(n)] /\ ToSet(s) = U(n) /\ Falling(s)
           T == {n \in 0..MaxRows : IsFiniteSet(U(n)) /\ \E s : Sorted(s, n)}
<1>1. MaxRows \in Nat /\ \A r \in set : r.id \in 1..MaxRows
  BY HistoryAssumption DEF Rows
<1>2. 0 \in T
  <2>1. U(0) = {}
    BY <1>1
  <2>2. IsFiniteSet(U(0)) /\ Cardinality(U(0)) = 0
    BY <2>1, FS_EmptySet
  <2>3. Sorted([i \in 1..0 |-> 0], 0)
    <3>1. 1..0 = {}
      OBVIOUS
    <3> QED
      BY <2>1, <2>2, <3>1 DEF ToSet, Falling
  <2>4. 0 \in 0..MaxRows /\ IsFiniteSet(U(0))
    BY <1>1, <2>1, FS_EmptySet
  <2> QED
    BY <2>3, <2>4, Zenon
<1>3. ASSUME NEW n \in 1..MaxRows, n - 1 \in T
      PROVE  n \in T
  <2>1. IsFiniteSet(U(n - 1)) /\ n \in 0..MaxRows
    <3>1. IsFiniteSet(U(n - 1))
      BY <1>3, Zenon
    <3>2. n \in 0..MaxRows
      BY <1>1
    <3> QED
      BY <3>1, <3>2
  <2>2. PICK s : Sorted(s, n - 1)
    BY <1>3
  <2>3. CASE \A r \in set : r.id # n
    <3>1. U(n) = U(n - 1)
      BY <1>1, <2>3
    <3> QED
      BY <2>1, <2>2, <3>1
  <2>4. CASE \E r \in set : r.id = n
    <3>1. PICK r \in set : r.id = n
      BY <2>4
    <3>2. U(n) = U(n - 1) \union {r} /\ r \notin U(n - 1)
      BY <1>1, <3>1
    <3> DEFINE c == Cardinality(U(n - 1))
    <3>3. /\ c \in Nat /\ IsFiniteSet(U(n)) /\ Cardinality(U(n)) = c + 1
      <4> DEFINE V == U(n - 1)
      <4>1. IsFiniteSet(V) /\ U(n) = V \union {r} /\ r \notin V /\ c = Cardinality(V)
        BY <2>1, <3>2
      <4> HIDE DEF V
      <4>2. Cardinality(V) \in Nat
        BY <4>1, FS_CardinalityType
      <4>3. IsFiniteSet(V \union {r}) /\ Cardinality(V \union {r}) = Cardinality(V) + 1
        BY <4>1, FS_AddElement
      <4> QED
        BY <4>1, <4>2, <4>3
    <3>4. s \in [1..c -> U(n - 1)] /\ ToSet(s) = U(n - 1) /\ Falling(s)
      BY <2>2
    <3> HIDE DEF c
    <3> DEFINE more == [i \in 1..(c + 1) |-> IF i = 1 THEN r ELSE s[i - 1]]
    <3>5. /\ more[1] = r /\ 1 \in 1..(c + 1)
          /\ \A i \in 1..(c + 1) : i # 1 => i - 1 \in 1..c /\ more[i] = s[i - 1]
          /\ \A i \in 1..c : i + 1 \in 1..(c + 1) /\ more[i + 1] = s[i]
      BY <3>3
    <3>6. DOMAIN more = 1..(c + 1) /\ DOMAIN s = 1..c
      BY <3>4
    <3> HIDE DEF more
    <3>7. \A i \in 1..c : s[i] \in set /\ s[i].id \in Nat /\ s[i].id < n
      BY <1>1, <3>4
    <3>8. ToSet(more) = U(n)
      <4>1. \A i \in 1..(c + 1) : more[i] \in U(n)
        BY <3>2, <3>4, <3>5
      <4>2. r \in ToSet(more)
        BY <3>5, <3>6 DEF ToSet
      <4>3. U(n - 1) \subseteq ToSet(more)
        BY <3>4, <3>5, <3>6 DEF ToSet
      <4> QED
        BY <3>2, <3>6, <4>1, <4>2, <4>3 DEF ToSet
    <3>9. Falling(more)
      <4>1. ASSUME NEW i \in 1..(c + 1), NEW j \in 1..(c + 1), i < j
            PROVE  more[i].id > more[j].id
        <5>1. j # 1 /\ j - 1 \in 1..c /\ more[j] = s[j - 1]
          BY <3>3, <3>5, <4>1
        <5>2. CASE i = 1
          BY <3>1, <3>5, <3>7, <5>1, <5>2
        <5>3. CASE i # 1
          <6>1. i - 1 \in 1..c /\ more[i] = s[i - 1] /\ i - 1 < j - 1
            BY <3>3, <3>5, <4>1, <5>3
          <6> QED
            BY <3>4, <3>6, <5>1, <6>1 DEF Falling
        <5> QED
          BY <5>2, <5>3
      <4> QED
        BY <3>6, <4>1 DEF Falling
    <3>10. more \in [1..Cardinality(U(n)) -> U(n)]
      <4>1. more = [i \in 1..(c + 1) |-> more[i]]
        BY DEF more
      <4>2. \A i \in 1..(c + 1) : more[i] \in U(n)
        BY <3>2, <3>4, <3>5
      <4> QED
        BY <3>3, <4>1, <4>2
    <3>11. Sorted(more, n)
      BY <3>8, <3>9, <3>10
    <3> QED
      BY <2>1, <3>3, <3>11
  <2> QED
    BY <2>3, <2>4
<1>4. T \in SUBSET Nat
  BY <1>1
<1>5. MaxRows \in T
  <2> HIDE DEF T
  <2>1. 0..MaxRows \subseteq T
    BY <1>1, <1>2, <1>3, <1>4, UpTo
  <2> QED
    BY <1>1, <2>1
<1>6. U(MaxRows) = set
  BY <1>1
<1> QED
  BY <1>5, <1>6

\* The newest first: every row of the set, by falling id.
LEMMA NewestFirstSorts ==
  ASSUME NEW set \in SUBSET Rows, \A r, s \in set : r.id = s.id => r = s
  PROVE  /\ NewestFirst(set) \in Seq(Rows)
         /\ ToSet(NewestFirst(set)) = set /\ Falling(NewestFirst(set))
<1> DEFINE sorted == NewestFirst(set)
<1>1. IsFiniteSet(set) /\ Cardinality(set) \in Nat
  BY OrderExists, FS_CardinalityType
<1>2. sorted \in [1..Cardinality(set) -> set] /\ ToSet(sorted) = set /\ Falling(sorted)
  BY OrderExists DEF NewestFirst, Falling
<1> HIDE DEF sorted
<1>3. sorted \in Seq(Rows)
  <2>1. sorted \in [1..Cardinality(set) -> Rows]
    BY <1>2
  <2> QED
    BY <1>1, <2>1, SeqDef
<1> QED
  BY <1>2, <1>3 DEF sorted

----------------------------------------------------------------------------
(* 3. Runs of rows. *)

\* The list is one run of the rows of the table that a query finds, below the
\* bound and newest first: all of them, or with more to come those down to its
\* last one.
Run(table, list, more, args, bound) ==
  /\ \A i \in 1..Len(list) : Matches(list[i], args) /\ list[i].id < bound
  /\ Falling(list)
  /\ more => list # <<>>
  /\ \A r \in table : Matches(r, args) /\ r.id < bound /\ (more => r.id >= Last(list).id)
                      => r \in ToSet(list)

\* A run stays one when rows are pruned, or inserted with ids beyond the bound.
LEMMA RunStays ==
  ASSUME NEW table \in SUBSET Rows, NEW later \in SUBSET Rows,
         NEW list, NEW more, NEW args, NEW bound \in Nat,
         Run(table, list, more, args, bound),
         \A r \in later : r \in table \/ r.id >= bound
  PROVE  Run(later, list, more, args, bound)
<1>1. \A r \in later : r.id \in Nat
  BY HistoryAssumption DEF Rows
<1>2. \A r \in later : r.id < bound => r \in table
  BY <1>1
<1> QED
  BY <1>2 DEF Run

\* Every row of a run with more to come is as young as the last one.
LEMMA LastIsOldest ==
  ASSUME NEW list \in Seq(Rows), list # <<>>, Falling(list)
  PROVE  /\ Last(list) \in Rows /\ Last(list).id \in Nat
         /\ \A i \in 1..Len(list) : list[i].id \in Nat /\ list[i].id >= Last(list).id
<1>1. /\ Len(list) \in Nat /\ DOMAIN list = 1..Len(list)
      /\ Len(list) \in 1..Len(list) /\ Last(list) = list[Len(list)]
      /\ \A i \in 1..Len(list) : list[i] \in Rows
  BY SequenceTyped
<1>2. \A i \in 1..Len(list) : list[i].id \in Nat
  BY <1>1, HistoryAssumption DEF Rows
<1>3. ASSUME NEW i \in 1..Len(list) PROVE list[i].id >= list[Len(list)].id
  <2>1. CASE i = Len(list)
    <3>1. list[i].id \in Nat /\ list[i].id = list[Len(list)].id
      BY <1>2, <2>1
    <3> QED
      BY <3>1
  <2>2. CASE i < Len(list)
    <3>1. list[i].id > list[Len(list)].id
      BY <1>1, <2>2 DEF Falling
    <3> QED
      BY <1>1, <1>2, <3>1
  <2>3. i = Len(list) \/ i < Len(list)
    <3>1. Len(list) \in Nat
      BY LenProperties
    <3> QED
      BY <3>1
  <2> QED
    BY <2>1, <2>2, <2>3
<1> QED
  BY <1>1, <1>2, <1>3

\* A run, and one of the same query that goes on below its last row, make one.
LEMMA RunsJoin ==
  ASSUME NEW table \in SUBSET Rows, NEW s \in Seq(Rows), NEW t \in Seq(Rows),
         NEW more \in BOOLEAN, NEW args, NEW bound \in Nat,
         Run(table, s, TRUE, args, bound), Run(table, t, more, args, Last(s).id)
  PROVE  Run(table, s \o t, more, args, bound) /\ (more => Last(s \o t) = Last(t))
<1> DEFINE u == s \o t
           c == Last(s).id
<1>1. /\ Len(s) \in Nat /\ DOMAIN s = 1..Len(s) /\ Len(t) \in Nat /\ DOMAIN t = 1..Len(t)
      /\ \A i \in 1..Len(t) : t[i] \in Rows /\ t[i].id \in Nat
  <2>1. \A r \in Rows : r.id \in Nat
    BY HistoryAssumption DEF Rows
  <2> QED
    BY <2>1, SequenceTyped
<1>2. /\ s # <<>> /\ c \in Nat /\ Len(s) \in 1..Len(s) /\ s[Len(s)].id = c
      /\ \A i \in 1..Len(s) : s[i].id \in Nat /\ s[i].id >= c
  <2>1. s # <<>> /\ Falling(s)
    BY DEF Run
  <2> QED
    BY <2>1, LastIsOldest, SequenceTyped
<1>3. c < bound
  BY <1>2 DEF Run
<1>4. /\ u \in Seq(Rows) /\ Len(u) = Len(s) + Len(t)
      /\ \A i \in 1..(Len(s) + Len(t)) : u[i] = IF i <= Len(s) THEN s[i] ELSE t[i - Len(s)]
  BY ConcatProperties
<1>5. DOMAIN u = 1..Len(u) /\ ToSet(u) = {u[i] : i \in 1..Len(u)}
  BY <1>4, SequenceTyped
<1> HIDE DEF u, c
<1>6. \A i \in 1..Len(u) : \/ i \in 1..Len(s) /\ u[i] = s[i]
                           \/ i > Len(s) /\ i - Len(s) \in 1..Len(t) /\ u[i] = t[i - Len(s)]
  BY <1>1, <1>4
<1>7. \A i \in 1..Len(s) : i \in 1..Len(u) /\ u[i] = s[i]
  BY <1>1, <1>4
<1>8. ASSUME NEW i \in 1..Len(t) PROVE i + Len(s) \in 1..Len(u) /\ u[i + Len(s)] = t[i]
  <2>1. i + Len(s) \in 1..(Len(s) + Len(t)) /\ ~(i + Len(s) <= Len(s)) /\ (i + Len(s)) - Len(s) = i
    BY <1>1
  <2> QED
    BY <1>4, <2>1
<1>9. \A i \in 1..Len(t) : Matches(t[i], args) /\ t[i].id < c
  BY DEF Run, c
<1>10. \A i \in 1..Len(u) : Matches(u[i], args) /\ u[i].id < bound
  <2>1. \A i \in 1..Len(s) : Matches(s[i], args) /\ s[i].id < bound
    BY DEF Run
  <2>2. \A i \in 1..Len(t) : t[i].id < bound
    BY <1>1, <1>2, <1>3, <1>9
  <2> QED
    BY <1>6, <1>9, <2>1, <2>2
<1>11. Falling(u)
  <2>1. ASSUME NEW i \in 1..Len(u), NEW j \in 1..Len(u), i < j
        PROVE  u[i].id > u[j].id
    <3>1. CASE i \in 1..Len(s) /\ u[i] = s[i] /\ j \in 1..Len(s) /\ u[j] = s[j]
      BY <1>1, <2>1, <3>1 DEF Run, Falling
    <3>2. CASE i \in 1..Len(s) /\ u[i] = s[i] /\ j - Len(s) \in 1..Len(t) /\ u[j] = t[j - Len(s)]
      BY <1>1, <1>2, <1>9, <3>2
    <3>3. CASE /\ i - Len(s) \in 1..Len(t) /\ u[i] = t[i - Len(s)]
               /\ j - Len(s) \in 1..Len(t) /\ u[j] = t[j - Len(s)]
      <4>1. i - Len(s) < j - Len(s)
        BY <1>1, <2>1
      <4> QED
        BY <1>1, <3>3, <4>1 DEF Run, Falling
    <3>4. CASE i > Len(s) /\ j \in 1..Len(s)
      BY <1>1, <2>1, <3>4
    <3> QED
      BY <1>6, <3>1, <3>2, <3>3, <3>4
  <2> QED
    BY <1>5, <2>1 DEF Falling
<1>12. ASSUME more PROVE u # <<>> /\ Last(u) = Last(t)
  <2>1. t # <<>>
    BY <1>12 DEF Run
  <2>2. Len(t) \in 1..Len(t) /\ Last(t) = t[Len(t)]
    BY <2>1, SequenceTyped
  <2>3. Len(t) + Len(s) = Len(u) /\ u[Len(u)] = t[Len(t)]
    <3>1. Len(t) + Len(s) = Len(u)
      BY <1>1, <1>4
    <3> QED
      BY <1>8, <2>2, <3>1
  <2>4. u # <<>>
    BY <1>1, <1>4, <2>2, <2>3, SequenceTyped
  <2> QED
    BY <1>4, <2>2, <2>3, <2>4, SequenceTyped
<1>13. ToSet(s) \subseteq ToSet(u) /\ ToSet(t) \subseteq ToSet(u)
  <2>1. ToSet(s) = {s[i] : i \in 1..Len(s)} /\ ToSet(t) = {t[i] : i \in 1..Len(t)}
    BY SequenceTyped
  <2>2. ToSet(s) \subseteq ToSet(u)
    BY <1>5, <1>7, <2>1
  <2>3. ASSUME NEW i \in 1..Len(t) PROVE t[i] \in ToSet(u)
    BY <1>5, <1>8
  <2> QED
    BY <2>1, <2>2, <2>3
<1>14. ASSUME NEW r \in table, Matches(r, args), r.id < bound, more => r.id >= Last(u).id
       PROVE  r \in ToSet(u)
  <2>1. r.id \in Nat
    BY HistoryAssumption DEF Rows
  <2>2. CASE r.id >= c
    <3>1. r \in ToSet(s)
      BY <1>14, <2>2 DEF Run, c
    <3> QED
      BY <1>13, <3>1
  <2>3. CASE r.id < c
    <3>1. more => r.id >= Last(t).id
      BY <1>12, <1>14
    <3>2. r \in ToSet(t)
      BY <1>14, <2>3, <3>1 DEF Run, c
    <3> QED
      BY <1>13, <3>2
  <2> QED
    BY <1>2, <2>1, <2>2, <2>3
<1> QED
  BY <1>10, <1>11, <1>12, <1>14 DEF Run, u

\* The pages that the query can return.
Pages == [items : Seq(Rows), hasNext : BOOLEAN, nextCursor : {None} \union 1..MaxRows,
          upTo : 1..(MaxRows + 1)]

\* A page is a run below the cursor, or below the first free id, and the cursor
\* it returns is its last row.
PageSound(table, next, page, args, cursor) ==
  /\ page.upTo <= next
  /\ Run(table, page.items, page.hasNext, args, IF cursor # None THEN cursor ELSE page.upTo)
  /\ page.hasNext <=> page.nextCursor # None
  /\ page.hasNext => page.nextCursor = Last(page.items).id /\ page.nextCursor < next

LEMMA PageIsRun ==
  ASSUME rows \in SUBSET Rows, \A r, s \in rows : r.id = s.id => r = s,
         nextId \in 1..(MaxRows + 1), \A r \in rows : r.id < nextId,
         NEW args \in Args, NEW cursor \in {None} \union 1..MaxRows
  PROVE  Page(args, cursor) \in Pages /\ PageSound(rows, nextId, Page(args, cursor), args, cursor)
<1> DEFINE set == {r \in rows : Matches(r, args) /\ (cursor # None => r.id < cursor)}
           found == NewestFirst(set)
           hasNext == Len(found) > Take
           items == SubSeq(found, 1, IF hasNext THEN Take ELSE Len(found))
           bound == IF cursor # None THEN cursor ELSE nextId
<1>1. set \in SUBSET Rows /\ \A r, s \in set : r.id = s.id => r = s
  OBVIOUS
<1>2. found \in Seq(Rows) /\ ToSet(found) = set /\ Falling(found)
  BY <1>1, NewestFirstSorts
<1>3. \A r \in set : r \in rows /\ Matches(r, args) /\ r.id < bound
  OBVIOUS
<1>4. \A r \in rows : Matches(r, args) /\ r.id < bound => r \in set
  OBVIOUS
<1>5. Page(args, cursor) =
        [items |-> items, hasNext |-> hasNext,
         nextCursor |-> IF hasNext THEN Last(items).id ELSE None, upTo |-> nextId]
  BY DEF Page, Found
<1> HIDE DEF set, found
<1>6. /\ Len(found) \in Nat /\ DOMAIN found = 1..Len(found)
      /\ \A i \in 1..Len(found) : found[i] \in Rows /\ found[i] \in set
      /\ ToSet(found) = {found[i] : i \in 1..Len(found)}
  BY <1>2, SequenceTyped
<1> DEFINE n == IF hasNext THEN Take ELSE Len(found)
<1>7. n \in Nat /\ n <= Len(found) /\ (hasNext => n = Take /\ n > 0) /\ (~hasNext => n = Len(found))
  <2>1. Take \in Nat /\ Take > 0 /\ Len(found) \in Nat
    BY <1>6, HistoryAssumption
  <2> QED
    BY <2>1
<1> HIDE DEF n
<1>8. items = SubSeq(found, 1, n)
  BY DEF n
<1>9. /\ items \in Seq(Rows) /\ Len(items) = n
      /\ \A i \in 1..n : items[i] = found[i]
  <2>1. n \in Int /\ 1 \in Int /\ \A i \in 1..n : found[i] \in Rows
    <3>1. n \in Nat /\ Len(found) \in Nat /\ n <= Len(found)
      BY <1>2, <1>7, LenProperties
    <3>2. \A i \in 1..n : i \in 1..Len(found)
      BY <3>1
    <3>3. \A i \in 1..n : found[i] \in Rows
      BY <1>2, <3>2, ElementOfSeq
    <3> QED
      BY <3>1, <3>3
  <2>2. /\ SubSeq(found, 1, n) \in Seq(Rows)
        /\ Len(SubSeq(found, 1, n)) = IF 1 <= n THEN n - 1 + 1 ELSE 0
        /\ \A i \in 1..(n - 1 + 1) : SubSeq(found, 1, n)[i] = found[1 + i - 1]
    BY <2>1, SubSeqProperties
  <2>3. (IF 1 <= n THEN n - 1 + 1 ELSE 0) = n /\ \A i \in 1..n : i \in 1..(n - 1 + 1) /\ 1 + i - 1 = i
    BY <1>7
  <2> QED
    BY <1>8, <2>2, <2>3
<1> HIDE DEF items, hasNext
<1>10. /\ DOMAIN items = 1..n /\ ToSet(items) = {items[i] : i \in 1..n}
       /\ \A i \in 1..n : i \in 1..Len(found) /\ items[i] = found[i]
       /\ hasNext => items # <<>> /\ Last(items) = found[n] /\ n \in 1..n
       /\ hasNext \in BOOLEAN
  <2>1. DOMAIN items = 1..n /\ ToSet(items) = {items[i] : i \in 1..n}
    BY <1>9, SequenceTyped
  <2>2. ASSUME hasNext PROVE items # <<>> /\ Last(items) = found[n] /\ n \in 1..n
    <3>1. n \in 1..n
      BY <1>7, <2>2
    <3>2. items # <<>>
      BY <1>7, <1>9, <2>2, SequenceTyped
    <3> QED
      BY <1>9, <3>1, <3>2, SequenceTyped
  <2> QED
    BY <1>7, <1>9, <2>1, <2>2 DEF hasNext
<1>11. Run(rows, items, hasNext, args, bound)
  <2>1. \A i \in 1..Len(items) : Matches(items[i], args) /\ items[i].id < bound
    BY <1>3, <1>6, <1>9, <1>10
  <2>2. Falling(items)
    BY <1>2, <1>6, <1>10 DEF Falling
  <2>3. ASSUME NEW r \in rows, Matches(r, args), r.id < bound, hasNext => r.id >= Last(items).id
        PROVE  r \in ToSet(items)
    <3>1. PICK k \in 1..Len(found) : r = found[k]
      BY <1>2, <1>4, <1>6, <2>3
    <3>2. k <= n
      <4>1. CASE ~hasNext
        BY <1>7, <4>1
      <4>2. CASE hasNext /\ ~(k <= n)
        <5>1. n \in 1..Len(found) /\ n < k
          BY <1>6, <1>7, <4>2
        <5>2. found[n].id > r.id /\ r.id >= found[n].id
          BY <1>2, <1>6, <1>10, <2>3, <3>1, <4>2, <5>1 DEF Falling
        <5>3. found[n].id \in Nat /\ r.id \in Nat
          BY <1>6, <3>1, <5>1, HistoryAssumption DEF Rows
        <5> QED
          BY <5>2, <5>3
      <4> QED
        BY <4>1, <4>2
    <3>3. k \in 1..n
      BY <1>7, <3>2
    <3> QED
      BY <1>10, <3>1, <3>3
  <2> QED
    BY <1>10, <2>1, <2>2, <2>3 DEF Run
<1>12. hasNext => Last(items).id \in 1..MaxRows /\ Last(items).id < nextId
  <2>1. hasNext => found[n] \in Rows /\ found[n] \in rows
    BY <1>3, <1>6, <1>10
  <2> QED
    BY <1>10, <2>1 DEF Rows
<1>13. Page(args, cursor) \in Pages
  BY <1>5, <1>9, <1>10, <1>12 DEF Pages
<1>14. hasNext => Last(items).id # None
  BY <1>12, HistoryAssumption
<1>15. PageSound(rows, nextId, Page(args, cursor), args, cursor)
  <2> DEFINE page == Page(args, cursor)
  <2>1. /\ page.items = items /\ page.hasNext = hasNext /\ page.upTo = nextId
        /\ page.nextCursor = IF hasNext THEN Last(items).id ELSE None
    BY <1>5
  <2> HIDE DEF page
  <2>2. nextId <= nextId
    OBVIOUS
  <2>3. PageSound(rows, nextId, page, args, cursor)
    BY <1>11, <1>12, <1>14, <2>1, <2>2 DEF PageSound
  <2> QED
    BY <2>3 DEF page
<1> QED
  BY <1>13, <1>15

----------------------------------------------------------------------------
(* 4. Requests. *)

Asked ==
  [kind : {"first", "more"}, args : Args, cursor : {None} \union 1..MaxRows, stale : BOOLEAN,
   page : {None} \union Pages]

\* A first page is asked for without a cursor, a further one with the id of a
\* row; what came back is a run of the rows.
AskedSound(q, table, next) ==
  /\ (q.kind = "first") <=> (q.cursor = None)
  /\ q.cursor # None => q.cursor < next
  /\ q.page # None => PageSound(table, next, q.page, q.args, q.cursor)

\* A further page for the list that is shown.
Fresh(q) == q.kind = "more" /\ ~q.stale

\* Rows that are pruned, or inserted from the first free id on, disturb no
\* request.
LEMMA AskedStays ==
  ASSUME NEW q \in Asked, NEW table \in SUBSET Rows, NEW later \in SUBSET Rows,
         NEW next \in Nat, NEW after \in Nat, next <= after,
         AskedSound(q, table, next), \A r \in later : r \in table \/ r.id >= next
  PROVE  AskedSound(q, later, after)
<1>1. \A r \in Rows : r.id \in Nat
  BY HistoryAssumption DEF Rows
<1>2. q.cursor # None => q.cursor \in Nat /\ q.cursor < next /\ q.cursor < after
  BY DEF Asked, AskedSound
<1>3. ASSUME q.page # None PROVE PageSound(later, after, q.page, q.args, q.cursor)
  <2> DEFINE page == q.page
             bound == IF q.cursor # None THEN q.cursor ELSE page.upTo
  <2>1. PageSound(table, next, page, q.args, q.cursor) /\ page \in Pages
    BY <1>3 DEF Asked, AskedSound
  <2>2. page.upTo \in Nat /\ page.upTo <= next /\ page.upTo <= after
    BY <2>1, HistoryAssumption DEF PageSound, Pages
  <2>3. bound \in Nat /\ bound <= next
    BY <1>2, <2>2
  <2>4. page.hasNext => page.nextCursor < after
    <3>1. page.hasNext => page.nextCursor \in Nat /\ page.nextCursor < next
      BY <2>1, HistoryAssumption DEF PageSound, Pages
    <3> QED
      BY <3>1
  <2>5. Run(table, page.items, page.hasNext, q.args, bound)
    BY <2>1 DEF PageSound
  <2> HIDE DEF bound, page
  <2>6. \A r \in later : r \in table \/ r.id >= bound
    BY <1>1, <2>3
  <2>7. Run(later, page.items, page.hasNext, q.args, bound)
    BY <2>3, <2>5, <2>6, RunStays
  <2>8. bound = IF q.cursor # None THEN q.cursor ELSE page.upTo
    BY DEF bound
  <2>9. PageSound(later, after, page, q.args, q.cursor)
    BY <2>1, <2>2, <2>4, <2>7, <2>8 DEF PageSound
  <2> QED
    BY <2>9 DEF page
<1> QED
  BY <1>2, <1>3 DEF AskedSound

\* Outdated requests differ in their mark only, and none of them is fresh.
LEMMA OutdatedTyped ==
  ASSUME NEW open \in Seq(Asked)
  PROVE  /\ Outdated(open) \in Seq(Asked) /\ Len(Outdated(open)) = Len(open)
         /\ \A i \in 1..Len(open) :
              /\ ~Fresh(Outdated(open)[i])
              /\ \A table, next : AskedSound(open[i], table, next)
                                  => AskedSound(Outdated(open)[i], table, next)
<1> DEFINE later == Outdated(open)
<1>1. /\ Len(open) \in Nat /\ DOMAIN open = 1..Len(open)
      /\ \A i \in 1..Len(open) : open[i] \in Asked
  BY SequenceTyped
<1>2. later = [i \in 1..Len(open) |-> [open[i] EXCEPT !.stale = (open[i].kind = "more")]]
  BY <1>1 DEF Outdated
<1>3. ASSUME NEW i \in 1..Len(open)
      PROVE  /\ later[i] \in Asked /\ ~Fresh(later[i])
             /\ later[i].kind = open[i].kind /\ later[i].args = open[i].args
             /\ later[i].cursor = open[i].cursor /\ later[i].page = open[i].page
  <2> DEFINE q == open[i]
             mark == q.kind = "more"
             new == [q EXCEPT !.stale = mark]
  <2>1. q \in Asked /\ later[i] = new /\ mark \in BOOLEAN
    BY <1>1, <1>2
  <2> HIDE DEF q, mark
  <2>2. /\ new \in Asked /\ new.stale = mark
        /\ new.kind = q.kind /\ new.args = q.args /\ new.cursor = q.cursor /\ new.page = q.page
    BY <2>1 DEF Asked
  <2> HIDE DEF new
  <2>3. ~Fresh(new)
    BY <2>2 DEF Fresh, mark
  <2> QED
    BY <2>1, <2>2, <2>3 DEF q
<1> HIDE DEF later
<1>4. later \in Seq(Asked) /\ Len(later) = Len(open)
  <2>1. later \in [1..Len(open) -> Asked]
    BY <1>2, <1>3
  <2>2. later \in Seq(Asked)
    BY <1>1, <2>1, SeqDef
  <2> QED
    BY <1>1, <2>1, <2>2, SequenceTyped
<1>5. ASSUME NEW i \in 1..Len(open), NEW table, NEW next, AskedSound(open[i], table, next)
      PROVE  AskedSound(later[i], table, next)
  BY <1>3, <1>5 DEF AskedSound
<1> QED
  BY <1>3, <1>4, <1>5 DEF later

\* The requests left when one has been answered, or has failed.
LEMMA RemoveRequest ==
  ASSUME NEW open \in Seq(Asked), NEW i \in 1..Len(open)
  PROVE  /\ RemoveAt(open, i) \in Seq(Asked) /\ Len(RemoveAt(open, i)) = Len(open) - 1
         /\ \A j \in 1..Len(RemoveAt(open, i)) :
              \E k \in 1..Len(open) : RemoveAt(open, i)[j] = open[k]
BY RemoveAtTyped

\* Each element of two sequences in a row is one of either.
LEMMA ConcatTyped ==
  ASSUME NEW S, NEW s \in Seq(S), NEW t \in Seq(S)
  PROVE  /\ s \o t \in Seq(S) /\ Len(s \o t) = Len(s) + Len(t)
         /\ \A i \in 1..Len(s \o t) : \/ \E j \in 1..Len(s) : (s \o t)[i] = s[j]
                                      \/ \E j \in 1..Len(t) : (s \o t)[i] = t[j]
<1>1. Len(s) \in Nat /\ Len(t) \in Nat
  BY LenProperties
<1>2. /\ s \o t \in Seq(S) /\ Len(s \o t) = Len(s) + Len(t)
      /\ \A i \in 1..(Len(s) + Len(t)) :
           (s \o t)[i] = IF i <= Len(s) THEN s[i] ELSE t[i - Len(s)]
  BY ConcatProperties
<1>3. \A i \in 1..(Len(s) + Len(t)) : i \in 1..Len(s) \/ (~(i <= Len(s)) /\ i - Len(s) \in 1..Len(t))
  BY <1>1
<1>4. \A i \in 1..Len(s) : i <= Len(s)
  BY <1>1
<1> QED
  BY <1>2, <1>3, <1>4

----------------------------------------------------------------------------
(* 5. The inductive invariant. *)

Typed ==
  /\ rows \in SUBSET Rows /\ nextId \in 1..(MaxRows + 1) /\ hour \in 0..MaxHour
  /\ requests \in Seq(Asked) /\ Len(requests) <= MaxOpen
  /\ acts \in 0..MaxActs
  /\ selectedMMSI \in Vessels \union {None} /\ periodActive \in BOOLEAN
  /\ dates \in {None} \union (Days \X Days) /\ lastFetchArgs \in {None} \union Args
  /\ aisDateData \in Seq(Rows)
  /\ aisDateNextCursor \in {None} \union 1..MaxRows /\ aisDateHasNext \in BOOLEAN
  /\ shown \in [args : {None} \union Args, upTo : 0..(MaxRows + 1), tangled : BOOLEAN]

\* The ids of the table are those that were given out, each once.
RowsSound ==
  /\ \A r \in rows : r.id < nextId
  /\ \A r, s \in rows : r.id = s.id => r = s

RequestsSound == \A i \in 1..Len(requests) : AskedSound(requests[i], rows, nextId)

\* There is a cursor exactly when there is more to come.
CursorSound ==
  /\ aisDateHasNext <=> aisDateNextCursor # None
  /\ aisDateNextCursor # None => aisDateNextCursor < nextId

\* A list that no page for another one has come to is a run down to the cursor,
\* and the further pages under way for it begin there.
ListSound ==
  /\ shown.upTo <= nextId
  /\ Untangled =>
       /\ Run(rows, aisDateData, aisDateHasNext, shown.args, shown.upTo)
       /\ aisDateHasNext => aisDateNextCursor = Last(aisDateData).id
       /\ \A i \in 1..Len(requests) :
            Fresh(requests[i]) => /\ requests[i].args = shown.args
                                  /\ requests[i].cursor = aisDateNextCursor

Inv == Typed /\ RowsSound /\ RequestsSound /\ CursorSound /\ ListSound

\* What the proofs of the steps need of the numbers.
LEMMA Numbers ==
  ASSUME Typed
  PROVE  /\ nextId \in Nat /\ hour \in Nat /\ shown.upTo \in Nat /\ Len(requests) \in Nat
         /\ aisDateNextCursor # None => aisDateNextCursor \in Nat
         /\ \A r \in rows : r.id \in Nat
<1>1. nextId \in Nat /\ hour \in Nat
  BY HistoryAssumption DEF Typed
<1>2. shown.upTo \in Nat
  BY HistoryAssumption DEF Typed
<1>3. aisDateNextCursor # None => aisDateNextCursor \in Nat
  BY HistoryAssumption DEF Typed
<1>4. \A r \in rows : r.id \in Nat
  BY HistoryAssumption DEF Typed, Rows
<1>5. Len(requests) \in Nat
  BY LenProperties DEF Typed
<1> QED
  BY <1>1, <1>2, <1>3, <1>4, <1>5

LEMMA InitInv == Init => Inv
<1> SUFFICES ASSUME Init PROVE Inv
  OBVIOUS
<1> USE DEF Init
<1>1. /\ requests \in Seq(Asked) /\ Len(requests) = 0 /\ aisDateData \in Seq(Rows)
      /\ \A i \in 1..Len(requests) : FALSE
  BY EmptySeq
<1>2. Typed
  <2>1. rows \in SUBSET Rows /\ nextId \in 1..(MaxRows + 1) /\ hour \in 0..MaxHour
    BY HistoryAssumption
  <2>2. Len(requests) <= MaxOpen /\ acts \in 0..MaxActs
    BY <1>1, HistoryAssumption
  <2>3. shown \in [args : {None} \union Args, upTo : 0..(MaxRows + 1), tangled : BOOLEAN]
    BY HistoryAssumption DEF NothingShown
  <2> QED
    BY <1>1, <2>1, <2>2, <2>3 DEF Typed
<1>3. RowsSound /\ CursorSound
  BY DEF RowsSound, CursorSound
<1>4. RequestsSound
  BY <1>1 DEF RequestsSound
<1>5. ListSound
  <2>1. ~Untangled
    BY DEF Untangled, NothingShown
  <2>2. shown.upTo <= nextId
    BY DEF NothingShown
  <2> QED
    BY <2>1, <2>2 DEF ListSound
<1> QED
  BY <1>2, <1>3, <1>4, <1>5 DEF Inv

----------------------------------------------------------------------------
(* 6. The steps of the server. *)

\* A step of the table keeps ids below the first free one, inserts from there
\* on, and leaves the client alone.
LEMMA TableStep ==
  ASSUME Inv, Typed', RowsSound', nextId <= nextId',
         \A r \in rows' : r \in rows \/ r.id >= nextId,
         UNCHANGED <<requests, listVars>>
  PROVE  Inv'
<1>1. /\ nextId \in Nat /\ nextId' \in Nat /\ shown.upTo \in Nat
      /\ rows \in SUBSET Rows /\ rows' \in SUBSET Rows
      /\ \A r \in Rows : r.id \in Nat
      /\ aisDateNextCursor # None => aisDateNextCursor \in Nat
  <2>1. nextId' \in Nat
    BY HistoryAssumption DEF Typed
  <2>2. \A r \in Rows : r.id \in Nat
    BY HistoryAssumption DEF Rows
  <2> QED
    BY <2>1, <2>2, Numbers DEF Inv, Typed
<1>2. UNCHANGED <<requests, aisDateData, aisDateNextCursor, aisDateHasNext, shown>>
  BY DEF listVars
<1>3. RequestsSound'
  <2>1. ASSUME NEW i \in 1..Len(requests)
        PROVE  AskedSound(requests[i], rows', nextId')
    <3>1. requests[i] \in Asked
      BY ElementOfSeq DEF Inv, Typed
    <3>2. AskedSound(requests[i], rows, nextId)
      BY DEF Inv, RequestsSound
    <3> QED
      BY <1>1, <3>1, <3>2, AskedStays
  <2> QED
    BY <1>2, <2>1 DEF RequestsSound
<1>4. CursorSound'
  <2>1. aisDateNextCursor # None => aisDateNextCursor < nextId'
    BY <1>1 DEF Inv, CursorSound
  <2> QED
    BY <1>2, <2>1 DEF Inv, CursorSound
<1>5. ListSound'
  <2>1. shown.upTo <= nextId /\ shown.upTo <= nextId'
    BY <1>1 DEF Inv, ListSound
  <2>2. ASSUME Untangled
        PROVE  Run(rows', aisDateData, aisDateHasNext, shown.args, shown.upTo)
    <3>1. Run(rows, aisDateData, aisDateHasNext, shown.args, shown.upTo)
      BY <2>2 DEF Inv, ListSound
    <3>2. \A r \in rows' : r \in rows \/ r.id >= shown.upTo
      BY <1>1, <2>1
    <3> QED
      BY <1>1, <3>1, <3>2, RunStays
  <2>3. Untangled' <=> Untangled
    BY <1>2 DEF Untangled
  <2> QED
    BY <1>2, <2>1, <2>2, <2>3 DEF Inv, ListSound
<1> QED
  BY <1>3, <1>4, <1>5 DEF Inv

LEMMA InsertStep ==
  ASSUME Inv, NEW m \in Vessels, InsertRow(m)
  PROVE  Inv'
<1> USE DEF InsertRow
<1> DEFINE new == [id |-> nextId, mmsi |-> m, at |-> hour]
<1>1. nextId \in 1..(MaxRows + 1) /\ nextId \in 1..MaxRows /\ nextId + 1 \in 1..(MaxRows + 1)
  BY HistoryAssumption DEF Inv, Typed
<1>2. new \in Rows /\ new.id = nextId
  BY <1>1 DEF Inv, Typed, Rows
<1> HIDE DEF new
<1>3. rows' = rows \union {new} /\ nextId' = nextId + 1
  BY DEF new
<1>4. Typed'
  BY <1>1, <1>2, <1>3 DEF Inv, Typed, choiceVars, listVars
<1>5. \A r \in rows : r.id \in Nat /\ r.id < nextId
  BY Numbers DEF Inv, RowsSound
<1>6. RowsSound'
  <2>1. \A r \in rows' : r.id < nextId'
    BY <1>1, <1>2, <1>3, <1>5
  <2>2. \A r \in rows : r.id # new.id
    BY <1>1, <1>2, <1>5
  <2>3. \A r, s \in rows' : r.id = s.id => r = s
    BY <1>3, <2>2 DEF Inv, RowsSound
  <2> QED
    BY <2>1, <2>3 DEF RowsSound
<1>7. nextId <= nextId' /\ \A r \in rows' : r \in rows \/ r.id >= nextId
  BY <1>1, <1>2, <1>3
<1> QED
  BY <1>4, <1>6, <1>7, TableStep

LEMMA PruneStep ==
  ASSUME Inv, PruneAISHistory
  PROVE  Inv'
<1> USE DEF PruneAISHistory
<1>1. rows' \subseteq rows /\ nextId' = nextId
  OBVIOUS
<1>2. Typed'
  BY <1>1 DEF Inv, Typed, choiceVars, listVars
<1>3. RowsSound'
  BY <1>1 DEF Inv, RowsSound
<1>4. nextId <= nextId'
  BY <1>1, Numbers DEF Inv
<1> QED
  BY <1>1, <1>2, <1>3, <1>4, TableStep

LEMMA HourStep ==
  ASSUME Inv, Hour
  PROVE  Inv'
<1> USE DEF Hour
<1>1. hour' \in 0..MaxHour
  BY HistoryAssumption DEF Inv, Typed
<1>2. Typed'
  BY <1>1 DEF Inv, Typed, choiceVars, listVars
<1>3. RowsSound' /\ nextId <= nextId'
  BY Numbers DEF Inv, RowsSound
<1>4. \A r \in rows' : r \in rows
  OBVIOUS
<1> QED
  BY <1>2, <1>3, <1>4, TableStep

\* An answered request stays sound, and asks for what it asked.
LEMMA ServeStep ==
  ASSUME Inv, NEW i \in DOMAIN requests, Serve(i)
  PROVE  Inv'
<1> USE DEF Serve
<1> DEFINE q == requests[i]
           page == Page(q.args, q.cursor)
           new == [q EXCEPT !.page = page]
<1>1. /\ requests \in Seq(Asked) /\ Len(requests) \in Nat /\ DOMAIN requests = 1..Len(requests)
      /\ i \in 1..Len(requests) /\ q \in Asked
      /\ \A j \in 1..Len(requests) : requests[j] \in Asked
  BY SequenceTyped DEF Inv, Typed
<1>2. q.args \in Args /\ q.cursor \in {None} \union 1..MaxRows
  BY <1>1 DEF Asked
<1>3. page \in Pages /\ PageSound(rows, nextId, page, q.args, q.cursor)
  BY <1>2, PageIsRun DEF Inv, Typed, RowsSound
<1>4. requests' = [requests EXCEPT ![i] = new]
  <2>1. requests' = [requests EXCEPT ![i].page = page]
    OBVIOUS
  <2> QED
    BY <2>1
<1> HIDE DEF page
<1>5. /\ new \in Asked /\ new.kind = q.kind /\ new.args = q.args
      /\ new.cursor = q.cursor /\ new.stale = q.stale /\ new.page = page
  BY <1>1, <1>3 DEF Asked
<1> HIDE DEF new, q
<1>6. /\ requests' \in Seq(Asked) /\ Len(requests') = Len(requests)
      /\ \A j \in 1..Len(requests) : requests'[j] = IF j = i THEN new ELSE requests[j]
  BY <1>1, <1>4, <1>5, ExceptSeq
<1>7. Typed'
  BY <1>6 DEF Inv, Typed, serverVars, choiceVars, listVars
<1>8. RowsSound' /\ CursorSound'
  BY DEF Inv, RowsSound, CursorSound, serverVars, listVars
<1>9. RequestsSound'
  <2>1. AskedSound(q, rows, nextId)
    BY <1>1 DEF Inv, RequestsSound, q
  <2>2. AskedSound(new, rows, nextId)
    BY <1>3, <1>5, <2>1 DEF AskedSound
  <2>3. rows' = rows /\ nextId' = nextId
    BY DEF serverVars
  <2> QED
    BY <1>6, <2>2, <2>3 DEF Inv, RequestsSound
<1>10. ListSound'
  <2>1. UNCHANGED <<rows, nextId, aisDateData, aisDateNextCursor, aisDateHasNext, shown>>
    BY DEF serverVars, listVars
  <2>2. \A j \in 1..Len(requests) :
          /\ requests'[j].args = requests[j].args /\ requests'[j].cursor = requests[j].cursor
          /\ Fresh(requests'[j]) => Fresh(requests[j])
    BY <1>5, <1>6 DEF Fresh, q
  <2>3. Untangled' <=> Untangled
    BY <2>1 DEF Untangled
  <2> QED
    BY <1>6, <2>1, <2>2, <2>3 DEF Inv, ListSound
<1> QED
  BY <1>7, <1>8, <1>9, <1>10 DEF Inv

----------------------------------------------------------------------------
(* 7. The steps of the client. *)

\* What every act of the operator does.
LEMMA Acts ==
  ASSUME Inv, Act
  PROVE  acts' \in 0..MaxActs
BY HistoryAssumption DEF Inv, Typed, Act

\* An empty list shows nothing, whatever is under way.
LEMMA Clearing ==
  ASSUME Inv, ClearList, UNCHANGED serverVars
  PROVE  /\ requests' \in Seq(Asked) /\ Len(requests') <= MaxOpen
         /\ aisDateData' \in Seq(Rows)
         /\ shown' \in [args : {None} \union Args, upTo : 0..(MaxRows + 1), tangled : BOOLEAN]
         /\ RowsSound' /\ RequestsSound' /\ CursorSound' /\ ListSound'
<1> USE DEF ClearList
<1>1. /\ requests' \in Seq(Asked) /\ Len(requests') = Len(requests)
      /\ \A i \in 1..Len(requests) : AskedSound(requests'[i], rows, nextId)
  BY OutdatedTyped DEF Inv, Typed, RequestsSound
<1>2. aisDateData' \in Seq(Rows)
  BY EmptySeq
<1>3. shown' \in [args : {None} \union Args, upTo : 0..(MaxRows + 1), tangled : BOOLEAN]
  BY HistoryAssumption DEF NothingShown
<1>4. rows' = rows /\ nextId' = nextId
  BY DEF serverVars
<1>5. RowsSound' /\ CursorSound'
  BY <1>4 DEF Inv, RowsSound, CursorSound
<1>6. RequestsSound'
  BY <1>1, <1>4 DEF RequestsSound
<1>7. ListSound'
  <2>1. ~Untangled' /\ shown'.upTo = 0
    BY DEF Untangled, NothingShown
  <2>2. nextId' \in Nat
    BY <1>4, Numbers DEF Inv
  <2> QED
    BY <2>1, <2>2 DEF ListSound
<1> QED
  BY <1>1, <1>2, <1>3, <1>5, <1>6, <1>7 DEF Inv, Typed

LEMMA DeselectStep ==
  ASSUME Inv, DeselectShip
  PROVE  Inv'
<1> USE DEF DeselectShip
<1>1. Typed'
  BY Clearing, Acts DEF Inv, Typed, ClearList, serverVars
<1> QED
  BY <1>1, Clearing DEF Inv

LEMMA TogglePeriodStep ==
  ASSUME Inv, TogglePeriod
  PROVE  Inv'
<1> USE DEF TogglePeriod
<1>1. periodActive' \in BOOLEAN /\ dates' \in {None} \union (Days \X Days)
  BY DEF Inv, Typed
<1>2. Typed'
  BY <1>1, Clearing, Acts DEF Inv, Typed, ClearList, serverVars
<1> QED
  BY <1>2, Clearing DEF Inv

LEMMA ClearDateFilterStep ==
  ASSUME Inv, ClearDateFilter
  PROVE  Inv'
<1> USE DEF ClearDateFilter
<1>1. Typed'
  BY Clearing, Acts DEF Inv, Typed, ClearList, serverVars
<1> QED
  BY <1>1, Clearing DEF Inv

\* The list and the requests are untouched.
LEMMA SetDatesStep ==
  ASSUME Inv, NEW d \in Days, NEW e \in Days, SetDates(d, e)
  PROVE  Inv'
<1> USE DEF SetDates
<1>1. Typed'
  BY Acts DEF Inv, Typed, serverVars, listVars
<1>2. RowsSound' /\ RequestsSound' /\ CursorSound' /\ ListSound'
  BY DEF Inv, RowsSound, RequestsSound, CursorSound, ListSound, Untangled, serverVars, listVars
<1> QED
  BY <1>1, <1>2 DEF Inv

\* What is sent joins the requests under way; a further page it asks for goes on
\* where the list that is shown ends.
LEMMA Sending ==
  ASSUME Inv, NEW new \in Seq(Asked), Send(new), UNCHANGED <<serverVars, listVars>>,
         \A i \in 1..Len(new) :
           /\ AskedSound(new[i], rows, nextId)
           /\ Fresh(new[i]) => new[i].args = shown.args /\ new[i].cursor = aisDateNextCursor
  PROVE  /\ requests' \in Seq(Asked) /\ Len(requests') <= MaxOpen
         /\ RowsSound' /\ RequestsSound' /\ CursorSound' /\ ListSound'
<1>1. requests' = requests \o new /\ Len(requests) + Len(new) <= MaxOpen
  BY DEF Send
<1>2. /\ requests' \in Seq(Asked) /\ Len(requests') = Len(requests) + Len(new)
      /\ \A i \in 1..Len(requests') : \/ \E j \in 1..Len(requests) : requests'[i] = requests[j]
                                      \/ \E j \in 1..Len(new) : requests'[i] = new[j]
  BY <1>1, ConcatTyped DEF Inv, Typed
<1>3. UNCHANGED <<rows, nextId, aisDateData, aisDateNextCursor, aisDateHasNext, shown>>
  BY DEF serverVars, listVars
<1>4. RowsSound' /\ CursorSound'
  BY <1>3 DEF Inv, RowsSound, CursorSound
<1>5. RequestsSound'
  <2>1. \A i \in 1..Len(requests') : AskedSound(requests'[i], rows, nextId)
    BY <1>2 DEF Inv, RequestsSound
  <2> QED
    BY <1>3, <2>1 DEF RequestsSound
<1>6. ListSound'
  <2>1. ASSUME Untangled
        PROVE  \A i \in 1..Len(requests') :
                 Fresh(requests'[i]) => /\ requests'[i].args = shown.args
                                        /\ requests'[i].cursor = aisDateNextCursor
    <3> DEFINE Goes(q) == Fresh(q) => q.args = shown.args /\ q.cursor = aisDateNextCursor
    <3>1. \A i \in 1..Len(requests) : Goes(requests[i])
      BY <2>1 DEF Inv, ListSound
    <3>2. \A i \in 1..Len(new) : Goes(new[i])
      OBVIOUS
    <3> HIDE DEF Goes
    <3>3. \A i \in 1..Len(requests') : Goes(requests'[i])
      BY <1>2, <3>1, <3>2
    <3> QED
      BY <3>3 DEF Goes
  <2>2. Untangled' <=> Untangled
    BY <1>3 DEF Untangled
  <2> QED
    BY <1>3, <2>1, <2>2 DEF Inv, ListSound
<1> QED
  BY <1>1, <1>2, <1>4, <1>5, <1>6

\* A query asks for a vessel between two hours.
LEMMA FetchArgsTyped ==
  ASSUME Inv, NEW m \in Vessels
  PROVE  FetchArgs(m) \in Args
<1>1. hour \in Nat /\ HoursPerDay \in Nat \ {0}
  BY Numbers, HistoryAssumption DEF Inv
<1>2. CASE dates # None
  <2>1. dates \in Days \X Days
    BY <1>2 DEF Inv, Typed
  <2>2. dates[1] \in Nat /\ dates[2] \in Nat
    BY <2>1 DEF Days
  <2>3. \A d \in Nat : FirstHour(d) \in Nat /\ LastHour(d) \in Nat
    <3>1. \A d, h \in Nat : h # 0 => d * h \in Nat /\ (d + 1) * h - 1 \in Nat
      OBVIOUS
    <3> QED
      BY <1>1, <3>1 DEF FirstHour, LastHour
  <2> QED
    BY <1>2, <2>2, <2>3 DEF FetchArgs, Args
<1>3. CASE dates = None
  <2>1. (IF hour = 0 THEN 0 ELSE hour - 1) \in Nat
    BY <1>1
  <2> QED
    BY <1>1, <1>3, <2>1 DEF FetchArgs, Args
<1> QED
  BY <1>2, <1>3

\* First pages have no cursor, so they are neither fresh nor below any row.
LEMMA Fetching ==
  ASSUME Inv, NEW m \in Vessels, NEW n \in Nat, FetchTrackData(m, n),
         UNCHANGED <<serverVars, listVars>>
  PROVE  /\ lastFetchArgs' \in Args
         /\ requests' \in Seq(Asked) /\ Len(requests') <= MaxOpen
         /\ RowsSound' /\ RequestsSound' /\ CursorSound' /\ ListSound'
<1> DEFINE q == Request("first", FetchArgs(m), None)
           new == [i \in 1..n |-> q]
<1>1. FetchArgs(m) \in Args /\ lastFetchArgs' = FetchArgs(m)
  BY FetchArgsTyped DEF FetchTrackData
<1>2. q \in Asked
  <2>1. (FetchArgs(m) # shown.args) \in BOOLEAN
    OBVIOUS
  <2> QED
    BY <1>1, <2>1 DEF Request, Asked
<1>3. AskedSound(q, rows, nextId) /\ ~Fresh(q)
  BY DEF Request, AskedSound, Fresh
<1>4. Send(new)
  BY DEF FetchTrackData
<1> HIDE DEF q
<1>5. new \in Seq(Asked) /\ \A i \in 1..n : new[i] = q
  <2>1. new \in [1..n -> Asked]
    BY <1>2
  <2>2. new \in Seq(Asked)
    BY <2>1, SeqDef
  <2> QED
    BY <2>2
<1>6. Len(new) = n
  BY <1>5, SequenceTyped
<1> HIDE DEF new
<1> QED
  BY <1>1, <1>3, <1>4, <1>5, <1>6, Sending

LEMMA SelectStep ==
  ASSUME Inv, NEW m \in Vessels, NEW n \in 1..2, SelectShip(m, n)
  PROVE  Inv'
<1> USE DEF SelectShip
<1>1. CASE periodActive
  <2>1. FetchTrackData(m, n) /\ n \in Nat /\ UNCHANGED <<serverVars, listVars>>
    BY <1>1
  <2>2. /\ lastFetchArgs' \in Args
        /\ requests' \in Seq(Asked) /\ Len(requests') <= MaxOpen
        /\ RowsSound' /\ RequestsSound' /\ CursorSound' /\ ListSound'
    BY <2>1, Fetching
  <2>3. Typed'
    BY <2>2, Acts DEF Inv, Typed, serverVars, listVars
  <2> QED
    BY <2>2, <2>3 DEF Inv
<1>2. CASE ~periodActive
  <2>1. UNCHANGED <<requests, lastFetchArgs, serverVars, listVars>>
    BY <1>2
  <2>2. Typed'
    BY <2>1, Acts DEF Inv, Typed, serverVars, listVars
  <2>3. RowsSound' /\ RequestsSound' /\ CursorSound' /\ ListSound'
    BY <2>1 DEF Inv, RowsSound, RequestsSound, CursorSound, ListSound, Untangled, serverVars, listVars
  <2> QED
    BY <2>2, <2>3 DEF Inv
<1> QED
  BY <1>1, <1>2

LEMMA RefetchStep ==
  ASSUME Inv, Refetch
  PROVE  Inv'
<1> USE DEF Refetch
<1>1. /\ selectedMMSI \in Vessels /\ 1 \in Nat
      /\ FetchTrackData(selectedMMSI, 1) /\ UNCHANGED <<serverVars, listVars>>
  BY DEF Inv, Typed
<1>2. /\ lastFetchArgs' \in Args
      /\ requests' \in Seq(Asked) /\ Len(requests') <= MaxOpen
      /\ RowsSound' /\ RequestsSound' /\ CursorSound' /\ ListSound'
  BY <1>1, Fetching
<1>3. Typed'
  BY <1>2, Acts DEF Inv, Typed, serverVars, choiceVars, listVars
<1> QED
  BY <1>2, <1>3 DEF Inv

\* The further page is asked below the cursor; it is fresh when the last query
\* sent is the one that is shown.
LEMMA LoadMoreStep ==
  ASSUME Inv, LoadMoreHistory
  PROVE  Inv'
<1> USE DEF LoadMoreHistory
<1> DEFINE q == Request("more", lastFetchArgs, aisDateNextCursor)
<1>1. /\ lastFetchArgs \in Args
      /\ aisDateNextCursor # None /\ aisDateNextCursor \in 1..MaxRows /\ aisDateNextCursor < nextId
  BY DEF Inv, Typed, CursorSound
<1>2. q \in Asked
  <2>1. (lastFetchArgs # shown.args) \in BOOLEAN
    OBVIOUS
  <2> QED
    BY <1>1, <2>1 DEF Request, Asked
<1>3. AskedSound(q, rows, nextId)
  BY <1>1 DEF Request, AskedSound
<1>4. Fresh(q) => q.args = shown.args /\ q.cursor = aisDateNextCursor
  BY DEF Request, Fresh
<1>5. Send(<<q>>) /\ UNCHANGED <<serverVars, listVars>>
  OBVIOUS
<1> HIDE DEF q
<1> DEFINE new == <<q>>
<1>6. /\ new \in Seq(Asked) /\ Len(new) = 1 /\ Send(new)
      /\ \A i \in 1..Len(new) : new[i] = q
  BY <1>2, <1>5
<1> HIDE DEF new
<1>7. /\ requests' \in Seq(Asked) /\ Len(requests') <= MaxOpen
      /\ RowsSound' /\ RequestsSound' /\ CursorSound' /\ ListSound'
  BY <1>3, <1>4, <1>5, <1>6, Sending
<1>8. Typed'
  BY <1>7, Acts DEF Inv, Typed, serverVars, choiceVars, listVars
<1> QED
  BY <1>7, <1>8 DEF Inv

\* An answer replaces the list, or continues it where it was asked to.
LEMMA AnswerStep ==
  ASSUME Inv, NEW i \in DOMAIN requests, Answer(i)
  PROVE  Inv'
<1> USE DEF Answer, TakeCursor
<1> DEFINE q == requests[i]
           left == RemoveAt(requests, i)
<1>1. /\ requests \in Seq(Asked) /\ Len(requests) \in Nat
      /\ i \in 1..Len(requests) /\ q \in Asked
  BY SequenceTyped DEF Inv, Typed
<1>2. /\ AskedSound(q, rows, nextId) /\ q.page # None
      /\ q.page \in Pages /\ PageSound(rows, nextId, q.page, q.args, q.cursor)
  <2>1. AskedSound(q, rows, nextId) /\ q.page # None
    BY <1>1 DEF Inv, RequestsSound
  <2> QED
    BY <1>1, <2>1 DEF Asked, AskedSound
<1>3. /\ left \in Seq(Asked) /\ Len(left) = Len(requests) - 1
      /\ \A j \in 1..Len(left) : AskedSound(left[j], rows, nextId)
  <2>1. /\ left \in Seq(Asked) /\ Len(left) = Len(requests) - 1
        /\ \A j \in 1..Len(left) : \E k \in 1..Len(requests) : left[j] = requests[k]
    BY <1>1, RemoveRequest
  <2>2. \A k \in 1..Len(requests) : AskedSound(requests[k], rows, nextId)
    BY DEF Inv, RequestsSound
  <2> HIDE DEF left
  <2> QED
    BY <2>1, <2>2
<1>4. /\ requests' \in Seq(Asked) /\ Len(requests') <= MaxOpen
      /\ \A j \in 1..Len(requests') :
           AskedSound(requests'[j], rows, nextId) /\ ~Fresh(requests'[j])
  <2>1. requests' = Outdated(left)
    OBVIOUS
  <2> HIDE DEF left
  <2>2. /\ Outdated(left) \in Seq(Asked) /\ Len(Outdated(left)) = Len(left)
        /\ \A j \in 1..Len(left) : /\ ~Fresh(Outdated(left)[j])
                                   /\ AskedSound(Outdated(left)[j], rows, nextId)
    BY <1>3, OutdatedTyped
  <2>3. Len(left) <= MaxOpen
    <3>1. Len(requests) <= MaxOpen /\ MaxOpen \in Nat
      BY HistoryAssumption DEF Inv, Typed
    <3> HIDE DEF Answer
    <3>2. Len(left) = Len(requests) - 1
      BY <1>3, Zenon
    <3> QED
      BY <1>1, <3>1, <3>2
  <2> QED
    BY <2>1, <2>2, <2>3, Zenon
<1> HIDE DEF left
<1>5. /\ q.args \in Args /\ q.kind \in {"first", "more"} /\ q.stale \in BOOLEAN
      /\ q.page.items \in Seq(Rows) /\ q.page.hasNext \in BOOLEAN
      /\ q.page.nextCursor \in {None} \union 1..MaxRows /\ q.page.upTo \in 1..(MaxRows + 1)
  BY <1>1, <1>2 DEF Asked, Pages
<1>6. /\ aisDateNextCursor' = q.page.nextCursor /\ aisDateHasNext' = q.page.hasNext
      /\ \/ /\ q.kind = "first"
            /\ aisDateData' = q.page.items
            /\ shown' = [args |-> q.args, upTo |-> q.page.upTo, tangled |-> FALSE]
         \/ /\ q.kind = "more"
            /\ aisDateData' = aisDateData \o q.page.items
            /\ shown' = [shown EXCEPT !.tangled = @ \/ q.stale]
      /\ UNCHANGED <<rows, nextId, hour>>
      /\ UNCHANGED <<acts, selectedMMSI, periodActive, dates, lastFetchArgs>>
  BY DEF serverVars, choiceVars
<1> HIDE DEF q, Answer
<1>7. /\ aisDateData' \in Seq(Rows)
      /\ shown' \in [args : {None} \union Args, upTo : 0..(MaxRows + 1), tangled : BOOLEAN]
  <2>1. CASE q.kind = "first"
    <3>1. q.page.upTo \in 0..(MaxRows + 1)
      BY <1>5, HistoryAssumption
    <3>2. /\ aisDateData' = q.page.items
          /\ shown' = [args |-> q.args, upTo |-> q.page.upTo, tangled |-> FALSE]
      BY <1>6, <2>1
    <3> QED
      BY <1>5, <3>1, <3>2
  <2>2. CASE q.kind = "more"
    <3>1. aisDateData' \in Seq(Rows)
      <4>1. aisDateData \o q.page.items \in Seq(Rows)
        BY <1>5, ConcatTyped DEF Inv, Typed
      <4>2. aisDateData' = aisDateData \o q.page.items
        BY <1>6, <2>2
      <4> QED
        BY <4>1, <4>2
    <3>2. shown' \in [args : {None} \union Args, upTo : 0..(MaxRows + 1), tangled : BOOLEAN]
      <4>1. shown' = [shown EXCEPT !.tangled = shown.tangled \/ q.stale]
        BY <1>6, <2>2
      <4> QED
        BY <1>5, <4>1 DEF Inv, Typed
    <3> QED
      BY <3>1, <3>2
  <2> QED
    BY <1>5, <2>1, <2>2
<1>8. Typed'
  BY <1>4, <1>5, <1>6, <1>7 DEF Inv, Typed
<1>9. RowsSound' /\ RequestsSound'
  BY <1>4, <1>6 DEF Inv, RowsSound, RequestsSound
<1>10. CursorSound'
  <2>1. /\ q.page.hasNext <=> q.page.nextCursor # None
        /\ q.page.hasNext => q.page.nextCursor < nextId
    BY <1>2 DEF PageSound
  <2> QED
    BY <1>6, <2>1 DEF CursorSound
<1>11. ListSound'
  <2>1. CASE q.kind = "first"
    <3>1. q.cursor = None
      BY <1>2, <2>1 DEF AskedSound
    <3>2. /\ Run(rows, q.page.items, q.page.hasNext, q.args, q.page.upTo)
          /\ q.page.upTo <= nextId
          /\ q.page.hasNext => q.page.nextCursor = Last(q.page.items).id
      BY <1>2, <3>1 DEF PageSound
    <3>3. /\ shown'.args = q.args /\ shown'.upTo = q.page.upTo
          /\ aisDateData' = q.page.items
      BY <1>6, <2>1
    <3> QED
      BY <1>4, <1>6, <3>2, <3>3 DEF ListSound
  <2>2. CASE q.kind = "more"
    <3>1. /\ aisDateData' = aisDateData \o q.page.items
          /\ shown'.args = shown.args /\ shown'.upTo = shown.upTo
          /\ shown'.tangled = (shown.tangled \/ q.stale)
      BY <1>6, <2>2 DEF Inv, Typed
    <3>2. ASSUME Untangled'
          PROVE  /\ Run(rows, aisDateData', q.page.hasNext, shown.args, shown.upTo)
                 /\ q.page.hasNext => q.page.nextCursor = Last(aisDateData').id
      <4>1. Untangled /\ Fresh(q)
        BY <2>2, <3>1, <3>2, Zenon DEF Untangled, Fresh
      <4>2. /\ Run(rows, aisDateData, aisDateHasNext, shown.args, shown.upTo)
            /\ aisDateHasNext => aisDateNextCursor = Last(aisDateData).id
            /\ q.args = shown.args /\ q.cursor = aisDateNextCursor
        BY <1>1, <4>1 DEF Inv, ListSound, q
      <4>3. q.cursor # None
        BY <1>2, <2>2 DEF AskedSound
      <4>4. aisDateHasNext = TRUE /\ q.cursor = Last(aisDateData).id
        BY <4>2, <4>3 DEF Inv, Typed, CursorSound
      <4>5. /\ Run(rows, q.page.items, q.page.hasNext, shown.args, Last(aisDateData).id)
            /\ q.page.hasNext => q.page.nextCursor = Last(q.page.items).id
        BY <1>2, <4>2, <4>3, <4>4 DEF PageSound
      <4>6. /\ rows \in SUBSET Rows /\ aisDateData \in Seq(Rows) /\ shown.upTo \in Nat
            /\ Run(rows, aisDateData, TRUE, shown.args, shown.upTo)
        BY <4>2, <4>4, Numbers DEF Inv, Typed
      <4>7. /\ Run(rows, aisDateData \o q.page.items, q.page.hasNext, shown.args, shown.upTo)
            /\ q.page.hasNext => Last(aisDateData \o q.page.items) = Last(q.page.items)
        <5> DEFINE t == q.page.items
                   more == q.page.hasNext
        <5>1. t \in Seq(Rows) /\ more \in BOOLEAN
          BY <1>5
        <5>2. Run(rows, t, more, shown.args, Last(aisDateData).id)
          BY <4>5
        <5> HIDE DEF t, more
        <5>3. /\ Run(rows, aisDateData \o t, more, shown.args, shown.upTo)
              /\ more => Last(aisDateData \o t) = Last(t)
          BY <4>6, <5>1, <5>2, RunsJoin
        <5> QED
          BY <5>3 DEF t, more
      <4> QED
        BY <3>1, <4>5, <4>7
    <3>3. shown'.upTo <= nextId'
      BY <1>6, <3>1 DEF Inv, ListSound
    <3> QED
      BY <1>4, <1>6, <3>1, <3>2, <3>3 DEF ListSound
  <2> QED
    BY <1>5, <2>1, <2>2
<1> QED
  BY <1>8, <1>9, <1>10, <1>11 DEF Inv

\* What is left under way was under way.
LEMMA FailStep ==
  ASSUME Inv, NEW i \in DOMAIN requests, RequestFails(i)
  PROVE  Inv'
<1>1. requests \in Seq(Asked) /\ Len(requests) \in Nat /\ i \in 1..Len(requests)
  BY SequenceTyped DEF Inv, Typed
<1>2. /\ requests' \in Seq(Asked) /\ Len(requests') = Len(requests) - 1
      /\ \A j \in 1..Len(requests') : \E k \in 1..Len(requests) : requests'[j] = requests[k]
  <2> DEFINE left == RemoveAt(requests, i)
  <2>1. requests' = left
    BY DEF RequestFails
  <2>2. /\ left \in Seq(Asked) /\ Len(left) = Len(requests) - 1
        /\ \A j \in 1..Len(left) : \E k \in 1..Len(requests) : left[j] = requests[k]
    BY <1>1, RemoveRequest
  <2> HIDE DEF left
  <2> QED
    BY <2>1, <2>2, Zenon
<1>3. Len(requests') <= MaxOpen
  BY <1>1, <1>2, HistoryAssumption DEF Inv, Typed
<1> USE DEF RequestFails
<1>4. Typed'
  BY <1>2, <1>3 DEF Inv, Typed, serverVars, choiceVars, listVars
<1>5. UNCHANGED <<rows, nextId, aisDateData, aisDateNextCursor, aisDateHasNext, shown>>
  BY DEF serverVars, listVars
<1>6. RowsSound' /\ CursorSound'
  BY <1>5 DEF Inv, RowsSound, CursorSound
<1>7. RequestsSound'
  <2>1. \A j \in 1..Len(requests') : AskedSound(requests'[j], rows, nextId)
    BY <1>2 DEF Inv, RequestsSound
  <2> QED
    BY <1>5, <2>1 DEF RequestsSound
<1>8. ListSound'
  <2>1. ASSUME Untangled
        PROVE  \A j \in 1..Len(requests') :
                 Fresh(requests'[j]) => /\ requests'[j].args = shown.args
                                        /\ requests'[j].cursor = aisDateNextCursor
    BY <1>2, <2>1 DEF Inv, ListSound
  <2>2. Untangled' <=> Untangled
    BY <1>5 DEF Untangled
  <2> QED
    BY <1>5, <2>1, <2>2 DEF Inv, ListSound
<1> QED
  BY <1>4, <1>6, <1>7, <1>8 DEF Inv

----------------------------------------------------------------------------
(* 8. The theorems. *)

LEMMA StepInv == Inv /\ [Next]_vars => Inv'
<1> SUFFICES ASSUME Inv, [Next]_vars PROVE Inv'
  OBVIOUS
<1>1. CASE UNCHANGED vars
  BY <1>1 DEF vars, serverVars, choiceVars, listVars, Inv, Typed, RowsSound, RequestsSound,
              CursorSound, ListSound, Untangled
<1>2. ASSUME NEW m \in Vessels, InsertRow(m) PROVE Inv'
  BY <1>2, InsertStep
<1>3. ASSUME NEW m \in Vessels, NEW n \in 1..2, SelectShip(m, n) PROVE Inv'
  BY <1>3, SelectStep
<1>4. CASE PruneAISHistory
  BY <1>4, PruneStep
<1>5. CASE Hour
  BY <1>5, HourStep
<1>6. CASE DeselectShip
  BY <1>6, DeselectStep
<1>7. CASE Refetch
  BY <1>7, RefetchStep
<1>8. CASE TogglePeriod
  BY <1>8, TogglePeriodStep
<1>9. CASE ClearDateFilter
  BY <1>9, ClearDateFilterStep
<1>10. CASE LoadMoreHistory
  BY <1>10, LoadMoreStep
<1>11. ASSUME NEW d \in Days, NEW e \in Days, SetDates(d, e) PROVE Inv'
  BY <1>11, SetDatesStep
<1>12. ASSUME NEW i \in DOMAIN requests, Serve(i) PROVE Inv'
  BY <1>12, ServeStep
<1>13. ASSUME NEW i \in DOMAIN requests, Answer(i) PROVE Inv'
  BY <1>13, AnswerStep
<1>14. ASSUME NEW i \in DOMAIN requests, RequestFails(i) PROVE Inv'
  BY <1>14, FailStep
<1> QED
  BY <1>1, <1>2, <1>3, <1>4, <1>5, <1>6, <1>7, <1>8, <1>9, <1>10, <1>11, <1>12, <1>13, <1>14
  DEF Next

THEOREM AlwaysInv == Spec => []Inv
BY InitInv, StepInv, PTL DEF Spec

\* Every variable keeps its type, and the cursor of the page of the history says
\* there is more exactly when its flag does.
THEOREM HistoryTyped == Spec => []TypeOK
<1>1. Inv => TypeOK
  <2> SUFFICES ASSUME Inv PROVE TypeOK
    OBVIOUS
  <2>1. ASSUME NEW q \in ToSet(requests)
        PROVE  /\ q.kind \in {"first", "more"} /\ q.args \in Args /\ q.stale \in BOOLEAN
               /\ q.cursor \in {None} \union 1..MaxRows
               /\ q.page # None => q.page.nextCursor \in {None} \union 1..MaxRows
    <3>1. q \in Asked
      BY SequenceTyped DEF Inv, Typed
    <3>2. q.page # None => q.page \in Pages
      BY <3>1 DEF Asked
    <3> QED
      BY <3>1, <3>2 DEF Asked, Pages
  <2>2. aisDateHasNext = (aisDateNextCursor # None)
    BY Zenon DEF Inv, Typed, CursorSound
  <2> QED
    BY <2>1, <2>2 DEF Inv, Typed, TypeOK
<1> QED
  BY <1>1, AlwaysInv, PTL

\* Whatever is inserted or pruned between two pages, however requests and answers
\* cross: a list that was built from pages asked for it is one run of the rows of
\* one query, and whole when it says so.
THEOREM PagesOfAQueryFit == Spec => []PagesFitTogether
<1>1. Inv => PagesFitTogether
  <2> SUFFICES ASSUME Inv, Untangled
               PROVE  /\ \A i \in DOMAIN aisDateData :
                           /\ Matches(aisDateData[i], shown.args)
                           /\ \A j \in DOMAIN aisDateData :
                                i < j => aisDateData[i].id > aisDateData[j].id
                      /\ aisDateData # <<>> =>
                           \A r \in Expected : r.id >= Last(aisDateData).id => r \in ToSet(aisDateData)
                      /\ ~aisDateHasNext => Expected \subseteq ToSet(aisDateData)
    BY DEF PagesFitTogether
  <2>1. Run(rows, aisDateData, aisDateHasNext, shown.args, shown.upTo)
    BY DEF Inv, ListSound
  <2>2. DOMAIN aisDateData = 1..Len(aisDateData)
    BY SequenceTyped DEF Inv, Typed
  <2>3. \A r \in Expected : r \in rows /\ Matches(r, shown.args) /\ r.id < shown.upTo
    BY DEF Expected
  <2> QED
    BY <2>1, <2>2, <2>3 DEF Run, Falling
<1> QED
  BY <1>1, AlwaysInv, PTL
=============================================================================
