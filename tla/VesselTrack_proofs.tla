------------------------- MODULE VesselTrack_proofs -------------------------
(***************************************************************************)
(* Proofs about VesselTrack, for any vessels, senders, positions, window,  *)
(* length of a trail and bounds: its types, the order of the trails, that  *)
(* a history row is stored once, that a newer position never gives way to  *)
(* an older one, and, until the first restart, that silent vessels go and  *)
(* that a row lists exactly the sources heard lately.                      *)
(*                                                                         *)
(* The filter of a trail is defined by recursion.  What it keeps is proved *)
(* by induction on the length, in the form of a statement about a set of   *)
(* numbers: see LeastNumber and UpTo.                                      *)
(***************************************************************************)
EXTENDS VesselTrack, TLAPS, SequenceTheorems, WellFoundedInduction

----------------------------------------------------------------------------
(* Induction over the numbers up to a bound. *)

\* Every set of numbers that has a member has a least one.
LEMMA LeastNumber ==
  ASSUME NEW S \in SUBSET Nat, S # {}
  PROVE  \E n \in S : \A k \in S : n <= k
<1>1. IsWellFoundedOn(OpToRel(<, Nat), Nat)
  BY NatLessThanWellFounded, Zenon
<1>2. PICK n \in S : \A k \in S : ~ (<<k, n>> \in OpToRel(<, Nat))
  BY <1>1, WFMin, Zenon
<1>3. \A k \in S : ~ (k < n)
  BY <1>2 DEF OpToRel
<1>. QED
  BY <1>3

\* A set that holds 0, and each number up to the last with the one before it,
\* holds them all.
LEMMA UpTo ==
  ASSUME NEW last \in Nat, NEW S \in SUBSET Nat, 0 \in S,
         \A n \in 1..last : n - 1 \in S => n \in S
  PROVE  0..last \subseteq S
<1>. SUFFICES ASSUME (0..last) \ S # {} PROVE FALSE
  OBVIOUS
<1>1. (0..last) \ S \in SUBSET Nat
  OBVIOUS
<1>2. PICK n \in (0..last) \ S : \A k \in (0..last) \ S : n <= k
  BY <1>1, LeastNumber
<1>3. n \in 1..last /\ n - 1 \in 0..last /\ ~ (n <= n - 1)
  BY <1>2
<1>. QED
  BY <1>2, <1>3

\* A set of numbers that has a member and a bound has a greatest member.
LEMMA GreatestNumber ==
  ASSUME NEW bound \in Nat, NEW S \in SUBSET (0..bound), S # {}
  PROVE  \E n \in S : \A k \in S : k <= n
<1>. DEFINE D == {bound - k : k \in S}
<1>1. D \in SUBSET Nat /\ D # {}
  <2>1. \A k \in S : bound - k \in Nat
    OBVIOUS
  <2>. QED
    BY <2>1
<1>2. PICK d \in D : \A e \in D : d <= e
  BY <1>1, LeastNumber
<1>3. PICK n \in S : d = bound - n
  BY <1>2
<1>4. \A k \in S : bound - n <= bound - k
  BY <1>2, <1>3
<1>. QED
  BY <1>4

----------------------------------------------------------------------------
(* The filter of a trail. *)

\* The recursion of YoungOf, up to the first n points.
KeptBy(kept, trail, n) ==
  kept = [i \in 0..n |->
            IF i = 0 THEN <<>>
            ELSE IF Young(trail[i]) THEN Append(kept[i - 1], trail[i]) ELSE kept[i - 1]]

\* The recursion has a solution for every number of points.
LEMMA KeptExists ==
  ASSUME NEW trail, NEW n \in Nat
  PROVE  \E kept : KeptBy(kept, trail, n)
<1>. DEFINE T == {k \in Nat : \E kept : KeptBy(kept, trail, k)}
<1>1. 0 \in T
  <2>1. KeptBy([i \in 0..0 |-> <<>>], trail, 0)
    BY DEF KeptBy
  <2>. QED
    BY <2>1
<1>2. ASSUME NEW k \in 1..n, k - 1 \in T
      PROVE  k \in T
  <2>1. PICK kept : KeptBy(kept, trail, k - 1)
    BY <1>2
  <2>. DEFINE more == [i \in 0..k |->
                IF i < k THEN kept[i]
                ELSE IF Young(trail[k]) THEN Append(kept[k - 1], trail[k]) ELSE kept[k - 1]]
  <2>2. ASSUME NEW i \in 0..k
        PROVE  more[i] = IF i = 0 THEN <<>>
                         ELSE IF Young(trail[i]) THEN Append(more[i - 1], trail[i])
                         ELSE more[i - 1]
    <3>1. CASE i = k
      BY <3>1
    <3>2. CASE i # k
      <4>1. i \in 0..(k - 1) /\ i < k
        BY <3>2
      <4>2. more[i] = kept[i] /\ (i # 0 => more[i - 1] = kept[i - 1])
        BY <4>1
      <4>3. kept[i] = IF i = 0 THEN <<>>
                      ELSE IF Young(trail[i]) THEN Append(kept[i - 1], trail[i])
                      ELSE kept[i - 1]
        BY <2>1, <4>1 DEF KeptBy
      <4>. QED
        BY <4>2, <4>3
    <3>. QED
      BY <3>1, <3>2
  <2>3. more = [i \in 0..k |-> more[i]]
    OBVIOUS
  <2>4. KeptBy(more, trail, k)
    BY <2>2, <2>3 DEF KeptBy
  <2>. QED
    BY <2>4
<1>3. T \in SUBSET Nat
  OBVIOUS
<1>. HIDE DEF T
<1>4. 0..n \subseteq T
  BY <1>1, <1>2, <1>3, UpTo
<1>5. n \in T
  BY <1>4
<1>. QED
  BY <1>5 DEF T

\* YoungOf is the end of that recursion.
LEMMA YoungIsKept ==
  ASSUME NEW trail \in Seq(Points)
  PROVE  \E kept : KeptBy(kept, trail, Len(trail)) /\ YoungOf(trail) = kept[Len(trail)]
<1>. DEFINE kept == CHOOSE kept : KeptBy(kept, trail, Len(trail))
<1>1. Len(trail) \in Nat
  BY LenProperties
<1>2. KeptBy(kept, trail, Len(trail))
  BY <1>1, KeptExists
<1>3. YoungOf(trail) = kept[Len(trail)]
  BY DEF YoungOf, KeptBy
<1>. QED
  BY <1>2, <1>3

\* The filter keeps points of the trail, all of them young, in their order, and
\* it keeps the first one if that is young.
KeepsYoung(kept, trail, n) ==
  /\ kept \in Seq(Points) /\ Len(kept) <= n
  /\ \A i \in 1..Len(kept) : Young(kept[i]) /\ \E k \in 1..n : kept[i] = trail[k]
  /\ \A i, j \in 1..Len(kept) : i < j =>
       \E k, l \in 1..n : k < l /\ kept[i] = trail[k] /\ kept[j] = trail[l]
  /\ n > 0 /\ Young(trail[1]) => Len(kept) > 0 /\ kept[1] = trail[1]

\* One point more.
LEMMA KeepsOneMore ==
  ASSUME NEW trail \in Seq(Points), NEW n \in 1..Len(trail), NEW kept,
         KeepsYoung(kept, trail, n - 1)
  PROVE  KeepsYoung(IF Young(trail[n]) THEN Append(kept, trail[n]) ELSE kept, trail, n)
<1>. Len(trail) \in Nat /\ trail[n] \in Points
  BY LenProperties, ElementOfSeq
<1>. kept \in Seq(Points) /\ Len(kept) \in Nat
  BY LenProperties DEF KeepsYoung
<1>1. CASE ~ Young(trail[n])
  BY <1>1 DEF KeepsYoung
<1>2. CASE Young(trail[n])
  <2>. DEFINE more == Append(kept, trail[n])
  <2>1. /\ more \in Seq(Points) /\ Len(more) = Len(kept) + 1
        /\ \A i \in 1..Len(kept) : more[i] = kept[i]
        /\ more[Len(kept) + 1] = trail[n]
    BY AppendProperties
  <2>. HIDE DEF more
  <2>2. ASSUME NEW i \in 1..Len(more)
        PROVE  Young(more[i]) /\ \E k \in 1..n : more[i] = trail[k]
    <3>1. CASE i = Len(kept) + 1
      <4>1. n \in 1..n /\ more[i] = trail[n]
        BY <2>1, <3>1
      <4>. QED
        BY <1>2, <4>1
    <3>2. CASE i \in 1..Len(kept)
      BY <2>1, <3>2 DEF KeepsYoung
    <3>. QED
      BY <2>1, <3>1, <3>2
  <2>3. ASSUME NEW i \in 1..Len(more), NEW j \in 1..Len(more), i < j
        PROVE  \E k, l \in 1..n : k < l /\ more[i] = trail[k] /\ more[j] = trail[l]
    <3>1. i \in 1..Len(kept)
      BY <2>1, <2>3
    <3>2. CASE j = Len(kept) + 1
      <4>1. PICK k \in 1..(n - 1) : kept[i] = trail[k]
        BY <3>1 DEF KeepsYoung
      <4>2. k \in 1..n /\ n \in 1..n /\ k < n
        OBVIOUS
      <4>3. k < n /\ more[i] = trail[k] /\ more[j] = trail[n]
        BY <2>1, <3>1, <3>2, <4>1, <4>2
      <4>. QED
        BY ONLY <4>2, <4>3
    <3>3. CASE j \in 1..Len(kept)
      <4>1. PICK k \in 1..(n - 1), l \in 1..(n - 1) :
              k < l /\ kept[i] = trail[k] /\ kept[j] = trail[l]
        BY <2>3, <3>1, <3>3 DEF KeepsYoung
      <4>2. k \in 1..n /\ l \in 1..n
        OBVIOUS
      <4>3. k < l /\ more[i] = trail[k] /\ more[j] = trail[l]
        BY <2>1, <3>1, <3>3, <4>1
      <4>. QED
        BY ONLY <4>2, <4>3
    <3>. QED
      BY <2>1, <3>2, <3>3
  <2>4. Young(trail[1]) => Len(more) > 0 /\ more[1] = trail[1]
    <3>1. CASE n = 1
      BY <2>1, <3>1 DEF KeepsYoung
    <3>2. CASE n > 1
      BY <2>1, <3>2 DEF KeepsYoung
    <3>. QED
      BY <3>1, <3>2
  <2>5. Len(more) <= n
    BY <2>1 DEF KeepsYoung
  <2>6. KeepsYoung(more, trail, n)
    BY <2>1, <2>2, <2>3, <2>4, <2>5 DEF KeepsYoung
  <2>. QED
    BY <1>2, <2>6 DEF more
<1>. QED
  BY <1>1, <1>2

LEMMA YoungKept ==
  ASSUME NEW trail \in Seq(Points)
  PROVE  KeepsYoung(YoungOf(trail), trail, Len(trail))
<1>1. PICK kept : KeptBy(kept, trail, Len(trail)) /\ YoungOf(trail) = kept[Len(trail)]
  BY YoungIsKept
<1>2. Len(trail) \in Nat
  BY LenProperties
<1>3. \A i \in 0..Len(trail) :
        kept[i] = IF i = 0 THEN <<>>
                  ELSE IF Young(trail[i]) THEN Append(kept[i - 1], trail[i]) ELSE kept[i - 1]
  BY <1>1 DEF KeptBy
<1>. DEFINE T == {n \in 0..Len(trail) : KeepsYoung(kept[n], trail, n)}
<1>4. 0 \in T
  <2>1. <<>> \in Seq(Points) /\ Len(<<>>) = 0
    BY EmptySeq
  <2>2. 0 \in 0..Len(trail) /\ 1..0 = {}
    BY <1>2
  <2>3. kept[0] = <<>>
    BY <1>3, <2>2
  <2>4. KeepsYoung(<<>>, trail, 0)
    BY <2>1, <2>2 DEF KeepsYoung
  <2>. QED
    BY <2>2, <2>3, <2>4
<1>5. ASSUME NEW n \in 1..Len(trail), n - 1 \in T
      PROVE  n \in T
  <2>1. KeepsYoung(kept[n - 1], trail, n - 1)
    BY <1>5
  <2>2. kept[n] = IF Young(trail[n]) THEN Append(kept[n - 1], trail[n]) ELSE kept[n - 1]
    BY <1>2, <1>3
  <2>3. KeepsYoung(kept[n], trail, n)
    BY <2>1, <2>2, KeepsOneMore
  <2>. QED
    BY <1>2, <2>3
<1>6. T \in SUBSET Nat
  BY <1>2
<1>. HIDE DEF T
<1>7. 0..Len(trail) \subseteq T
  BY <1>2, <1>4, <1>5, <1>6, UpTo
<1>8. Len(trail) \in T
  BY <1>2, <1>7
<1>. QED
  BY <1>1, <1>8 DEF T

----------------------------------------------------------------------------
(* What becomes of a trail. *)

\* TrailOrdered, of one trail.
Ordered(trail) ==
  /\ Len(trail) <= TrailCap + 1
  /\ \A i, j \in 1..Len(trail) : i < j => trail[i].ts >= trail[j].ts

\* Every point of the trail is as old as that, or older.
NoneAfter(trail, time) == \A i \in 1..Len(trail) : trail[i].ts <= time

LEMMA PointsTyped ==
  ASSUME NEW p \in Points
  PROVE  p.ts \in Times /\ p.ts \in Nat /\ p.pos \in Positions /\ p.src \in Senders \union {NoSource}
BY VesselTrackAssumption DEF Points, Times

LEMMA TrailTyped ==
  ASSUME NEW trail \in Seq(Points)
  PROVE  /\ Len(trail) \in Nat /\ DOMAIN trail = 1..Len(trail)
         /\ \A i \in 1..Len(trail) : trail[i] \in Points
         /\ trail # <<>> => Len(trail) > 0 /\ 1 \in 1..Len(trail)
         /\ trail = <<>> => Len(trail) = 0
BY LenProperties, ElementOfSeq, EmptySeq

\* The filter leaves an ordered trail ordered, and only points it had.
LEMMA YoungOrdered ==
  ASSUME NEW trail \in Seq(Points)
  PROVE  /\ YoungOf(trail) \in Seq(Points)
         /\ Ordered(trail) => Ordered(YoungOf(trail))
         /\ \A time \in Nat : NoneAfter(trail, time) => NoneAfter(YoungOf(trail), time)
         /\ \A i \in 1..Len(YoungOf(trail)) : Young(YoungOf(trail)[i])
         /\ trail # <<>> /\ Young(trail[1]) => YoungOf(trail) # <<>> /\ YoungOf(trail)[1] = trail[1]
<1>. DEFINE kept == YoungOf(trail)
<1>1. KeepsYoung(kept, trail, Len(trail))
  BY YoungKept
<1>. HIDE DEF kept
<1>2. kept \in Seq(Points) /\ Len(kept) <= Len(trail)
  BY <1>1 DEF KeepsYoung
<1>3. ASSUME Ordered(trail) PROVE Ordered(kept)
  <2>1. Len(kept) <= TrailCap + 1
    BY <1>2, <1>3, TrailTyped, VesselTrackAssumption DEF Ordered
  <2>2. ASSUME NEW i \in 1..Len(kept), NEW j \in 1..Len(kept), i < j
        PROVE  kept[i].ts >= kept[j].ts
    <3>1. PICK k \in 1..Len(trail), l \in 1..Len(trail) :
            k < l /\ kept[i] = trail[k] /\ kept[j] = trail[l]
      BY <1>1, <2>2 DEF KeepsYoung
    <3>. QED
      BY <1>3, <3>1 DEF Ordered
  <2>. QED
    BY <2>1, <2>2 DEF Ordered
<1>4. ASSUME NEW time \in Nat, NoneAfter(trail, time) PROVE NoneAfter(kept, time)
  BY <1>1, <1>4 DEF KeepsYoung, NoneAfter
<1>5. \A i \in 1..Len(kept) : Young(kept[i])
  BY <1>1 DEF KeepsYoung
<1>6. trail # <<>> /\ Young(trail[1]) => kept # <<>> /\ kept[1] = trail[1]
  BY <1>1, <1>2, TrailTyped DEF KeepsYoung
<1>. QED
  BY <1>2, <1>3, <1>4, <1>5, <1>6 DEF kept

\* slice(first, 20), from the first or the second point.
LEMMA SliceTyped ==
  ASSUME NEW trail \in Seq(Points), NEW first \in {1, 2}
  PROVE  /\ Slice(trail, first) \in Seq(Points)
         /\ Len(Slice(trail, first)) <= TrailCap - first + 1
         /\ \A i \in 1..Len(Slice(trail, first)) :
              i + first - 1 \in 1..Len(trail) /\ Slice(trail, first)[i] = trail[i + first - 1]
<1>. DEFINE last == IF Len(trail) < TrailCap THEN Len(trail) ELSE TrailCap
<1>1. last \in Nat /\ last <= Len(trail) /\ last <= TrailCap /\ first \in Nat /\ Len(trail) \in Nat
      /\ TrailCap \in Nat /\ TrailCap >= 2
  BY TrailTyped, VesselTrackAssumption
<1>2. Slice(trail, first) = SubSeq(trail, first, last)
  BY DEF Slice
<1>. HIDE DEF last
<1>3. \A i \in first..last : trail[i] \in Points
  BY <1>1, TrailTyped
<1>4. /\ SubSeq(trail, first, last) \in Seq(Points)
      /\ Len(SubSeq(trail, first, last)) = IF first <= last THEN last - first + 1 ELSE 0
      /\ \A i \in 1..last - first + 1 : SubSeq(trail, first, last)[i] = trail[first + i - 1]
  <2>1. first \in Int /\ last \in Int
    BY <1>1
  <2>. QED
    BY <1>3, <2>1, SubSeqProperties, SMTT(30)
<1>. QED
  BY <1>1, <1>2, <1>4

\* A head that is not older than what follows keeps a trail ordered.
LEMMA HeadedOrdered ==
  ASSUME NEW p \in Points, NEW rest \in Seq(Points)
  PROVE  /\ <<p>> \o rest \in Seq(Points)
         /\ <<p>> \o rest # <<>> /\ (<<p>> \o rest)[1] = p
         /\ Len(<<p>> \o rest) = Len(rest) + 1
         /\ \A i \in 1..Len(rest) : (<<p>> \o rest)[i + 1] = rest[i]
         /\ Len(rest) <= TrailCap /\ NoneAfter(rest, p.ts) /\ Ordered(rest) => Ordered(<<p>> \o rest)
         /\ \A time \in Nat : NoneAfter(rest, time) /\ p.ts <= time => NoneAfter(<<p>> \o rest, time)
<1>. DEFINE new == <<p>> \o rest
<1>0. <<p>> \in Seq(Points) /\ Len(<<p>>) = 1 /\ <<p>>[1] = p
  OBVIOUS
<1>1. Len(rest) \in Nat
  BY TrailTyped
<1>2. /\ new \in Seq(Points) /\ Len(new) = Len(rest) + 1
      /\ \A i \in 1..Len(rest) + 1 : new[i] = IF i <= 1 THEN p ELSE rest[i - 1]
  BY <1>0, <1>1, ConcatProperties
<1>. HIDE DEF new
<1>3. new[1] = p /\ new # <<>> /\ \A i \in 1..Len(rest) : new[i + 1] = rest[i]
  BY <1>1, <1>2, EmptySeq
<1>4. ASSUME Len(rest) <= TrailCap, NoneAfter(rest, p.ts), Ordered(rest) PROVE Ordered(new)
  <2>1. ASSUME NEW i \in 1..Len(new), NEW j \in 1..Len(new), i < j
        PROVE  new[i].ts >= new[j].ts
    <3>1. j - 1 \in 1..Len(rest) /\ new[j] = rest[j - 1]
      BY <1>1, <1>2, <2>1
    <3>2. rest[j - 1] \in Points
      BY <3>1, TrailTyped
    <3>3. CASE i = 1
      BY <1>3, <1>4, <3>1, <3>2, <3>3, PointsTyped DEF NoneAfter
    <3>4. CASE i # 1
      <4>1. i - 1 \in 1..Len(rest) /\ new[i] = rest[i - 1] /\ i - 1 < j - 1
        BY <1>1, <1>2, <2>1, <3>4
      <4>. QED
        BY <1>4, <3>1, <4>1 DEF Ordered
    <3>. QED
      BY <3>3, <3>4
  <2>2. Len(new) <= TrailCap + 1
    BY <1>1, <1>2, <1>4, VesselTrackAssumption
  <2>. QED
    BY <2>1, <2>2 DEF Ordered
<1>5. ASSUME NEW time \in Nat, NoneAfter(rest, time), p.ts <= time PROVE NoneAfter(new, time)
  BY <1>1, <1>2, <1>5, SMTT(30) DEF NoneAfter
<1>. QED
  BY <1>2, <1>3, <1>4, <1>5 DEF new

\* A slice of an ordered trail.
LEMMA SliceOrdered ==
  ASSUME NEW trail \in Seq(Points), NEW first \in {1, 2}
  PROVE  /\ Slice(trail, first) \in Seq(Points) /\ Len(Slice(trail, first)) <= TrailCap
         /\ Ordered(trail) => Ordered(Slice(trail, first))
         /\ \A time \in Nat : NoneAfter(trail, time) => NoneAfter(Slice(trail, first), time)
<1>. DEFINE part == Slice(trail, first)
<1>1. /\ part \in Seq(Points) /\ Len(part) <= TrailCap - first + 1
      /\ \A i \in 1..Len(part) : i + first - 1 \in 1..Len(trail) /\ part[i] = trail[i + first - 1]
  BY SliceTyped
<1>. HIDE DEF part
<1>2. Len(part) \in Nat /\ Len(part) <= TrailCap /\ TrailCap \in Nat /\ first \in Nat
  BY <1>1, TrailTyped, VesselTrackAssumption
<1>3. ASSUME Ordered(trail) PROVE Ordered(part)
  <2>1. ASSUME NEW i \in 1..Len(part), NEW j \in 1..Len(part), i < j
        PROVE  part[i].ts >= part[j].ts
    <3>1. /\ i + first - 1 \in 1..Len(trail) /\ part[i] = trail[i + first - 1]
          /\ j + first - 1 \in 1..Len(trail) /\ part[j] = trail[j + first - 1]
      BY <1>1
    <3>2. i + first - 1 < j + first - 1
      BY <1>2, <2>1
    <3>. QED
      BY <1>3, <3>1, <3>2 DEF Ordered
  <2>2. Len(part) <= TrailCap + 1
    BY <1>2
  <2>. QED
    BY <2>1, <2>2 DEF Ordered
<1>4. ASSUME NEW time \in Nat, NoneAfter(trail, time) PROVE NoneAfter(part, time)
  BY <1>1, <1>4 DEF NoneAfter
<1>. QED
  BY <1>1, <1>2, <1>3, <1>4 DEF part

\* A trail of a point twice.
LEMMA TwiceOrdered ==
  ASSUME NEW p \in Points
  PROVE  /\ <<p, p>> \in Seq(Points) /\ <<p, p>> # <<>> /\ <<p, p>>[1] = p
         /\ Ordered(<<p, p>>)
         /\ \A time \in Nat : p.ts <= time => NoneAfter(<<p, p>>, time)
<1>1. /\ <<p, p>> \in Seq(Points) /\ <<p, p>> # <<>> /\ Len(<<p, p>>) = 2
      /\ <<p, p>>[1] = p /\ <<p, p>>[2] = p
  OBVIOUS
<1>2. p.ts \in Nat
  BY PointsTyped
<1>3. \A i \in 1..2 : <<p, p>>[i] = p
  BY <1>1
<1>4. TrailCap \in Nat /\ TrailCap >= 2
  BY VesselTrackAssumption
<1>. QED
  BY <1>1, <1>2, <1>3, <1>4 DEF Ordered, NoneAfter

\* The new head of a trail.
LEMMA WithHeadOrdered ==
  ASSUME NEW history \in Seq(Points), NEW p \in Points
  PROVE  /\ WithHead(history, p) \in Seq(Points)
         /\ WithHead(history, p) # <<>> /\ WithHead(history, p)[1] = p
         /\ Ordered(history) /\ NoneAfter(history, p.ts) => Ordered(WithHead(history, p))
         /\ \A time \in Nat :
              NoneAfter(history, time) /\ p.ts <= time => NoneAfter(WithHead(history, p), time)
<1>1. CASE history = <<>>
  BY <1>1, TwiceOrdered DEF WithHead
<1>2. CASE history # <<>>
  <2>1. WithHead(history, p) = <<p>> \o Slice(history, 2)
    BY <1>2 DEF WithHead
  <2>2. p.ts \in Nat
    BY PointsTyped
  <2>3. /\ Slice(history, 2) \in Seq(Points) /\ Len(Slice(history, 2)) <= TrailCap
        /\ Ordered(history) => Ordered(Slice(history, 2))
        /\ \A time \in Nat : NoneAfter(history, time) => NoneAfter(Slice(history, 2), time)
    BY SliceOrdered
  <2>. QED
    BY <2>1, <2>2, <2>3, HeadedOrdered
<1>. QED
  BY <1>1, <1>2

\* The trail that the job of the minute makes longer.
LEMMA ExtendedOrdered ==
  ASSUME NEW trail \in Seq(Points)
  PROVE  /\ Extended(trail) \in Seq(Points)
         /\ trail = <<>> <=> Extended(trail) = <<>>
         /\ trail # <<>> => Extended(trail)[1] = trail[1]
         /\ Ordered(trail) => Ordered(Extended(trail))
         /\ \A time \in Nat : NoneAfter(trail, time) => NoneAfter(Extended(trail), time)
<1>1. CASE ~ (Len(trail) >= 2 /\ trail[1].pos # trail[2].pos)
  BY <1>1 DEF Extended
<1>2. CASE Len(trail) >= 2 /\ trail[1].pos # trail[2].pos
  <2>1. Extended(trail) = <<trail[1]>> \o Slice(trail, 1)
    BY <1>2 DEF Extended
  <2>2. 1 \in 1..Len(trail) /\ trail # <<>> /\ trail[1] \in Points /\ trail[1].ts \in Nat
    BY <1>2, TrailTyped, PointsTyped
  <2>3. Ordered(trail) => NoneAfter(trail, trail[1].ts)
    <3>1. ASSUME Ordered(trail), NEW i \in 1..Len(trail) PROVE trail[i].ts <= trail[1].ts
      <4>1. CASE i = 1
        BY <2>2, <4>1
      <4>2. CASE i # 1
        <5>1. trail[i].ts \in Nat /\ 1 < i
          BY <4>2, TrailTyped, PointsTyped
        <5>. QED
          BY <2>2, <3>1, <5>1 DEF Ordered
      <4>. QED
        BY <4>1, <4>2
    <3>. QED
      BY <3>1 DEF NoneAfter
  <2>4. /\ Slice(trail, 1) \in Seq(Points) /\ Len(Slice(trail, 1)) <= TrailCap
        /\ Ordered(trail) => Ordered(Slice(trail, 1))
        /\ \A time \in Nat : NoneAfter(trail, time) => NoneAfter(Slice(trail, 1), time)
    BY SliceOrdered
  <2>5. \A time \in Nat : NoneAfter(trail, time) => trail[1].ts <= time
    BY <2>2 DEF NoneAfter
  <2>. QED
    BY <2>1, <2>2, <2>3, <2>4, <2>5, HeadedOrdered
<1>. QED
  BY <1>1, <1>2

----------------------------------------------------------------------------
(* Types. *)

Calls == [mmsi : Vessels, history : Seq(Points), point : Points]

MemoryTyped ==
  /\ pointHistory \in [Vessels -> Seq(Points)]
  /\ recent \subseteq Vessels
  /\ saving \subseteq Calls
  /\ activeSources \in [Vessels -> [Senders -> 0..MaxClock]]
  /\ heard \in [Vessels -> [Senders -> 0..MaxClock]]

SendTyped ==
  /\ isDeviceConnected \in BOOLEAN /\ throttled \in BOOLEAN /\ sendTimer \in BOOLEAN
  /\ missed \in BOOLEAN /\ unseen \subseteq Vessels

RowsTyped ==
  /\ aisHisotry \subseteq HistoryRows /\ uncommitted \subseteq HistoryRows
  /\ stored \subseteq HistoryRows
  /\ ais \in [Vessels -> AISRows \union {NoRow}]

RunTyped ==
  /\ clock \in Times /\ loading \in BOOLEAN
  /\ cron \in {"idle", "due", "add", "insert", "commit", "update"}
  /\ restarts \in 0..MaxRestarts /\ faults \in 0..MaxFaults

\* A vessel is locked by the one call that saves it.
Locked ==
  /\ processingMMSI = {call.mmsi : call \in saving}
  /\ \A c, d \in saving : c.mmsi = d.mmsi => c = d

Typed == MemoryTyped /\ SendTyped /\ RowsTyped /\ RunTyped /\ Locked

LEMMA TypedIsTypeOK == Typed => TypeOK
<1>. SUFFICES ASSUME Typed PROVE TypeOK
  OBVIOUS
<1>1. \A m \in Vessels : \A i \in DOMAIN pointHistory[m] : pointHistory[m][i] \in Points
  BY TrailTyped DEF Typed, MemoryTyped
<1>2. {isDeviceConnected, throttled, sendTimer, loading, missed} \subseteq BOOLEAN
  BY DEF Typed, SendTyped, RunTyped
<1>3. \A call \in saving : call.mmsi \in Vessels /\ call.point \in Points
  BY DEF Typed, MemoryTyped, Calls
<1>4. \A m \in Vessels : ais[m] = NoRow \/ ais[m] \in AISRows
  BY DEF Typed, RowsTyped
<1>. QED
  BY <1>1, <1>2, <1>3, <1>4 DEF Typed, MemoryTyped, SendTyped, RowsTyped, RunTyped, Locked, TypeOK

LEMMA ClockTyped ==
  ASSUME clock \in Times
  PROVE  /\ clock \in 0..MaxClock /\ clock \in Nat /\ clock > 0 /\ MaxClock \in Nat
         /\ SourceTtl \in Nat /\ Window \in Nat /\ SaveSpan \in Nat
BY VesselTrackAssumption DEF Times

LEMMA FaultTyped == RunTyped /\ Fault => faults' \in 0..MaxFaults
BY VesselTrackAssumption DEF RunTyped, Fault

\* A mark is a minute, and the marks it cleans are gone.
LEMMA MarkedTyped ==
  ASSUME MemoryTyped, clock \in Times, NEW m \in Vessels, NEW source \in Senders
  PROVE  /\ Marked(m, source) \in [Vessels -> [Senders -> 0..MaxClock]]
         /\ \A v \in Vessels : v # m => Marked(m, source)[v] = activeSources[v]
         /\ \A s \in Senders :
              Marked(m, source)[m][s] =
                IF s = source THEN clock
                ELSE IF activeSources[m][s] + SourceTtl < clock THEN 0 ELSE activeSources[m][s]
<1>. DEFINE row == [s \in Senders |->
              IF s = source THEN clock
              ELSE IF activeSources[m][s] + SourceTtl < clock THEN 0 ELSE activeSources[m][s]]
<1>1. row \in [Senders -> 0..MaxClock]
  <2>1. \A s \in Senders : activeSources[m][s] \in 0..MaxClock
    BY DEF MemoryTyped
  <2>2. 0 \in 0..MaxClock /\ clock \in 0..MaxClock
    BY ClockTyped
  <2>. QED
    BY <2>1, <2>2
<1>2. Marked(m, source) = [activeSources EXCEPT ![m] = row]
  BY DEF Marked
<1>. HIDE DEF row
<1>3. /\ Marked(m, source) \in [Vessels -> [Senders -> 0..MaxClock]]
      /\ \A v \in Vessels : v # m => Marked(m, source)[v] = activeSources[v]
      /\ Marked(m, source)[m] = row
  BY <1>1, <1>2 DEF MemoryTyped
<1>. QED
  BY <1>3 DEF row

\* What a report is heard as.
LEMMA HeardTyped ==
  ASSUME heard \in [Vessels -> [Senders -> 0..MaxClock]], clock \in Times,
         NEW m \in Vessels, NEW source \in Senders,
         heard' = [heard EXCEPT ![m][source] = clock]
  PROVE  /\ heard' \in [Vessels -> [Senders -> 0..MaxClock]]
         /\ \A v \in Vessels, s \in Senders :
              heard'[v][s] = IF v = m /\ s = source THEN clock ELSE heard[v][s]
<1>. DEFINE row == [heard[m] EXCEPT ![source] = clock]
<1>1. row \in [Senders -> 0..MaxClock]
  BY ClockTyped
<1>2. heard' = [heard EXCEPT ![m] = row]
  OBVIOUS
<1>3. \A s \in Senders : row[s] = IF s = source THEN clock ELSE heard[m][s]
  OBVIOUS
<1>. HIDE DEF row
<1>. QED
  BY <1>1, <1>2, <1>3

\* A report is dropped, or locks its vessel and becomes the call that saves it.
LEMMA Accepted ==
  ASSUME NEW m \in Vessels, NEW point \in Points, Accept(m, point)
  PROVE  \/ processingMMSI' = processingMMSI /\ saving' = saving
         \/ /\ m \notin processingMMSI
            /\ processingMMSI' = processingMMSI \union {m}
            /\ saving' = saving \union {[mmsi |-> m, history |-> pointHistory[m], point |-> point]}
BY DEF Accept

LEMMA LockTaken ==
  ASSUME Typed, NEW m \in Vessels, NEW point \in Points, Accept(m, point)
  PROVE  recent' \subseteq Vessels /\ saving' \subseteq Calls /\ Locked'
<1>1. recent' \subseteq Vessels
  BY DEF Accept, Typed, MemoryTyped
<1>2. CASE processingMMSI' = processingMMSI /\ saving' = saving
  BY <1>1, <1>2 DEF Typed, MemoryTyped, Locked
<1>3. CASE /\ m \notin processingMMSI
           /\ processingMMSI' = processingMMSI \union {m}
           /\ saving' = saving \union {[mmsi |-> m, history |-> pointHistory[m], point |-> point]}
  <2>. DEFINE new == [mmsi |-> m, history |-> pointHistory[m], point |-> point]
  <2>1. new \in Calls /\ new.mmsi = m
    BY DEF Calls, Typed, MemoryTyped
  <2>. HIDE DEF new
  <2>2. saving' = saving \union {new}
    BY <1>3 DEF new
  <2>3. \A c \in saving : c.mmsi # m
    BY <1>3 DEF Typed, Locked
  <2>4. processingMMSI' = {call.mmsi : call \in saving'}
    BY <1>3, <2>1, <2>2 DEF Typed, Locked
  <2>5. \A c, d \in saving' : c.mmsi = d.mmsi => c = d
    BY <2>1, <2>2, <2>3 DEF Typed, Locked
  <2>6. saving' \subseteq Calls
    BY <2>1, <2>2 DEF Typed, MemoryTyped
  <2>. QED
    BY <1>1, <2>4, <2>5, <2>6 DEF Locked
<1>. QED
  BY <1>2, <1>3, Accepted

LEMMA LockGivenBack ==
  ASSUME Typed, NEW call \in saving,
         saving' = saving \ {call}, processingMMSI' = processingMMSI \ {call.mmsi}
  PROVE  saving' \subseteq Calls /\ Locked'
<1>1. processingMMSI' = {c.mmsi : c \in saving'}
  BY DEF Typed, Locked
<1>. QED
  BY <1>1 DEF Typed, MemoryTyped, Locked

\* The sources of a row.
LEMMA ActiveSourcesTyped == \A m \in Vessels : ActiveSources(m) \in SUBSET (Senders \union {Site})
BY DEF ActiveSources

LEMMA SourceTyped == \A p \in Points : SourceOf(p) \in Senders \union {Site}
BY PointsTyped DEF SourceOf

\* The process starts without trails, marks and calls.
LEMMA EmptyTyped ==
  /\ NoTrails \in [Vessels -> Seq(Points)] /\ Unheard \in [Vessels -> [Senders -> 0..MaxClock]]
  /\ [m \in Vessels |-> NoRow] \in [Vessels -> AISRows \union {NoRow}]
<1>1. <<>> \in Seq(Points) /\ 0 \in 0..MaxClock
  BY EmptySeq, VesselTrackAssumption
<1>. QED
  BY <1>1 DEF NoTrails, Unheard

LEMMA InitTyped == Init => Typed
<1>. SUFFICES ASSUME Init PROVE Typed
  OBVIOUS
<1>1. 1 \in Times /\ 0 \in 0..MaxRestarts /\ 0 \in 0..MaxFaults
  BY VesselTrackAssumption DEF Times
<1>2. isDeviceConnected \in BOOLEAN /\ missed \in BOOLEAN
  BY VesselTrackAssumption DEF Init
<1>3. MemoryTyped
  BY EmptyTyped DEF Init, MemoryTyped
<1>4. SendTyped
  BY <1>2 DEF Init, SendTyped
<1>5. RowsTyped
  BY EmptyTyped DEF Init, RowsTyped
<1>6. RunTyped
  BY <1>1 DEF Init, RunTyped
<1>7. Locked
  BY DEF Init, Locked
<1>. QED
  BY <1>3, <1>4, <1>5, <1>6, <1>7 DEF Typed

\* The first point of the trail of a vessel that is tracked.
LEMMA HeadTyped ==
  ASSUME MemoryTyped, NEW m \in Tracked
  PROVE  /\ m \in Vessels /\ pointHistory[m] \in Seq(Points) /\ pointHistory[m] # <<>>
         /\ 1 \in 1..Len(pointHistory[m]) /\ pointHistory[m][1] \in Points
BY TrailTyped DEF Tracked, MemoryTyped

LEMMA DeleteTyped == Typed /\ DeletePoints => Typed'
<1>. SUFFICES ASSUME Typed, DeletePoints PROVE Typed'
  OBVIOUS
<1>1. MemoryTyped'
  <2>1. \A m \in Vessels : YoungPoints(m) \in Seq(Points)
    BY YoungOrdered DEF YoungPoints, Typed, MemoryTyped
  <2>. QED
    BY <2>1 DEF DeletePoints, Typed, MemoryTyped
<1>2. RowsTyped'
  <2>1. ASSUME NEW m \in Vessels, ais[m] # NoRow
        PROVE  [ais[m] EXCEPT !.deleteSent = TRUE] \in AISRows
    <3>1. ais[m] \in AISRows
      BY <2>1 DEF Typed, RowsTyped
    <3>. QED
      BY <3>1 DEF AISRows
  <2>2. ais' \in [Vessels -> AISRows \union {NoRow}]
    BY <2>1 DEF DeletePoints, Typed, RowsTyped
  <2>. QED
    BY <2>2 DEF DeletePoints, rowVars, Typed, RowsTyped
<1>3. RunTyped'
  BY FaultTyped DEF DeletePoints, Typed, RunTyped
<1>4. SendTyped' /\ Locked'
  BY DEF DeletePoints, sendVars, Typed, SendTyped, Locked
<1>. QED
  BY <1>1, <1>2, <1>3, <1>4 DEF Typed

LEMMA AddTyped == Typed /\ AddAISHistory => Typed'
<1>. SUFFICES ASSUME Typed, AddAISHistory PROVE Typed'
  OBVIOUS
<1>1. MemoryTyped'
  <2>1. \A m \in Vessels : Extended(pointHistory[m]) \in Seq(Points)
    BY ExtendedOrdered DEF Typed, MemoryTyped
  <2>. QED
    BY <2>1 DEF AddAISHistory, Typed, MemoryTyped
<1>2. RowsTyped'
  <2>1. ASSUME NEW m \in Tracked
        PROVE  [mmsi |-> m, ts |-> pointHistory[m][1].ts, src |-> SourceOf(pointHistory[m][1]),
                at |-> clock] \in HistoryRows
    BY HeadTyped, PointsTyped, SourceTyped DEF Typed, RunTyped, HistoryRows
  <2>. QED
    BY <2>1 DEF AddAISHistory, Typed, RowsTyped
<1>3. RunTyped'
  BY DEF AddAISHistory, boundVars, Typed, RunTyped
<1>4. SendTyped' /\ Locked'
  BY DEF AddAISHistory, sendVars, Typed, SendTyped, Locked
<1>. QED
  BY <1>1, <1>2, <1>3, <1>4 DEF Typed

LEMMA TablesTyped == Typed /\ (InsertHistory \/ CommitHistory) => Typed'
<1>. SUFFICES ASSUME Typed, InsertHistory \/ CommitHistory PROVE Typed'
  OBVIOUS
<1>1. MemoryTyped' /\ SendTyped' /\ Locked'
  BY DEF InsertHistory, CommitHistory, memoryVars, sendVars, Typed, MemoryTyped, SendTyped, Locked
<1>2. RowsTyped'
  BY DEF InsertHistory, Inserted, InsertFails, CommitHistory, Typed, RowsTyped
<1>3. RunTyped'
  BY FaultTyped DEF InsertHistory, Inserted, InsertFails, CommitHistory, Typed, RunTyped
<1>. QED
  BY <1>1, <1>2, <1>3 DEF Typed

\* The row of a vessel after the batch: written now, or as it was.
LEMMA BatchRows ==
  ASSUME BatchUpdateAisData, NEW m \in Vessels
  PROVE  \/ ais'[m] = ais[m]
         \/ /\ m \in Tracked
            /\ ais'[m].updatedAt = clock /\ ais'[m].sources = ActiveSources(m)
<1>. DEFINE row(v) == [pos |-> pointHistory[v][1].pos, ts |-> pointHistory[v][1].ts,
                       src |-> SourceOf(pointHistory[v][1]), sources |-> ActiveSources(v),
                       updatedAt |-> clock, deleteSent |-> FALSE]
<1>1. row(m).updatedAt = clock /\ row(m).sources = ActiveSources(m)
  OBVIOUS
<1>. HIDE DEF row
<1>2. CASE UNCHANGED ais
  BY <1>2
<1>3. CASE ais' = [v \in Vessels |->
                     IF v \in Tracked /\ pointHistory[v][1].ts + Window >= clock
                     THEN row(v) ELSE ais[v]]
  BY <1>1, <1>3
<1>. QED
  BY <1>2, <1>3 DEF BatchUpdateAisData, row

LEMMA BatchTyped == Typed /\ BatchUpdateAisData => Typed'
<1>. SUFFICES ASSUME Typed, BatchUpdateAisData PROVE Typed'
  OBVIOUS
<1>1. MemoryTyped' /\ Locked'
  BY DEF BatchUpdateAisData, memoryVars, Typed, MemoryTyped, Locked
<1>2. SendTyped'
  <2>1. CASE ExecuteSend(FALSE, {})
    BY <2>1 DEF BatchUpdateAisData, ExecuteSend, Typed, SendTyped
  <2>2. CASE UNCHANGED <<throttled, sendTimer, unseen, missed>>
    BY <2>2 DEF BatchUpdateAisData, Typed, SendTyped
  <2>. QED
    BY <2>1, <2>2 DEF BatchUpdateAisData
<1>3. RowsTyped'
  <2>1. ASSUME NEW m \in Tracked
        PROVE  [pos |-> pointHistory[m][1].pos, ts |-> pointHistory[m][1].ts,
                src |-> SourceOf(pointHistory[m][1]), sources |-> ActiveSources(m),
                updatedAt |-> clock, deleteSent |-> FALSE] \in AISRows
    <3>1. /\ pointHistory[m][1].pos \in Positions /\ pointHistory[m][1].ts \in Times
          /\ SourceOf(pointHistory[m][1]) \in Senders \union {Site}
      BY HeadTyped, PointsTyped, SourceTyped DEF Typed
    <3>2. ActiveSources(m) \in SUBSET (Senders \union {Site})
      BY ActiveSourcesTyped, HeadTyped DEF Typed
    <3>. QED
      BY <3>1, <3>2 DEF Typed, RunTyped, AISRows
  <2>2. ais' \in [Vessels -> AISRows \union {NoRow}]
    BY <2>1, ZenonT(40) DEF BatchUpdateAisData, Typed, RowsTyped
  <2>. QED
    BY <2>2 DEF BatchUpdateAisData, rowVars, Typed, RowsTyped
<1>4. RunTyped'
  BY FaultTyped DEF BatchUpdateAisData, Typed, RunTyped
<1>. QED
  BY <1>1, <1>2, <1>3, <1>4 DEF Typed

\* The point that a row of the table becomes.
LoadedPoint(m) == [ts |-> ais[m].updatedAt, pos |-> ais[m].pos, src |-> NoSource]

LEMMA LoadedTyped ==
  ASSUME RowsTyped, NEW m \in Vessels, ais[m] # NoRow
  PROVE  LoadedPoint(m) \in Points /\ LoadedPoint(m).ts = ais[m].updatedAt
<1>1. ais[m] \in AISRows
  BY DEF RowsTyped
<1>. QED
  BY <1>1 DEF LoadedPoint, AISRows, Points

\* What the load does to the trails.
LEMMA LoadedTrails ==
  ASSUME LoadRecentAISData
  PROVE  \E loaded \in SUBSET {m \in Vessels : ais[m] # NoRow} :
           /\ pointHistory' = [m \in Vessels |-> IF m \in loaded THEN <<LoadedPoint(m), LoadedPoint(m)>>
                                                ELSE pointHistory[m]]
           /\ \/ UNCHANGED <<throttled, sendTimer, unseen, missed>>
              \/ ExecuteSend(TRUE, {})
<1>1. PICK loaded \in SUBSET RecentRows : LoadTrails(loaded)
  BY DEF LoadRecentAISData
<1>2. loaded \in SUBSET {m \in Vessels : ais[m] # NoRow}
  BY DEF RecentRows
<1>3. pointHistory' = [m \in Vessels |-> IF m \in loaded THEN <<LoadedPoint(m), LoadedPoint(m)>>
                                        ELSE pointHistory[m]]
  BY <1>1 DEF LoadTrails, LoadedPoint
<1>4. \/ UNCHANGED <<throttled, sendTimer, unseen, missed>>
      \/ ExecuteSend(TRUE, {})
  BY DEF LoadRecentAISData
<1>. QED
  BY <1>2, <1>3, <1>4

LEMMA LoadTyped == Typed /\ LoadRecentAISData => Typed'
<1>. SUFFICES ASSUME Typed, LoadRecentAISData PROVE Typed'
  OBVIOUS
<1>1. PICK loaded \in SUBSET {m \in Vessels : ais[m] # NoRow} :
        /\ pointHistory' = [m \in Vessels |-> IF m \in loaded THEN <<LoadedPoint(m), LoadedPoint(m)>>
                                             ELSE pointHistory[m]]
        /\ \/ UNCHANGED <<throttled, sendTimer, unseen, missed>>
           \/ ExecuteSend(TRUE, {})
  BY LoadedTrails
<1>2. MemoryTyped'
  <2>1. \A m \in loaded : <<LoadedPoint(m), LoadedPoint(m)>> \in Seq(Points)
    BY LoadedTyped, TwiceOrdered DEF Typed
  <2>2. pointHistory' \in [Vessels -> Seq(Points)]
    BY <1>1, <2>1 DEF Typed, MemoryTyped
  <2>. QED
    BY <2>2 DEF LoadRecentAISData, Typed, MemoryTyped
<1>3. SendTyped'
  <2>1. CASE UNCHANGED <<throttled, sendTimer, unseen, missed>>
    BY <2>1 DEF LoadRecentAISData, Typed, SendTyped
  <2>2. CASE ExecuteSend(TRUE, {})
    BY <2>2 DEF LoadRecentAISData, ExecuteSend, Typed, SendTyped
  <2>. QED
    BY <1>1, <2>1, <2>2
<1>4. RowsTyped' /\ Locked'
  BY DEF LoadRecentAISData, rowVars, Typed, RowsTyped, Locked
<1>5. RunTyped'
  BY FaultTyped DEF LoadRecentAISData, Typed, RunTyped
<1>. QED
  BY <1>2, <1>3, <1>4, <1>5 DEF Typed

LEMMA RestartTyped == Typed /\ Restart => Typed'
<1>. SUFFICES ASSUME Typed, Restart PROVE Typed'
  OBVIOUS
<1>1. MemoryTyped'
  BY EmptyTyped DEF Restart, Typed, MemoryTyped
<1>2. SendTyped' /\ RowsTyped' /\ Locked'
  BY DEF Restart, Typed, SendTyped, RowsTyped, Locked
<1>3. RunTyped'
  BY VesselTrackAssumption DEF Restart, Typed, RunTyped
<1>. QED
  BY <1>1, <1>2, <1>3 DEF Typed

LEMMA MinuteTyped == Typed /\ Minute => Typed'
<1>. SUFFICES ASSUME Typed, Minute PROVE Typed'
  OBVIOUS
<1>1. clock' \in Times
  BY VesselTrackAssumption DEF Minute, Typed, RunTyped, Times
<1>2. RunTyped'
  BY <1>1 DEF Minute, boundVars, Typed, RunTyped
<1>3. MemoryTyped' /\ SendTyped' /\ RowsTyped' /\ Locked'
  BY DEF Minute, rowVars, Typed, MemoryTyped, SendTyped, RowsTyped, Locked
<1>. QED
  BY <1>2, <1>3 DEF Typed

LEMMA SaveTyped ==
  ASSUME Typed, NEW m \in Vessels, NEW source \in Senders, NEW pos \in Positions,
         SaveAISData(m, source, pos)
  PROVE  Typed'
<1>1. NewPoint(source, pos) \in Points
  BY DEF NewPoint, Points, Typed, RunTyped
<1>2. recent' \subseteq Vessels /\ saving' \subseteq Calls /\ Locked'
  BY <1>1, LockTaken DEF SaveAISData
<1>3. activeSources' \in [Vessels -> [Senders -> 0..MaxClock]]
  BY MarkedTyped DEF SaveAISData, Typed, RunTyped
<1>4. heard' \in [Vessels -> [Senders -> 0..MaxClock]]
  BY HeardTyped DEF SaveAISData, Typed, RunTyped, MemoryTyped
<1>5. MemoryTyped'
  BY <1>2, <1>3, <1>4 DEF SaveAISData, Typed, MemoryTyped
<1>6. SendTyped' /\ RowsTyped' /\ RunTyped'
  BY DEF SaveAISData, sendVars, rowVars, boundVars, Typed, SendTyped, RowsTyped, RunTyped
<1>. QED
  BY <1>2, <1>5, <1>6 DEF Typed

LEMMA CallTyped ==
  ASSUME MemoryTyped, NEW call \in saving
  PROVE  call.mmsi \in Vessels /\ call.history \in Seq(Points) /\ call.point \in Points
BY DEF MemoryTyped, Calls

LEMMA ResumesTyped == ASSUME Typed, NEW call \in saving, SaveResumes(call) PROVE Typed'
<1>1. WithHead(call.history, call.point) \in Seq(Points) /\ call.mmsi \in Vessels
  BY CallTyped, WithHeadOrdered DEF Typed
<1>2. saving' \subseteq Calls /\ Locked'
  BY LockGivenBack DEF SaveResumes
<1>3. MemoryTyped'
  BY <1>1, <1>2 DEF SaveResumes, Typed, MemoryTyped
<1>4. SendTyped'
  <2>1. SendAisData({call.mmsi}) /\ UNCHANGED isDeviceConnected /\ {call.mmsi} \subseteq Vessels
    BY <1>1 DEF SaveResumes
  <2>. QED
    BY <2>1 DEF SendAisData, ExecuteSend, Typed, SendTyped
<1>5. RowsTyped' /\ RunTyped'
  BY DEF SaveResumes, rowVars, boundVars, Typed, RowsTyped, RunTyped
<1>. QED
  BY <1>2, <1>3, <1>4, <1>5 DEF Typed

LEMMA FailsTyped == ASSUME Typed, NEW call \in saving, SaveFails(call) PROVE Typed'
<1>1. saving' \subseteq Calls /\ Locked'
  BY LockGivenBack DEF SaveFails
<1>2. MemoryTyped' /\ SendTyped' /\ RowsTyped'
  BY <1>1 DEF SaveFails, sendVars, rowVars, Typed, MemoryTyped, SendTyped, RowsTyped
<1>3. RunTyped'
  BY FaultTyped DEF SaveFails, Typed, RunTyped
<1>. QED
  BY <1>1, <1>2, <1>3 DEF Typed

\* The steps that only move a flag of the broadcast or the dedup window.
FlagStep ==
  \/ SendTimer \/ ThrottleEnds \/ DeviceStatus
  \/ \E m \in Vessels : DedupWindowPasses(m)
  \/ UNCHANGED vars

LEMMA FlagTyped == Typed /\ FlagStep => Typed'
<1>. SUFFICES ASSUME Typed, FlagStep PROVE Typed'
  OBVIOUS
<1>1. CASE SendTimer
  <2>1. SendTyped'
    BY <1>1 DEF SendTimer, ExecuteSend, Typed, SendTyped
  <2>2. MemoryTyped' /\ RowsTyped' /\ RunTyped' /\ Locked'
    BY <1>1 DEF SendTimer, memoryVars, rowVars, boundVars, Typed, MemoryTyped, RowsTyped, RunTyped,
                Locked
  <2>. QED
    BY <2>1, <2>2 DEF Typed
<1>2. CASE ThrottleEnds
  <2>1. SendTyped' /\ RowsTyped' /\ RunTyped'
    BY <1>2 DEF ThrottleEnds, rowVars, boundVars, Typed, SendTyped, RowsTyped, RunTyped
  <2>2. MemoryTyped' /\ Locked'
    BY <1>2 DEF ThrottleEnds, memoryVars, Typed, MemoryTyped, Locked
  <2>. QED
    BY <2>1, <2>2 DEF Typed
<1>3. CASE DeviceStatus
  <2>1. SendTyped' /\ RowsTyped'
    BY <1>3 DEF DeviceStatus, rowVars, Typed, SendTyped, RowsTyped
  <2>2. MemoryTyped' /\ Locked'
    BY <1>3 DEF DeviceStatus, memoryVars, Typed, MemoryTyped, Locked
  <2>3. RunTyped'
    BY <1>3, FaultTyped DEF DeviceStatus, Typed, RunTyped
  <2>. QED
    BY <2>1, <2>2, <2>3 DEF Typed
<1>4. ASSUME NEW m \in Vessels, DedupWindowPasses(m) PROVE Typed'
  <2>1. SendTyped' /\ RowsTyped' /\ RunTyped'
    BY <1>4 DEF DedupWindowPasses, sendVars, rowVars, boundVars, Typed, SendTyped, RowsTyped, RunTyped
  <2>2. MemoryTyped' /\ Locked'
    BY <1>4 DEF DedupWindowPasses, Typed, MemoryTyped, Locked
  <2>. QED
    BY <2>1, <2>2 DEF Typed
<1>5. CASE UNCHANGED vars
  <2>1. SendTyped' /\ RowsTyped' /\ RunTyped'
    BY <1>5 DEF vars, sendVars, rowVars, boundVars, Typed, SendTyped, RowsTyped, RunTyped
  <2>2. MemoryTyped' /\ Locked'
    BY <1>5 DEF vars, memoryVars, Typed, MemoryTyped, Locked
  <2>. QED
    BY <2>1, <2>2 DEF Typed
<1>. QED
  BY <1>1, <1>2, <1>3, <1>4, <1>5 DEF FlagStep

\* The steps of Next, in the grouping of these proofs.
LEMMA NextCases ==
  [Next]_vars =>
    \/ FlagStep
    \/ DeletePoints \/ AddAISHistory \/ InsertHistory \/ CommitHistory \/ BatchUpdateAisData
    \/ LoadRecentAISData \/ Restart \/ Minute
    \/ \E m \in Vessels, source \in Senders, pos \in Positions :
         Receivable(source) /\ SaveAISData(m, source, pos)
    \/ \E call \in saving : SaveResumes(call) \/ SaveFails(call)
BY DEF Next, FlagStep

LEMMA NextTyped == Typed /\ [Next]_vars => Typed'
<1>. SUFFICES ASSUME Typed, [Next]_vars PROVE Typed'
  OBVIOUS
<1>1. CASE \E m \in Vessels, source \in Senders, pos \in Positions :
              Receivable(source) /\ SaveAISData(m, source, pos)
  BY <1>1, SaveTyped
<1>2. CASE \E call \in saving : SaveResumes(call) \/ SaveFails(call)
  BY <1>2, ResumesTyped, FailsTyped
<1>. QED
  BY <1>1, <1>2, NextCases, FlagTyped, DeleteTyped, AddTyped, TablesTyped, BatchTyped, LoadTyped,
     RestartTyped, MinuteTyped

\* Every variable keeps its type, and only a vessel whose report is in flight
\* is locked, by one call.
THEOREM VesselTrackTyped == Spec => []TypeOK
BY InitTyped, NextTyped, TypedIsTypeOK, PTL DEF Spec

----------------------------------------------------------------------------
(* The order of the trails. *)

\* Trails, and the histories that calls took with them, are in order, and no
\* point is younger than it can be: the point of a call was received after its
\* history was read, and nothing is from a minute that is still to come.
InOrder ==
  /\ \A m \in Vessels : Ordered(pointHistory[m]) /\ NoneAfter(pointHistory[m], clock)
  /\ \A call \in saving :
       /\ Ordered(call.history) /\ NoneAfter(call.history, call.point.ts)
       /\ call.point.ts <= clock
  /\ \A m \in Vessels : ais[m] # NoRow => ais[m].updatedAt <= clock

LEMMA InOrderIsTrailOrdered == MemoryTyped /\ InOrder => TrailOrdered
<1>. SUFFICES ASSUME MemoryTyped, InOrder, NEW m \in Vessels
              PROVE  /\ Len(pointHistory[m]) <= TrailCap + 1
                     /\ \A i, j \in DOMAIN pointHistory[m] :
                          i < j => pointHistory[m][i].ts >= pointHistory[m][j].ts
  BY DEF TrailOrdered
<1>1. DOMAIN pointHistory[m] = 1..Len(pointHistory[m])
  BY TrailTyped DEF MemoryTyped
<1>. QED
  BY <1>1 DEF InOrder, Ordered

LEMMA EmptyOrdered ==
  ASSUME NEW time \in Nat
  PROVE  Ordered(<<>>) /\ NoneAfter(<<>>, time)
<1>1. Len(<<>>) = 0 /\ 1..0 = {}
  OBVIOUS
<1>. QED
  BY <1>1, VesselTrackAssumption DEF Ordered, NoneAfter

LEMMA InitInOrder == Init => InOrder
<1>1. 1 \in Nat
  OBVIOUS
<1>. QED
  BY <1>1, EmptyOrdered DEF Init, InOrder, NoTrails

LEMMA DeleteInOrder == Typed /\ InOrder /\ DeletePoints => InOrder'
<1>. SUFFICES ASSUME Typed, InOrder, DeletePoints PROVE InOrder'
  OBVIOUS
<1>1. clock' = clock /\ saving' = saving /\ clock \in Nat
  BY ClockTyped DEF DeletePoints, Typed, RunTyped
<1>2. ASSUME NEW m \in Vessels
      PROVE  Ordered(pointHistory'[m]) /\ NoneAfter(pointHistory'[m], clock)
  <2>1. pointHistory'[m] = YoungOf(pointHistory[m])
    BY DEF DeletePoints, YoungPoints
  <2>. QED
    BY <1>1, <2>1, YoungOrdered DEF InOrder, Typed, MemoryTyped
<1>3. ASSUME NEW m \in Vessels, ais'[m] # NoRow
      PROVE  ais'[m].updatedAt <= clock
  <2>1. CASE ais'[m] = ais[m]
    BY <1>3, <2>1 DEF InOrder
  <2>2. CASE ais[m] # NoRow /\ ais'[m] = [ais[m] EXCEPT !.deleteSent = TRUE]
    <3>1. ais[m] \in AISRows
      BY <2>2 DEF Typed, RowsTyped
    <3>2. ais'[m].updatedAt = ais[m].updatedAt
      BY <2>2, <3>1 DEF AISRows
    <3>. QED
      BY <2>2, <3>2 DEF InOrder
  <2>. QED
    BY <2>1, <2>2 DEF DeletePoints
<1>. QED
  BY <1>1, <1>2, <1>3 DEF InOrder

LEMMA AddInOrder == Typed /\ InOrder /\ AddAISHistory => InOrder'
<1>. SUFFICES ASSUME Typed, InOrder, AddAISHistory PROVE InOrder'
  OBVIOUS
<1>1. clock' = clock /\ saving' = saving /\ ais' = ais /\ clock \in Nat
  BY ClockTyped DEF AddAISHistory, Typed, RunTyped
<1>2. ASSUME NEW m \in Vessels
      PROVE  Ordered(pointHistory'[m]) /\ NoneAfter(pointHistory'[m], clock)
  <2>1. pointHistory'[m] = Extended(pointHistory[m])
    BY DEF AddAISHistory
  <2>. QED
    BY <1>1, <2>1, ExtendedOrdered DEF InOrder, Typed, MemoryTyped
<1>. QED
  BY <1>1, <1>2 DEF InOrder

LEMMA LoadInOrder == Typed /\ InOrder /\ LoadRecentAISData => InOrder'
<1>. SUFFICES ASSUME Typed, InOrder, LoadRecentAISData PROVE InOrder'
  OBVIOUS
<1>1. clock' = clock /\ saving' = saving /\ ais' = ais /\ clock \in Nat
  BY ClockTyped DEF LoadRecentAISData, Typed, RunTyped
<1>2. PICK loaded \in SUBSET {m \in Vessels : ais[m] # NoRow} :
        pointHistory' = [m \in Vessels |-> IF m \in loaded THEN <<LoadedPoint(m), LoadedPoint(m)>>
                                          ELSE pointHistory[m]]
  BY LoadedTrails
<1>3. ASSUME NEW m \in Vessels
      PROVE  Ordered(pointHistory'[m]) /\ NoneAfter(pointHistory'[m], clock)
  <2>1. CASE m \in loaded
    <3>1. pointHistory'[m] = <<LoadedPoint(m), LoadedPoint(m)>>
      BY <1>2, <2>1
    <3>2. LoadedPoint(m) \in Points /\ LoadedPoint(m).ts <= clock
      BY <2>1, LoadedTyped DEF InOrder, Typed
    <3>. QED
      BY <1>1, <3>1, <3>2, TwiceOrdered
  <2>2. CASE m \notin loaded
    BY <1>2, <2>2 DEF InOrder
  <2>. QED
    BY <2>1, <2>2
<1>. QED
  BY <1>1, <1>3 DEF InOrder

LEMMA MinuteInOrder == Typed /\ InOrder /\ Minute => InOrder'
<1>. SUFFICES ASSUME Typed, InOrder, Minute PROVE InOrder'
  OBVIOUS
<1>1. UNCHANGED <<pointHistory, saving, ais>> /\ clock' = clock + 1 /\ clock \in Nat
  BY ClockTyped DEF Minute, Typed, RunTyped
<1>2. ASSUME NEW m \in Vessels PROVE NoneAfter(pointHistory[m], clock + 1)
  <2>1. \A i \in 1..Len(pointHistory[m]) : pointHistory[m][i].ts \in Nat
    BY TrailTyped, PointsTyped DEF Typed, MemoryTyped
  <2>. QED
    BY <1>1, <2>1 DEF InOrder, NoneAfter
<1>3. \A call \in saving : call.point.ts \in Nat
  BY CallTyped, PointsTyped DEF Typed
<1>4. \A m \in Vessels : ais[m] # NoRow => ais[m].updatedAt \in Nat
  BY LoadedTyped, PointsTyped DEF Typed
<1>. QED
  BY <1>1, <1>2, <1>3, <1>4 DEF InOrder

LEMMA SaveInOrder ==
  ASSUME Typed, InOrder, NEW m \in Vessels, NEW source \in Senders, NEW pos \in Positions,
         SaveAISData(m, source, pos)
  PROVE  InOrder'
<1>1. UNCHANGED <<pointHistory, ais, clock>> /\ clock \in Nat
  BY ClockTyped DEF SaveAISData, Typed, RunTyped
<1>2. NewPoint(source, pos) \in Points /\ NewPoint(source, pos).ts = clock
  BY DEF NewPoint, Points, Typed, RunTyped
<1>3. \/ saving' = saving
      \/ saving' = saving \union
           {[mmsi |-> m, history |-> pointHistory[m], point |-> NewPoint(source, pos)]}
  BY <1>2, Accepted DEF SaveAISData
<1>4. ASSUME NEW call \in saving'
      PROVE  /\ Ordered(call.history) /\ NoneAfter(call.history, call.point.ts)
             /\ call.point.ts <= clock
  <2>1. CASE call \in saving
    BY <2>1 DEF InOrder
  <2>2. CASE call = [mmsi |-> m, history |-> pointHistory[m], point |-> NewPoint(source, pos)]
    BY <1>1, <1>2, <2>2 DEF InOrder
  <2>. QED
    BY <1>3, <2>1, <2>2
<1>. QED
  BY <1>1, <1>4 DEF InOrder

LEMMA ResumesInOrder == ASSUME Typed, InOrder, NEW call \in saving, SaveResumes(call) PROVE InOrder'
<1>1. UNCHANGED <<clock, ais>> /\ clock \in Nat /\ saving' \subseteq saving
  BY ClockTyped DEF SaveResumes, Typed, RunTyped
<1>2. call.mmsi \in Vessels /\ call.history \in Seq(Points) /\ call.point \in Points
      /\ call.point.ts \in Nat
  BY CallTyped, PointsTyped DEF Typed
<1>3. /\ Ordered(WithHead(call.history, call.point))
      /\ NoneAfter(WithHead(call.history, call.point), clock)
  <2>1. Ordered(call.history) /\ NoneAfter(call.history, call.point.ts) /\ call.point.ts <= clock
    BY DEF InOrder
  <2>2. NoneAfter(WithHead(call.history, call.point), call.point.ts)
    <3>1. \A time \in Nat : NoneAfter(call.history, time) /\ call.point.ts <= time =>
            NoneAfter(WithHead(call.history, call.point), time)
      BY <1>2, WithHeadOrdered
    <3>2. call.point.ts <= call.point.ts
      BY <1>2
    <3>. QED
      BY <1>2, <2>1, <3>1, <3>2
  <2>3. \A i \in 1..Len(WithHead(call.history, call.point)) :
          WithHead(call.history, call.point)[i].ts \in Nat
    BY <1>2, WithHeadOrdered, TrailTyped, PointsTyped
  <2>4. NoneAfter(WithHead(call.history, call.point), clock)
    BY <1>1, <1>2, <2>1, <2>2, <2>3 DEF NoneAfter
  <2>. QED
    BY <1>2, <2>1, <2>4, WithHeadOrdered
<1>4. pointHistory' = [pointHistory EXCEPT ![call.mmsi] = WithHead(call.history, call.point)]
  BY DEF SaveResumes
<1>5. \A m \in Vessels : Ordered(pointHistory'[m]) /\ NoneAfter(pointHistory'[m], clock)
  BY <1>2, <1>3, <1>4 DEF InOrder, Typed, MemoryTyped
<1>. QED
  BY <1>1, <1>5 DEF InOrder

\* The steps that leave clock, trails and table alone, and start no call.
QuietStep ==
  \/ FlagStep \/ InsertHistory \/ CommitHistory
  \/ \E call \in saving : SaveFails(call)

LEMMA Quiet ==
  QuietStep => UNCHANGED <<clock, pointHistory, ais, activeSources, heard, loading, restarts>>
               /\ saving' \subseteq saving
<1>. USE DEF memoryVars, sendVars, rowVars, boundVars
<1>1. FlagStep => UNCHANGED <<clock, pointHistory, ais, activeSources, heard, loading, restarts, saving>>
  BY DEF FlagStep, SendTimer, ThrottleEnds, DeviceStatus, DedupWindowPasses, vars
<1>2. InsertHistory \/ CommitHistory =>
        UNCHANGED <<clock, pointHistory, ais, activeSources, heard, loading, restarts, saving>>
  BY DEF InsertHistory, CommitHistory
<1>3. ASSUME NEW call \in saving, SaveFails(call)
      PROVE  UNCHANGED <<clock, pointHistory, ais, activeSources, heard, loading, restarts>>
             /\ saving' \subseteq saving
  BY <1>3 DEF SaveFails
<1>. QED
  BY <1>1, <1>2, <1>3 DEF QuietStep

LEMMA NextInOrder == Typed /\ InOrder /\ [Next]_vars => InOrder'
<1>. SUFFICES ASSUME Typed, InOrder, [Next]_vars PROVE InOrder'
  OBVIOUS
<1>1. CASE QuietStep
  BY <1>1, Quiet DEF InOrder
<1>2. CASE BatchUpdateAisData
  <2>1. UNCHANGED <<clock, pointHistory, saving>> /\ clock \in Nat
    BY <1>2, ClockTyped DEF BatchUpdateAisData, memoryVars, Typed, RunTyped
  <2>2. ASSUME NEW m \in Vessels PROVE ais'[m] = ais[m] \/ ais'[m].updatedAt = clock
    BY <1>2, BatchRows
  <2>. QED
    BY <2>1, <2>2 DEF InOrder
<1>3. CASE Restart
  <2>1. clock' = clock /\ ais' = ais /\ saving' = {} /\ pointHistory' = NoTrails /\ clock \in Nat
    BY <1>3, ClockTyped DEF Restart, Typed, RunTyped
  <2>. QED
    BY <2>1, EmptyOrdered DEF InOrder, NoTrails
<1>4. CASE \E m \in Vessels, source \in Senders, pos \in Positions :
              Receivable(source) /\ SaveAISData(m, source, pos)
  BY <1>4, SaveInOrder
<1>5. CASE \E call \in saving : SaveResumes(call)
  BY <1>5, ResumesInOrder
<1>. QED
  BY <1>1, <1>2, <1>3, <1>4, <1>5, NextCases, DeleteInOrder, AddInOrder, LoadInOrder, MinuteInOrder
     DEF QuietStep

\* A trail is in the order of reception and never longer than 21 points,
\* whatever calls and jobs are under way while it is read and written.
THEOREM TrailsInOrder == Spec => []TrailOrdered
<1>1. Typed /\ InOrder => TrailOrdered
  BY InOrderIsTrailOrdered DEF Typed
<1>. QED
  BY <1>1, InitTyped, NextTyped, InitInOrder, NextInOrder, PTL DEF Spec

----------------------------------------------------------------------------
(* The rows of the history. *)

AllRows == aisHisotry \union uncommitted \union stored

\* A row carries the minute in which it was made; before the job of a minute
\* has made its rows, there is none of this minute.  This is what keeps a row
\* that is made apart from those that are on their way already.
RowsApart ==
  /\ EachRowOnce
  /\ \A r \in AllRows : r.at <= clock
  /\ cron \in {"due", "add"} => \A r \in AllRows : r.at < clock

LEMMA RowMinutes == RowsTyped => \A r \in AllRows : r.at \in Nat
BY VesselTrackAssumption DEF RowsTyped, AllRows, HistoryRows, Times

LEMMA InitApart == Init => RowsApart
BY DEF Init, RowsApart, AllRows, EachRowOnce

LEMMA NextApart == Typed /\ RowsApart /\ [Next]_vars => RowsApart'
<1>. SUFFICES ASSUME Typed, RowsApart, [Next]_vars PROVE RowsApart'
  OBVIOUS
<1>. clock \in Nat /\ \A r \in AllRows : r.at \in Nat
  BY ClockTyped, RowMinutes DEF Typed, RunTyped
<1>1. ASSUME UNCHANGED <<clock, aisHisotry, uncommitted, stored>>, cron' = cron \/ cron # "idle",
             cron' = cron \/ cron' \notin {"due", "add"} \/ cron \in {"due", "add"}
      PROVE  RowsApart'
  BY <1>1 DEF RowsApart, AllRows, EachRowOnce
<1>2. CASE FlagStep
  BY <1>1, <1>2 DEF FlagStep, SendTimer, ThrottleEnds, DeviceStatus, DedupWindowPasses, vars, rowVars
<1>3. CASE DeletePoints \/ BatchUpdateAisData \/ LoadRecentAISData
  BY <1>1, <1>3 DEF DeletePoints, BatchUpdateAisData, LoadRecentAISData, rowVars
<1>4. CASE AddAISHistory
  <2>1. \A r \in aisHisotry' : r \in aisHisotry \/ r.at = clock
    BY <1>4 DEF AddAISHistory
  <2>2. \A r \in AllRows : r.at < clock
    BY <1>4 DEF AddAISHistory, RowsApart
  <2>3. UNCHANGED <<clock, uncommitted, stored>> /\ cron' = "insert"
    BY <1>4 DEF AddAISHistory
  <2>4. aisHisotry' \intersect (uncommitted \union stored) = {}
    <3>1. \A r \in uncommitted \union stored : r \notin aisHisotry /\ r.at # clock
      BY <2>2 DEF RowsApart, EachRowOnce, AllRows
    <3>. QED
      BY <2>1, <3>1
  <2>5. \A r \in AllRows' : r.at <= clock
    BY <2>1, <2>2, <2>3 DEF AllRows
  <2>. QED
    BY <2>3, <2>4, <2>5 DEF RowsApart, EachRowOnce
<1>5. CASE InsertHistory \/ CommitHistory
  BY <1>5 DEF InsertHistory, Inserted, InsertFails, CommitHistory, RowsApart, EachRowOnce, AllRows
<1>6. CASE Restart
  BY <1>6 DEF Restart, RowsApart, EachRowOnce, AllRows
<1>7. CASE Minute
  BY <1>7 DEF Minute, rowVars, RowsApart, EachRowOnce, AllRows
<1>8. ASSUME NEW m \in Vessels, NEW source \in Senders, NEW pos \in Positions,
             SaveAISData(m, source, pos)
      PROVE  RowsApart'
  BY <1>1, <1>8 DEF SaveAISData, rowVars
<1>9. ASSUME NEW call \in saving, SaveResumes(call) \/ SaveFails(call)
      PROVE  RowsApart'
  BY <1>1, <1>9 DEF SaveResumes, SaveFails, rowVars
<1>. QED
  BY <1>2, <1>3, <1>4, <1>5, <1>6, <1>7, <1>8, <1>9, NextCases

\* A history row is queued, in the open transaction or stored, never in two of
\* these, whatever inserts and commits fail and whenever the process restarts.
THEOREM RowsAreStoredOnce == Spec => []EachRowOnce
<1>1. RowsApart => EachRowOnce
  BY DEF RowsApart
<1>. QED
  BY <1>1, InitTyped, NextTyped, InitApart, NextApart, PTL DEF Spec

\* A row leaves the queue for a transaction only, or with the process.
THEOREM RowsAreKept == Spec => RowsKeptUntilInserted
<1>1. Typed /\ [Next]_vars => [aisHisotry \subseteq aisHisotry' \union uncommitted' \/ restarts' # restarts]_vars
  <2>. SUFFICES ASSUME Typed, [Next]_vars
                PROVE  aisHisotry \subseteq aisHisotry' \union uncommitted' \/ restarts' # restarts
                         \/ UNCHANGED vars
    OBVIOUS
  <2>1. CASE FlagStep
    BY <2>1 DEF FlagStep, SendTimer, ThrottleEnds, DeviceStatus, DedupWindowPasses, rowVars
  <2>2. CASE Restart
    <3>1. restarts \in Nat /\ restarts' = restarts + 1
      BY <2>2, VesselTrackAssumption DEF Restart, Typed, RunTyped
    <3>. QED
      BY <3>1
  <2>3. CASE InsertHistory \/ CommitHistory \/ AddAISHistory
    BY <2>3 DEF InsertHistory, Inserted, InsertFails, CommitHistory, AddAISHistory
  <2>4. CASE DeletePoints \/ BatchUpdateAisData \/ LoadRecentAISData \/ Minute
    BY <2>4 DEF DeletePoints, BatchUpdateAisData, LoadRecentAISData, Minute, rowVars
  <2>5. ASSUME NEW m \in Vessels, NEW source \in Senders, NEW pos \in Positions,
               SaveAISData(m, source, pos)
        PROVE  aisHisotry' = aisHisotry
    BY <2>5 DEF SaveAISData, rowVars
  <2>6. ASSUME NEW call \in saving, SaveResumes(call) \/ SaveFails(call)
        PROVE  aisHisotry' = aisHisotry
    BY <2>6 DEF SaveResumes, SaveFails, rowVars
  <2>. QED
    BY <2>1, <2>2, <2>3, <2>4, <2>5, <2>6, NextCases
<1>. QED
  BY <1>1, InitTyped, NextTyped, PTL DEF Spec, RowsKeptUntilInserted

----------------------------------------------------------------------------
(* The start. *)

\* Until the table is loaded no job runs, and what the load finds depends on
\* how the process started: nothing, the first time; and where it does not
\* wait for a receiver, no report came before it.
Starting ==
  loading =>
    /\ cron = "idle"
    /\ restarts = 0 => \A m \in Vessels : ais[m] = NoRow
    /\ ~StartsWithWait => saving = {} /\ \A m \in Vessels : pointHistory[m] = <<>>

LEMMA InitStarting == Init => Starting
BY DEF Init, Starting, NoTrails

LEMMA RestartCounts == RunTyped /\ Restart => restarts' # 0
<1>. SUFFICES ASSUME RunTyped, Restart PROVE restarts' # 0
  OBVIOUS
<1>1. restarts \in Nat /\ restarts' = restarts + 1
  BY VesselTrackAssumption DEF Restart, RunTyped
<1>. QED
  BY <1>1

LEMMA NextStarting == Typed /\ Starting /\ [Next]_vars => Starting'
<1>. SUFFICES ASSUME Typed, Starting, [Next]_vars PROVE Starting'
  OBVIOUS
<1>1. CASE FlagStep
  <2>1. UNCHANGED cron /\ UNCHANGED <<pointHistory, ais, loading, restarts>> /\ saving' \subseteq saving
    BY <1>1, Quiet DEF QuietStep, FlagStep, SendTimer, ThrottleEnds, DeviceStatus,
                       DedupWindowPasses, vars
  <2>. QED
    BY <2>1 DEF Starting
<1>2. CASE DeletePoints \/ AddAISHistory \/ InsertHistory \/ CommitHistory \/ BatchUpdateAisData
  <2>1. cron # "idle" /\ loading' = loading
    BY <1>2 DEF DeletePoints, AddAISHistory, InsertHistory, CommitHistory, BatchUpdateAisData
  <2>. QED
    BY <2>1 DEF Starting
<1>3. CASE LoadRecentAISData
  BY <1>3 DEF LoadRecentAISData, Starting
<1>4. CASE Restart
  BY <1>4, RestartCounts DEF Restart, Starting, NoTrails, Typed
<1>5. CASE Minute
  BY <1>5 DEF Minute, Starting
<1>6. ASSUME NEW m \in Vessels, NEW source \in Senders, NEW pos \in Positions,
             Receivable(source), SaveAISData(m, source, pos)
      PROVE  Starting'
  <2>1. UNCHANGED <<cron, ais, loading, restarts, pointHistory>>
    BY <1>6 DEF SaveAISData, boundVars
  <2>. QED
    BY <1>6, <2>1 DEF Starting, Receivable
<1>7. ASSUME NEW call \in saving, SaveResumes(call) \/ SaveFails(call)
      PROVE  Starting'
  <2>1. UNCHANGED <<cron, ais, loading, restarts>> /\ saving' = saving \ {call} /\ saving # {}
    BY <1>7 DEF SaveResumes, SaveFails, boundVars
  <2>. QED
    BY <1>7, <2>1 DEF Starting, SaveFails
<1>. QED
  BY <1>1, <1>2, <1>3, <1>4, <1>5, <1>6, <1>7, NextCases

----------------------------------------------------------------------------
(* The newest position. *)

\* The load at the start does not write over what was received before it.
Undisturbed == restarts = 0 \/ ~StartsWithWait

\* The point of a call is at least as young as the trail it will be put on,
\* though the job of the minute changes that trail between its awaits.
CallsAreNewest ==
  Undisturbed => \A call \in saving : NoneAfter(pointHistory[call.mmsi], call.point.ts)

LEMMA InitNewest == Init => CallsAreNewest
BY DEF Init, CallsAreNewest

\* The first load finds no rows.
LEMMA FirstLoad ==
  ASSUME Typed, Starting, restarts = 0, LoadRecentAISData
  PROVE  pointHistory' = pointHistory
<1>1. \A m \in Vessels : ais[m] = NoRow
  BY DEF LoadRecentAISData, Starting
<1>2. PICK loaded \in SUBSET {m \in Vessels : ais[m] # NoRow} :
        pointHistory' = [m \in Vessels |-> IF m \in loaded THEN <<LoadedPoint(m), LoadedPoint(m)>>
                                          ELSE pointHistory[m]]
  BY LoadedTrails
<1>3. pointHistory' = [m \in Vessels |-> pointHistory[m]]
  BY <1>1, <1>2
<1>. QED
  BY <1>3 DEF Typed, MemoryTyped

\* Under Undisturbed the load finds no rows, or no trails and calls.
LEMMA LoadFits ==
  ASSUME Typed, Starting, Undisturbed, LoadRecentAISData
  PROVE  pointHistory' = pointHistory \/ (saving = {} /\ \A m \in Vessels : pointHistory[m] = <<>>)
BY FirstLoad DEF LoadRecentAISData, Starting, Undisturbed

LEMMA NextNewest ==
  Typed /\ InOrder /\ Starting /\ CallsAreNewest /\ [Next]_vars => CallsAreNewest'
<1>. SUFFICES ASSUME Typed, InOrder, Starting, CallsAreNewest, [Next]_vars,
                     Undisturbed', NEW call \in saving'
              PROVE  NoneAfter(pointHistory'[call.mmsi], call.point.ts)
  BY DEF CallsAreNewest
<1>. USE DEF boundVars
<1>1. ASSUME call \in saving, restarts' = restarts
      PROVE  /\ NoneAfter(pointHistory[call.mmsi], call.point.ts)
             /\ call.mmsi \in Vessels /\ pointHistory[call.mmsi] \in Seq(Points)
             /\ call.point.ts \in Nat
  BY <1>1, CallTyped, PointsTyped DEF CallsAreNewest, Undisturbed, Typed, MemoryTyped
<1>2. CASE QuietStep
  BY <1>1, <1>2, Quiet
<1>3. CASE DeletePoints
  <2>1. call \in saving /\ restarts' = restarts
    BY <1>3 DEF DeletePoints
  <2>2. pointHistory'[call.mmsi] = YoungOf(pointHistory[call.mmsi])
    BY <1>1, <1>3, <2>1 DEF DeletePoints, YoungPoints
  <2>. QED
    BY <1>1, <2>1, <2>2, YoungOrdered
<1>4. CASE AddAISHistory
  <2>1. call \in saving /\ restarts' = restarts
    BY <1>4 DEF AddAISHistory
  <2>2. pointHistory'[call.mmsi] = Extended(pointHistory[call.mmsi])
    BY <1>1, <1>4, <2>1 DEF AddAISHistory
  <2>. QED
    BY <1>1, <2>1, <2>2, ExtendedOrdered
<1>5. CASE BatchUpdateAisData
  BY <1>1, <1>5 DEF BatchUpdateAisData, memoryVars
<1>6. CASE LoadRecentAISData
  <2>1. call \in saving /\ restarts' = restarts
    BY <1>6 DEF LoadRecentAISData
  <2>2. pointHistory' = pointHistory
    BY <1>6, <2>1, LoadFits DEF Undisturbed
  <2>. QED
    BY <1>1, <2>1, <2>2
<1>7. CASE Restart
  BY <1>7 DEF Restart
<1>8. CASE Minute
  BY <1>1, <1>8 DEF Minute
<1>9. ASSUME NEW m \in Vessels, NEW source \in Senders, NEW pos \in Positions,
             SaveAISData(m, source, pos)
      PROVE  NoneAfter(pointHistory'[call.mmsi], call.point.ts)
  <2>1. UNCHANGED <<pointHistory, restarts>>
    BY <1>9 DEF SaveAISData
  <2>2. NewPoint(source, pos) \in Points /\ NewPoint(source, pos).ts = clock
    BY DEF NewPoint, Points, Typed, RunTyped
  <2>3. \/ call \in saving
        \/ call = [mmsi |-> m, history |-> pointHistory[m], point |-> NewPoint(source, pos)]
    BY <1>9, <2>2, Accepted DEF SaveAISData
  <2>4. CASE call = [mmsi |-> m, history |-> pointHistory[m], point |-> NewPoint(source, pos)]
    BY <2>1, <2>2, <2>4 DEF InOrder
  <2>. QED
    BY <1>1, <2>1, <2>3, <2>4
<1>10. ASSUME NEW done \in saving, SaveResumes(done)
       PROVE  NoneAfter(pointHistory'[call.mmsi], call.point.ts)
  <2>1. call \in saving /\ call # done /\ restarts' = restarts
    BY <1>10 DEF SaveResumes
  <2>2. call.mmsi # done.mmsi
    BY <2>1 DEF Typed, Locked
  <2>3. pointHistory'[call.mmsi] = pointHistory[call.mmsi]
    BY <1>1, <1>10, <2>1, <2>2 DEF SaveResumes, Typed, MemoryTyped
  <2>. QED
    BY <1>1, <2>1, <2>3
<1>. QED
  BY <1>2, <1>3, <1>4, <1>5, <1>6, <1>7, <1>8, <1>9, <1>10, NextCases DEF QuietStep

NewestStep ==
  \A m \in Tracked \intersect Tracked' : pointHistory'[m][1].ts >= pointHistory[m][1].ts
    \/ restarts' # restarts

LEMMA NewestKept ==
  Typed /\ InOrder /\ Starting /\ CallsAreNewest /\ Undisturbed /\ [Next]_vars => NewestStep
<1>. SUFFICES ASSUME Typed, InOrder, Starting, CallsAreNewest, Undisturbed, [Next]_vars,
                     NEW m \in Vessels, pointHistory[m] # <<>>, pointHistory'[m] # <<>>
              PROVE  pointHistory'[m][1].ts >= pointHistory[m][1].ts \/ restarts' # restarts
  BY DEF NewestStep, Tracked
<1>. USE DEF boundVars
<1>0. /\ pointHistory[m] \in Seq(Points) /\ 1 \in 1..Len(pointHistory[m])
      /\ pointHistory[m][1].ts \in Nat /\ clock \in Nat
  BY TrailTyped, PointsTyped, ClockTyped DEF Typed, MemoryTyped, RunTyped
<1>1. CASE UNCHANGED pointHistory
  BY <1>0, <1>1
<1>2. CASE QuietStep
  BY <1>1, <1>2, Quiet
<1>3. CASE DeletePoints
  <2>1. pointHistory'[m] = YoungOf(pointHistory[m])
    BY <1>3 DEF DeletePoints, YoungPoints
  <2>2. CASE Young(pointHistory[m][1])
    BY <1>0, <2>1, <2>2, YoungOrdered
  <2>3. CASE ~ Young(pointHistory[m][1])
    <3>. DEFINE new == YoungOf(pointHistory[m])
    <3>1. new \in Seq(Points) /\ \A i \in 1..Len(new) : Young(new[i])
      BY <1>0, YoungOrdered
    <3>2. new # <<>>
      BY <2>1
    <3>. HIDE DEF new
    <3>3. 1 \in 1..Len(new) /\ new[1] \in Points /\ new[1].ts \in Nat
      BY <3>1, <3>2, TrailTyped, PointsTyped
    <3>4. new[1].ts + Window > clock /\ ~ (pointHistory[m][1].ts + Window > clock)
      BY <2>3, <3>1, <3>3 DEF Young
    <3>5. new[1].ts >= pointHistory[m][1].ts
      BY <1>0, <3>3, <3>4, VesselTrackAssumption
    <3>. QED
      BY <2>1, <3>5 DEF new
  <2>. QED
    BY <2>2, <2>3
<1>4. CASE AddAISHistory
  <2>1. pointHistory'[m] = Extended(pointHistory[m])
    BY <1>4 DEF AddAISHistory
  <2>. QED
    BY <1>0, <2>1, ExtendedOrdered
<1>5. CASE BatchUpdateAisData
  BY <1>1, <1>5 DEF BatchUpdateAisData, memoryVars
<1>6. CASE LoadRecentAISData
  BY <1>1, <1>6, LoadFits
<1>7. CASE Restart
  <2>1. restarts \in Nat /\ restarts' = restarts + 1
    BY <1>7, VesselTrackAssumption DEF Restart, Typed, RunTyped
  <2>. QED
    BY <2>1
<1>8. CASE Minute
  BY <1>1, <1>8 DEF Minute
<1>9. ASSUME NEW v \in Vessels, NEW source \in Senders, NEW pos \in Positions,
             SaveAISData(v, source, pos)
      PROVE  UNCHANGED pointHistory
  BY <1>9 DEF SaveAISData
<1>10. ASSUME NEW call \in saving, SaveResumes(call)
       PROVE  pointHistory'[m][1].ts >= pointHistory[m][1].ts
  <2>1. CASE m = call.mmsi
    <3>1. pointHistory'[m] = WithHead(call.history, call.point)
      BY <1>10, <2>1 DEF SaveResumes, Typed, MemoryTyped
    <3>2. call.history \in Seq(Points) /\ call.point \in Points /\ call.point.ts \in Nat
      BY CallTyped, PointsTyped DEF Typed
    <3>3. pointHistory'[m][1] = call.point
      BY <3>1, <3>2, WithHeadOrdered
    <3>4. pointHistory[m][1].ts <= call.point.ts
      BY <1>0, <2>1 DEF CallsAreNewest, NoneAfter
    <3>. QED
      BY <1>0, <3>2, <3>3, <3>4
  <2>2. CASE m # call.mmsi
    <3>1. pointHistory'[m] = pointHistory[m]
      BY <1>10, <2>2 DEF SaveResumes, Typed, MemoryTyped
    <3>. QED
      BY <1>0, <3>1
  <2>. QED
    BY <2>1, <2>2
<1>. QED
  BY <1>1, <1>2, <1>3, <1>4, <1>5, <1>6, <1>7, <1>8, <1>9, <1>10, NextCases DEF QuietStep

\* A newer position of a vessel never gives way to an older one, whatever calls
\* of saveAISData are under way: at a site that loads its table before it
\* receives anything, and at any site until it restarts.
THEOREM NewestPositionStays ==
  ASSUME ~StartsWithWait \/ MaxRestarts = 0
  PROVE  Spec => NewestWins
<1>1. Typed => Undisturbed
  BY DEF Typed, RunTyped, Undisturbed
<1>2. Typed /\ InOrder /\ Starting /\ CallsAreNewest /\ [Next]_vars =>
        [\A m \in Tracked \intersect Tracked' : pointHistory'[m][1].ts >= pointHistory[m][1].ts
           \/ restarts' # restarts]_vars
  BY <1>1, NewestKept DEF NewestStep
<1>. QED
  BY <1>2, InitTyped, NextTyped, InitInOrder, NextInOrder, InitStarting, NextStarting, InitNewest,
     NextNewest, PTL DEF Spec, NewestWins

----------------------------------------------------------------------------
(* Silent vessels, until the first restart. *)

\* No trail is younger than the last report of its vessel, nor is the point of
\* a call.  A restart breaks this: the load gives the point the time of the row.
Vouched ==
  restarts = 0 =>
    /\ \A m \in Vessels, s \in Senders : heard[m][s] <= clock
    /\ \A m \in Vessels : pointHistory[m] # <<>> =>
         \E s \in Senders : NoneAfter(pointHistory[m], heard[m][s])
    /\ \A call \in saving : \E s \in Senders : call.point.ts <= heard[call.mmsi][s]

LEMMA MinuteTyping ==
  ASSUME MemoryTyped, NEW m \in Vessels, NEW s \in Senders
  PROVE  /\ heard[m][s] \in 0..MaxClock /\ heard[m][s] \in Nat
         /\ activeSources[m][s] \in 0..MaxClock /\ activeSources[m][s] \in Nat
BY VesselTrackAssumption DEF MemoryTyped

LEMMA InitVouched == Init => Vouched
<1>. SUFFICES ASSUME Init PROVE Vouched
  OBVIOUS
<1>1. \A m \in Vessels, s \in Senders : heard[m][s] <= clock
  BY DEF Init, Unheard
<1>. QED
  BY <1>1 DEF Init, Vouched, NoTrails

LEMMA NextVouched == Typed /\ InOrder /\ Starting /\ Vouched /\ [Next]_vars => Vouched'
<1>. SUFFICES ASSUME Typed, InOrder, Starting, Vouched, [Next]_vars, restarts' = 0 PROVE Vouched'
  BY DEF Vouched
<1>. USE DEF boundVars
<1>1. ASSUME UNCHANGED <<pointHistory, heard, restarts, clock>>, saving' \subseteq saving
      PROVE  Vouched'
  BY <1>1 DEF Vouched
<1>2. CASE QuietStep
  BY <1>1, <1>2, Quiet
<1>3. CASE DeletePoints \/ AddAISHistory
  <2>1. UNCHANGED <<heard, restarts, clock, saving>> /\ restarts = 0
    BY <1>3 DEF DeletePoints, AddAISHistory
  <2>2. ASSUME NEW m \in Vessels, pointHistory'[m] # <<>>
        PROVE  \E s \in Senders : NoneAfter(pointHistory'[m], heard[m][s])
    <3>1. pointHistory[m] \in Seq(Points)
      BY DEF Typed, MemoryTyped
    <3>2. CASE pointHistory'[m] = YoungOf(pointHistory[m])
      <4>1. pointHistory[m] # <<>>
        <5>1. KeepsYoung(YoungOf(pointHistory[m]), pointHistory[m], Len(pointHistory[m]))
          BY <3>1, YoungKept
        <5>2. YoungOf(pointHistory[m]) \in Seq(Points) /\ YoungOf(pointHistory[m]) # <<>>
          BY <2>2, <3>1, <3>2, YoungOrdered
        <5>3. Len(YoungOf(pointHistory[m])) > 0
          BY <5>2, TrailTyped
        <5>. QED
          BY <3>1, <5>1, <5>3, TrailTyped DEF KeepsYoung
      <4>2. PICK s \in Senders : NoneAfter(pointHistory[m], heard[m][s])
        BY <2>1, <4>1 DEF Vouched
      <4>3. heard[m][s] \in Nat
        BY MinuteTyping DEF Typed
      <4>. QED
        BY <3>1, <3>2, <4>2, <4>3, YoungOrdered
    <3>3. CASE pointHistory'[m] = Extended(pointHistory[m])
      <4>1. pointHistory[m] # <<>>
        BY <2>2, <3>1, <3>3, ExtendedOrdered
      <4>2. PICK s \in Senders : NoneAfter(pointHistory[m], heard[m][s])
        BY <2>1, <4>1 DEF Vouched
      <4>3. heard[m][s] \in Nat
        BY MinuteTyping DEF Typed
      <4>. QED
        BY <3>1, <3>3, <4>2, <4>3, ExtendedOrdered
    <3>. QED
      BY <1>3, <3>2, <3>3 DEF DeletePoints, AddAISHistory, YoungPoints
  <2>. QED
    BY <2>1, <2>2 DEF Vouched
<1>4. CASE BatchUpdateAisData
  BY <1>1, <1>4 DEF BatchUpdateAisData, memoryVars
<1>5. CASE LoadRecentAISData
  <2>1. restarts = 0 /\ UNCHANGED <<heard, restarts, clock, saving>>
    BY <1>5 DEF LoadRecentAISData
  <2>. QED
    BY <1>1, <1>5, <2>1, FirstLoad
<1>6. CASE Restart
  BY <1>6, RestartCounts DEF Typed
<1>7. CASE Minute
  <2>1. UNCHANGED <<pointHistory, heard, restarts, saving>> /\ clock' = clock + 1
    BY <1>7 DEF Minute
  <2>2. clock \in Nat /\ \A m \in Vessels, s \in Senders : heard[m][s] \in Nat
    BY ClockTyped, MinuteTyping DEF Typed, RunTyped
  <2>3. \A m \in Vessels, s \in Senders : heard[m][s] <= clock + 1
    BY <2>1, <2>2 DEF Vouched
  <2>. QED
    BY <2>1, <2>3 DEF Vouched
<1>8. ASSUME NEW m \in Vessels, NEW source \in Senders, NEW pos \in Positions,
             SaveAISData(m, source, pos)
      PROVE  Vouched'
  <2>1. UNCHANGED <<pointHistory, clock, restarts>> /\ restarts = 0
    BY <1>8 DEF SaveAISData
  <2>2. \A v \in Vessels, s \in Senders :
          heard'[v][s] = IF v = m /\ s = source THEN clock ELSE heard[v][s]
    BY <1>8, HeardTyped DEF SaveAISData, Typed, MemoryTyped, RunTyped
  <2>3. clock \in Nat /\ \A v \in Vessels, s \in Senders : heard[v][s] \in Nat
    BY ClockTyped, MinuteTyping DEF Typed, RunTyped
  <2>4. \A v \in Vessels, s \in Senders : heard[v][s] <= heard'[v][s] /\ heard'[v][s] <= clock
    BY <2>1, <2>2, <2>3 DEF Vouched
  <2>5. ASSUME NEW v \in Vessels, pointHistory[v] # <<>>
        PROVE  \E s \in Senders : NoneAfter(pointHistory[v], heard'[v][s])
    <3>1. PICK s \in Senders : NoneAfter(pointHistory[v], heard[v][s])
      BY <2>1, <2>5 DEF Vouched
    <3>2. \A i \in 1..Len(pointHistory[v]) : pointHistory[v][i].ts \in Nat
      BY TrailTyped, PointsTyped DEF Typed, MemoryTyped
    <3>3. heard[v][s] \in Nat /\ heard'[v][s] \in Nat /\ heard[v][s] <= heard'[v][s]
      BY <2>2, <2>3, <2>4
    <3>4. NoneAfter(pointHistory[v], heard'[v][s])
      BY <3>1, <3>2, <3>3 DEF NoneAfter
    <3>. QED
      BY <3>4
  <2>6. ASSUME NEW call \in saving'
        PROVE  \E s \in Senders : call.point.ts <= heard'[call.mmsi][s]
    <3>1. NewPoint(source, pos) \in Points /\ NewPoint(source, pos).ts = clock
      BY DEF NewPoint, Points, Typed, RunTyped
    <3>2. \/ call \in saving
          \/ call = [mmsi |-> m, history |-> pointHistory[m], point |-> NewPoint(source, pos)]
      BY <1>8, <3>1, Accepted DEF SaveAISData
    <3>3. CASE call \in saving
      <4>1. PICK s \in Senders : call.point.ts <= heard[call.mmsi][s]
        BY <2>1, <3>3 DEF Vouched
      <4>2. call.mmsi \in Vessels /\ call.point.ts \in Nat
        BY <3>3, CallTyped, PointsTyped DEF Typed
      <4>3. /\ heard[call.mmsi][s] \in Nat /\ heard'[call.mmsi][s] \in Nat
            /\ heard[call.mmsi][s] <= heard'[call.mmsi][s]
        BY <2>2, <2>3, <2>4, <4>2
      <4>. QED
        BY <4>1, <4>2, <4>3
    <3>4. CASE call = [mmsi |-> m, history |-> pointHistory[m], point |-> NewPoint(source, pos)]
      <4>1. call.mmsi = m /\ call.point.ts = clock
        BY <3>1, <3>4
      <4>2. heard'[m][source] = clock
        BY <2>2
      <4>. QED
        BY <2>3, <4>1, <4>2
    <3>. QED
      BY <3>2, <3>3, <3>4
  <2>. QED
    BY <2>1, <2>4, <2>5, <2>6 DEF Vouched
<1>9. ASSUME NEW call \in saving, SaveResumes(call)
      PROVE  Vouched'
  <2>1. UNCHANGED <<heard, restarts, clock>> /\ saving' \subseteq saving /\ restarts = 0
    BY <1>9 DEF SaveResumes
  <2>2. /\ call.mmsi \in Vessels /\ call.history \in Seq(Points) /\ call.point \in Points
        /\ call.point.ts \in Nat
    BY CallTyped, PointsTyped DEF Typed
  <2>3. PICK s \in Senders : call.point.ts <= heard[call.mmsi][s]
    BY <2>1 DEF Vouched
  <2>4. heard[call.mmsi][s] \in Nat
    BY <2>2, MinuteTyping DEF Typed
  <2>5. NoneAfter(call.history, heard[call.mmsi][s])
    <3>1. NoneAfter(call.history, call.point.ts)
      BY DEF InOrder
    <3>2. \A i \in 1..Len(call.history) : call.history[i].ts \in Nat
      BY <2>2, TrailTyped, PointsTyped
    <3>. QED
      BY <2>2, <2>3, <2>4, <3>1, <3>2 DEF NoneAfter
  <2>6. NoneAfter(WithHead(call.history, call.point), heard[call.mmsi][s])
    BY <2>2, <2>3, <2>4, <2>5, WithHeadOrdered
  <2>7. \A m \in Vessels : pointHistory'[m] =
          IF m = call.mmsi THEN WithHead(call.history, call.point) ELSE pointHistory[m]
    BY <1>9, <2>2 DEF SaveResumes, Typed, MemoryTyped
  <2>8. \A m \in Vessels : pointHistory'[m] # <<>> =>
          \E t \in Senders : NoneAfter(pointHistory'[m], heard[m][t])
    BY <2>1, <2>6, <2>7 DEF Vouched
  <2>. QED
    BY <2>1, <2>8 DEF Vouched
<1>. QED
  BY <1>2, <1>3, <1>4, <1>5, <1>6, <1>7, <1>8, <1>9, NextCases DEF QuietStep

\* No call outlasts its span; and with spans shorter than the window, every
\* vessel that is tracked has a young position, except between the start of a
\* minute and the filter of its job.
Fresh ==
  /\ \A call \in saving : clock <= call.point.ts + SaveSpan
  /\ SaveSpan < Window /\ restarts = 0 /\ cron # "due" =>
       \A m \in Vessels : pointHistory[m] # <<>> => pointHistory[m][1].ts + Window > clock

LEMMA InitFresh == Init => Fresh
BY DEF Init, Fresh, NoTrails

LEMMA NextFresh == Typed /\ Starting /\ Fresh /\ [Next]_vars => Fresh'
<1>. SUFFICES ASSUME Typed, Starting, Fresh, [Next]_vars PROVE Fresh'
  OBVIOUS
<1>. USE DEF boundVars
<1>0. clock \in Nat /\ Window \in Nat /\ SaveSpan \in Nat
  BY ClockTyped DEF Typed, RunTyped
<1>1. ASSUME UNCHANGED <<pointHistory, restarts, clock>>, saving' \subseteq saving,
             cron # "due" \/ cron' = cron
      PROVE  Fresh'
  BY <1>1 DEF Fresh
<1>2. CASE QuietStep
  <2>1. cron # "due" \/ cron' = cron
    BY <1>2 DEF QuietStep, FlagStep, SendTimer, ThrottleEnds, DeviceStatus, DedupWindowPasses, vars,
                InsertHistory, CommitHistory, SaveFails
  <2>. QED
    BY <1>1, <1>2, <2>1, Quiet
<1>3. CASE DeletePoints
  <2>1. UNCHANGED <<restarts, clock, saving>>
    BY <1>3 DEF DeletePoints
  <2>2. ASSUME NEW m \in Vessels, pointHistory'[m] # <<>>
        PROVE  pointHistory'[m][1].ts + Window > clock
    <3>1. pointHistory'[m] = YoungOf(pointHistory[m]) /\ pointHistory[m] \in Seq(Points)
      BY <1>3 DEF DeletePoints, YoungPoints, Typed, MemoryTyped
    <3>2. 1 \in 1..Len(YoungOf(pointHistory[m]))
      BY <2>2, <3>1, YoungOrdered, TrailTyped
    <3>. QED
      BY <3>1, <3>2, YoungOrdered DEF Young
  <2>. QED
    BY <2>1, <2>2 DEF Fresh
<1>4. CASE AddAISHistory
  <2>1. UNCHANGED <<restarts, clock, saving>> /\ cron # "due"
    BY <1>4 DEF AddAISHistory
  <2>2. \A m \in Vessels : /\ pointHistory'[m] = Extended(pointHistory[m])
                          /\ pointHistory[m] \in Seq(Points)
    BY <1>4 DEF AddAISHistory, Typed, MemoryTyped
  <2>3. \A m \in Vessels : pointHistory'[m] # <<>> =>
          pointHistory[m] # <<>> /\ pointHistory'[m][1] = pointHistory[m][1]
    BY <2>2, ExtendedOrdered
  <2>. QED
    BY <2>1, <2>3 DEF Fresh
<1>5. CASE BatchUpdateAisData
  BY <1>1, <1>5 DEF BatchUpdateAisData, memoryVars
<1>6. CASE LoadRecentAISData
  <2>1. UNCHANGED <<restarts, clock, saving, cron>>
    BY <1>6 DEF LoadRecentAISData
  <2>2. CASE restarts = 0
    BY <1>1, <1>6, <2>1, <2>2, FirstLoad
  <2>3. CASE restarts # 0
    BY <2>1, <2>3 DEF Fresh
  <2>. QED
    BY <2>2, <2>3
<1>7. CASE Restart
  <2>1. saving' = {} /\ restarts' # 0
    BY <1>7, RestartCounts DEF Restart, Typed
  <2>. QED
    BY <2>1 DEF Fresh
<1>8. CASE Minute
  <2>1. saving' = saving /\ clock' = clock + 1 /\ cron' = "due"
    BY <1>8 DEF Minute
  <2>2. \A call \in saving : clock < call.point.ts + SaveSpan /\ call.point.ts \in Nat
    BY <1>8, CallTyped, PointsTyped DEF Minute, Typed
  <2>3. \A call \in saving : clock + 1 <= call.point.ts + SaveSpan
    BY <1>0, <2>2
  <2>. QED
    BY <2>1, <2>3 DEF Fresh
<1>9. ASSUME NEW m \in Vessels, NEW source \in Senders, NEW pos \in Positions,
             SaveAISData(m, source, pos)
      PROVE  Fresh'
  <2>1. UNCHANGED <<pointHistory, clock, restarts, cron>>
    BY <1>9 DEF SaveAISData
  <2>2. NewPoint(source, pos) \in Points /\ NewPoint(source, pos).ts = clock
    BY DEF NewPoint, Points, Typed, RunTyped
  <2>3. \A call \in saving' :
          \/ call \in saving
          \/ call = [mmsi |-> m, history |-> pointHistory[m], point |-> NewPoint(source, pos)]
    BY <1>9, <2>2, Accepted DEF SaveAISData
  <2>4. \A call \in saving' : clock <= call.point.ts + SaveSpan
    BY <1>0, <2>2, <2>3 DEF Fresh
  <2>. QED
    BY <2>1, <2>4 DEF Fresh
<1>10. ASSUME NEW call \in saving, SaveResumes(call)
       PROVE  Fresh'
  <2>1. UNCHANGED <<restarts, clock, cron>> /\ saving' \subseteq saving
    BY <1>10 DEF SaveResumes
  <2>2. /\ call.mmsi \in Vessels /\ call.history \in Seq(Points) /\ call.point \in Points
        /\ call.point.ts \in Nat
    BY CallTyped, PointsTyped DEF Typed
  <2>3. \A m \in Vessels : pointHistory'[m] =
          IF m = call.mmsi THEN WithHead(call.history, call.point) ELSE pointHistory[m]
    BY <1>10, <2>2 DEF SaveResumes, Typed, MemoryTyped
  <2>4. WithHead(call.history, call.point)[1] = call.point
    BY <2>2, WithHeadOrdered
  <2>5. SaveSpan < Window => call.point.ts + Window > clock
    BY <1>0, <2>2 DEF Fresh
  <2>. QED
    BY <2>1, <2>3, <2>4, <2>5 DEF Fresh
<1>. QED
  BY <1>2, <1>3, <1>4, <1>5, <1>6, <1>7, <1>8, <1>9, <1>10, NextCases DEF QuietStep

\* LastHeard is not before the report of any sender.
LEMMA LastIsLast ==
  ASSUME MemoryTyped, NEW m \in Vessels, NEW s \in Senders
  PROVE  LastHeard(m) \in 0..MaxClock /\ heard[m][s] <= LastHeard(m)
<1>. DEFINE S == {heard[m][t] : t \in Senders}
<1>1. S \in SUBSET (0..MaxClock) /\ S # {} /\ MaxClock \in Nat
  BY MinuteTyping, VesselTrackAssumption
<1>2. \E n \in S : \A k \in S : k <= n
  BY <1>1, GreatestNumber
<1>3. \E n \in S : \A t \in Senders : heard[m][t] <= n
  BY <1>2
<1>4. LastHeard(m) \in S /\ \A t \in Senders : heard[m][t] <= LastHeard(m)
  BY <1>3 DEF LastHeard
<1>. QED
  BY <1>1, <1>4

\* Once the job of the minute is done, a vessel silent for the window is gone,
\* provided that no save lasts as long as the window: until the first restart,
\* after which the loaded points make their vessels look younger than they are.
THEOREM SilentVesselsAreGone ==
  ASSUME SaveSpan < Window
  PROVE  Spec => [](restarts = 0 => SilentVesselsGo)
<1>1. Typed /\ Vouched /\ Fresh => (restarts = 0 => SilentVesselsGo)
  <2>. SUFFICES ASSUME Typed, Vouched, Fresh, restarts = 0, cron = "idle",
                       NEW m \in Vessels, pointHistory[m] # <<>>
                PROVE  clock - LastHeard(m) < Window
    BY DEF SilentVesselsGo, Tracked
  <2>1. PICK s \in Senders : NoneAfter(pointHistory[m], heard[m][s])
    BY DEF Vouched
  <2>2. /\ 1 \in 1..Len(pointHistory[m]) /\ pointHistory[m][1].ts \in Nat
        /\ clock \in Nat /\ Window \in Nat
    BY TrailTyped, PointsTyped, ClockTyped DEF Typed, MemoryTyped, RunTyped
  <2>3. pointHistory[m][1].ts <= heard[m][s] /\ pointHistory[m][1].ts + Window > clock
    BY <2>1, <2>2 DEF NoneAfter, Fresh
  <2>4. heard[m][s] <= LastHeard(m) /\ LastHeard(m) \in Nat /\ heard[m][s] \in Nat
    BY LastIsLast, MinuteTyping, VesselTrackAssumption DEF Typed
  <2>. QED
    BY <2>2, <2>3, <2>4
<1>. QED
  BY <1>1, InitTyped, NextTyped, InitInOrder, NextInOrder, InitStarting, NextStarting, InitVouched,
     NextVouched, InitFresh, NextFresh, PTL DEF Spec

----------------------------------------------------------------------------
(* The sources of a row, until the first restart. *)

\* A mark is the last report of its source, or was cleaned when that was too
\* old to count; and a vessel that was ever heard has a mark left, so that it
\* is never taken for one that was not.  A restart forgets the marks.
MarksExact ==
  restarts = 0 =>
    /\ \A m \in Vessels, s \in Senders :
         \/ activeSources[m][s] = heard[m][s]
         \/ activeSources[m][s] = 0 /\ heard[m][s] + SourceTtl < clock
    /\ \A m \in Vessels, s \in Senders :
         heard[m][s] # 0 => \E t \in Senders : activeSources[m][t] # 0

LEMMA InitMarks == Init => MarksExact
<1>. SUFFICES ASSUME Init PROVE MarksExact
  OBVIOUS
<1>1. \A m \in Vessels, s \in Senders : activeSources[m][s] = 0 /\ heard[m][s] = 0
  BY DEF Init, Unheard
<1>. QED
  BY <1>1 DEF MarksExact

LEMMA NextMarks == Typed /\ MarksExact /\ [Next]_vars => MarksExact'
<1>. SUFFICES ASSUME Typed, MarksExact, [Next]_vars, restarts' = 0 PROVE MarksExact'
  BY DEF MarksExact
<1>. USE DEF boundVars
<1>1. ASSUME UNCHANGED <<activeSources, heard, clock, restarts>> PROVE MarksExact'
  BY <1>1 DEF MarksExact
<1>2. CASE QuietStep
  BY <1>1, <1>2, Quiet
<1>3. CASE DeletePoints \/ AddAISHistory \/ BatchUpdateAisData \/ LoadRecentAISData
  BY <1>1, <1>3 DEF DeletePoints, AddAISHistory, BatchUpdateAisData, LoadRecentAISData, memoryVars
<1>4. CASE Restart
  BY <1>4, RestartCounts DEF Typed
<1>5. CASE Minute
  <2>1. UNCHANGED <<activeSources, heard, restarts>> /\ clock' = clock + 1
    BY <1>5 DEF Minute
  <2>2. clock \in Nat /\ \A m \in Vessels, s \in Senders : heard[m][s] + SourceTtl \in Nat
    BY ClockTyped, MinuteTyping DEF Typed, RunTyped
  <2>3. \A m \in Vessels, s \in Senders :
          heard[m][s] + SourceTtl < clock => heard[m][s] + SourceTtl < clock + 1
    BY <2>2
  <2>. QED
    BY <2>1, <2>3 DEF MarksExact
<1>6. ASSUME NEW m \in Vessels, NEW source \in Senders, NEW pos \in Positions,
             SaveAISData(m, source, pos)
      PROVE  MarksExact'
  <2>1. UNCHANGED <<clock, restarts>> /\ restarts = 0 /\ activeSources' = Marked(m, source)
    BY <1>6 DEF SaveAISData
  <2>2. \A v \in Vessels, s \in Senders :
          heard'[v][s] = IF v = m /\ s = source THEN clock ELSE heard[v][s]
    BY <1>6, HeardTyped DEF SaveAISData, Typed, MemoryTyped, RunTyped
  <2>3. clock \in Nat /\ clock > 0
    BY ClockTyped DEF Typed, RunTyped
  <2>4. /\ \A v \in Vessels : v # m => activeSources'[v] = activeSources[v]
        /\ \A s \in Senders :
             activeSources'[m][s] =
               IF s = source THEN clock
               ELSE IF activeSources[m][s] + SourceTtl < clock THEN 0 ELSE activeSources[m][s]
    BY <2>1, MarkedTyped DEF Typed, RunTyped
  <2>5. ASSUME NEW v \in Vessels, NEW s \in Senders
        PROVE  \/ activeSources'[v][s] = heard'[v][s]
               \/ activeSources'[v][s] = 0 /\ heard'[v][s] + SourceTtl < clock
    <3>1. CASE v # m
      BY <2>1, <2>2, <2>4, <3>1 DEF MarksExact
    <3>2. CASE v = m /\ s = source
      BY <2>2, <2>4, <3>2
    <3>3. CASE v = m /\ s # source
      BY <2>1, <2>2, <2>4, <3>3 DEF MarksExact
    <3>. QED
      BY <3>1, <3>2, <3>3
  <2>6. ASSUME NEW v \in Vessels, NEW s \in Senders, heard'[v][s] # 0
        PROVE  \E t \in Senders : activeSources'[v][t] # 0
    <3>1. CASE v # m
      BY <2>1, <2>2, <2>4, <2>6, <3>1 DEF MarksExact
    <3>2. CASE v = m
      BY <2>3, <2>4, <3>2
    <3>. QED
      BY <3>1, <3>2
  <2>. QED
    BY <2>1, <2>5, <2>6 DEF MarksExact
<1>7. ASSUME NEW call \in saving, SaveResumes(call)
      PROVE  MarksExact'
  BY <1>1, <1>7 DEF SaveResumes
<1>. QED
  BY <1>2, <1>3, <1>4, <1>5, <1>6, <1>7, NextCases DEF QuietStep

\* The sources that count for a vessel that is tracked are those heard lately.
LEMMA ActiveIsHeard ==
  ASSUME Typed, Vouched, MarksExact, restarts = 0, NEW m \in Tracked
  PROVE  ActiveSources(m) = HeardLately(m)
<1>1. m \in Vessels /\ pointHistory[m] # <<>> /\ 1 \in 1..Len(pointHistory[m])
      /\ pointHistory[m][1] \in Points
  BY HeadTyped DEF Typed
<1>2. clock \in Nat /\ SourceTtl \in Nat
  BY ClockTyped DEF Typed, RunTyped
<1>3. PICK s \in Senders : NoneAfter(pointHistory[m], heard[m][s])
  BY <1>1 DEF Vouched
<1>4. heard[m][s] # 0
  <2>1. pointHistory[m][1].ts \in Times /\ pointHistory[m][1].ts <= heard[m][s]
    BY <1>1, <1>3, PointsTyped DEF NoneAfter
  <2>. QED
    BY <2>1, VesselTrackAssumption DEF Times
<1>5. ~ \A t \in Senders : activeSources[m][t] = 0
  BY <1>1, <1>4 DEF MarksExact
<1>6. ASSUME NEW t \in Senders
      PROVE  activeSources[m][t] # 0 /\ activeSources[m][t] + SourceTtl >= clock
               <=> heard[m][t] # 0 /\ clock - heard[m][t] <= SourceTtl
  <2>1. heard[m][t] \in Nat /\ activeSources[m][t] \in Nat
    BY <1>1, MinuteTyping DEF Typed
  <2>2. CASE activeSources[m][t] = heard[m][t]
    BY <1>2, <2>1, <2>2
  <2>3. CASE activeSources[m][t] = 0 /\ heard[m][t] + SourceTtl < clock
    BY <1>2, <2>1, <2>3
  <2>. QED
    BY <1>1, <2>2, <2>3 DEF MarksExact
<1>. QED
  BY <1>5, <1>6 DEF ActiveSources, HeardLately

\* A row that is written lists exactly the sources heard in the last five
\* minutes, reports dropped as duplicates included, in a process that has not
\* been restarted.
THEOREM RowsListTheHeard ==
  ASSUME MaxRestarts = 0
  PROVE  Spec => ActiveSourcesExact
<1>1. Typed => restarts = 0
  BY DEF Typed, RunTyped
<1>2. Typed /\ Vouched /\ MarksExact /\ [Next]_vars =>
        [\A m \in Vessels :
           cron = "update" /\ ais'[m] # ais[m] => ais'[m].sources = HeardLately(m)]_vars
  <2>. SUFFICES ASSUME Typed, Vouched, MarksExact, [Next]_vars, NEW m \in Vessels,
                       cron = "update", ais'[m] # ais[m]
                PROVE  ais'[m].sources = HeardLately(m)
    OBVIOUS
  <2>1. CASE BatchUpdateAisData
    BY <1>1, <2>1, BatchRows, ActiveIsHeard
  <2>2. CASE QuietStep
    BY <2>2, Quiet
  <2>3. CASE AddAISHistory \/ LoadRecentAISData \/ Restart \/ Minute \/ DeletePoints
    BY <2>3 DEF AddAISHistory, LoadRecentAISData, Restart, Minute, DeletePoints
  <2>4. ASSUME NEW v \in Vessels, NEW source \in Senders, NEW pos \in Positions,
               SaveAISData(v, source, pos)
        PROVE  ais' = ais
    BY <2>4 DEF SaveAISData
  <2>5. ASSUME NEW call \in saving, SaveResumes(call)
        PROVE  ais' = ais
    BY <2>5 DEF SaveResumes
  <2>. QED
    BY <2>1, <2>2, <2>3, <2>4, <2>5, NextCases DEF QuietStep
<1>. QED
  BY <1>2, InitTyped, NextTyped, InitInOrder, NextInOrder, InitStarting, NextStarting, InitVouched,
     NextVouched, InitMarks, NextMarks, PTL DEF Spec, ActiveSourcesExact
=============================================================================
