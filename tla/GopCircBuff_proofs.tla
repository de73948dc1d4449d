------------------------- MODULE GopCircBuff_proofs -------------------------
(***************************************************************************)
(* Proofs about the ring of GOPs for every size of the buffer and every    *)
(* set of GOP lengths that RingAssumption admits.                          *)
(***************************************************************************)
EXTENDS GopCircBuff, SequenceTheorems, TLAPS

Gop == [pos : 0 .. Size - 1, len : Lengths]

(* A GOP's length is positive and its fields are numbers. *)
LEMMA GopType ==
  ASSUME NEW g \in Gop
  PROVE  /\ g.pos \in Nat /\ g.len \in Nat /\ g.len > 0
         /\ EndOf(g) = g.pos + g.len /\ EndOf(g) \in Nat /\ g.pos < EndOf(g)
<1>1. Size \in Nat /\ g.pos \in 0 .. Size - 1 /\ g.len \in Lengths
  BY RingAssumption DEF Gop, RingAssumption
<1>2. g.len \in Nat /\ g.len > 0
  BY <1>1, RingAssumption DEF RingAssumption
<1> QED
  BY <1>1, <1>2 DEF EndOf

(* What TypeOK says, in the terms the provers need. *)
LEMMA IndexType ==
  ASSUME TypeOK
  PROVE  /\ nRd \in Nat /\ nWr \in Nat /\ Size \in Nat
         /\ nRd < Size /\ nWr < Size
         /\ live \in Seq(Gop)
         /\ Len(live) \in Nat /\ DOMAIN live = 1 .. Len(live)
         /\ \A i \in 1 .. Len(live) : live[i] \in Gop
<1>1. live \in Seq(Gop)
  BY DEF TypeOK, Gop
<1>2. nRd \in Nat /\ nWr \in Nat /\ Size \in Nat /\ nRd < Size /\ nWr < Size
  BY RingAssumption DEF TypeOK, RingAssumption
<1>3. Len(live) \in Nat /\ DOMAIN live = 1 .. Len(live)
  BY <1>1, LenProperties
<1> QED
  BY <1>1, <1>2, <1>3, ElementOfSeq

(* The ring starts empty. *)
LEMMA InitInv == Init => IInv
<1> SUFFICES ASSUME Init PROVE IInv
  OBVIOUS
<1>1. live = << >> /\ nRd = 0 /\ nWr = 0
  BY DEF Init
<1>2. TypeOK
  BY <1>1, RingAssumption DEF TypeOK, RingAssumption
<1>3. Len(live) = 0 /\ DOMAIN live = {}
  BY <1>1
<1> QED
  BY <1>1, <1>2, <1>3 DEF IInv, Chained, Placed, Ordered

(* What Alloc returns: one of its three places, where the block fits. *)
LEMMA AllocCases ==
  ASSUME TypeOK, NEW n \in Lengths, CanAlloc(n)
  PROVE  /\ n \in Nat /\ n > 0
         /\ AllocPos(n) \in Nat
         /\ AllocPos(n) + n < Size
         /\ \/ Wrapped /\ AllocPos(n) = nWr /\ nWr + n < nRd
            \/ ~Wrapped /\ AllocPos(n) = nWr
            \/ ~Wrapped /\ AllocPos(n) = 0 /\ n < nRd
         /\ AllocPos(n) = Step(nWr, n)
<1>1. n \in Nat /\ n > 0 /\ nRd \in Nat /\ nWr \in Nat /\ Size \in Nat
      /\ nRd < Size /\ nWr < Size
  BY IndexType, RingAssumption DEF RingAssumption
<1> QED
  BY <1>1 DEF CanAlloc, AllocPos, NULL, Wrapped, Step, FitsAtTail

(* A GOP is put where it overlaps none of those held: Alloc keeps IInv. *)
LEMMA AllocInv ==
  ASSUME IInv, NEW n \in Lengths, Alloc(n)
  PROVE  IInv'
<1> DEFINE gop == Block(n)
           k == Len(live)
<1>1. /\ TypeOK
      /\ nRd \in Nat /\ nWr \in Nat /\ Size \in Nat
      /\ nRd < Size /\ nWr < Size
  BY IndexType DEF IInv
<1>2. /\ k \in Nat /\ live \in Seq(Gop) /\ DOMAIN live = 1 .. k
      /\ \A i \in 1 .. k : live[i] \in Gop
  BY IndexType DEF IInv
<1>3. /\ CanAlloc(n) /\ nRd' = nRd /\ nWr' = AllocPos(n) + n
      /\ live' = Append(live, gop)
      /\ gop = [pos |-> AllocPos(n), len |-> n]
  BY DEF Alloc, Block
<1>4. /\ n \in Nat /\ n > 0 /\ AllocPos(n) \in Nat
      /\ AllocPos(n) + n < Size /\ AllocPos(n) = Step(nWr, n)
  BY <1>1, <1>3, AllocCases
<1>5. gop \in Gop /\ gop.pos = AllocPos(n) /\ gop.len = n
      /\ EndOf(gop) = AllocPos(n) + n
  BY <1>1, <1>3, <1>4 DEF Gop, EndOf
<1> HIDE DEF gop, k
<1>6. /\ live' \in Seq(Gop) /\ Len(live') = k + 1 /\ DOMAIN live' = 1 .. k + 1
      /\ \A i \in 1 .. k : live'[i] = live[i]
      /\ live'[k + 1] = gop
      /\ live' # << >>
  BY <1>2, <1>3, <1>5 DEF k
<1>7. TypeOK'
  BY <1>1, <1>3, <1>4, <1>6 DEF TypeOK, Gop
<1>8. /\ live = << >> <=> k = 0
      /\ k = 0 => nWr = nRd
      /\ k > 0 => live[1].pos = Step(nRd, live[1].len) /\ nWr = EndOf(live[k])
      /\ \A i \in 1 .. k - 1 :
            live[i + 1].pos = Step(EndOf(live[i]), live[i + 1].len)
  BY <1>2, EmptySeq DEF IInv, Chained, k
<1>9. Chained'
  <2>1. live'[1].pos = Step(nRd, live'[1].len)
    BY <1>2, <1>4, <1>5, <1>6, <1>8
  <2>2. ASSUME NEW i \in 1 .. k
        PROVE  live'[i + 1].pos = Step(EndOf(live'[i]), live'[i + 1].len)
    <3>1. CASE i = k
      BY <3>1, <1>2, <1>4, <1>5, <1>6, <1>8
    <3>2. CASE i < k
      BY <3>2, <1>2, <1>6, <1>8
    <3> QED
      BY <3>1, <3>2, <1>2
  <2> QED
    BY <2>1, <2>2, <1>2, <1>3, <1>5, <1>6 DEF Chained, Step, FitsAtTail
<1>10. \A i \in 1 .. k :
          /\ live[i].pos \in Nat /\ EndOf(live[i]) \in Nat
          /\ live[i].pos < EndOf(live[i])
  BY <1>2, GopType
<1>11. \A i \in 1 .. k : IF Wrapped THEN High(live[i]) \/ Low(live[i])
                                    ELSE High(live[i]) /\ Low(live[i])
  BY <1>2 DEF IInv, Placed
<1>12. \A i, j \in 1 .. k : i < j /\ live[i].pos < nRd => live[j].pos < nRd
  BY <1>2 DEF IInv, Placed
<1>13. \A i, j \in 1 .. k : i < j =>
             \/ EndOf(live[i]) <= live[j].pos
             \/ Wrapped /\ High(live[i]) /\ Low(live[j])
  BY <1>2 DEF IInv, Ordered
<1>14. /\ nRd' = nRd /\ nWr' = EndOf(gop) /\ EndOf(gop) = gop.pos + n
       /\ n \in Nat /\ n > 0 /\ gop.pos \in Nat /\ EndOf(gop) < Size
       /\ nRd \in Nat /\ nWr \in Nat /\ Size \in Nat
       /\ nRd < Size /\ nWr < Size
  BY <1>1, <1>3, <1>4, <1>5
<1>15. \/ Wrapped /\ gop.pos = nWr /\ EndOf(gop) < nRd
       \/ ~Wrapped /\ gop.pos = nWr
       \/ ~Wrapped /\ gop.pos = 0 /\ EndOf(gop) < nRd
  BY <1>1, <1>3, <1>4, <1>5, AllocCases
<1>16. \A i \in 1 .. k + 1 : \/ i \in 1 .. k /\ live'[i] = live[i]
                             \/ i = k + 1 /\ live'[i] = gop
  <2>1. \A i \in 1 .. k + 1 : i \in 1 .. k \/ i = k + 1
    BY <1>2
  <2> QED
    BY <2>1, <1>6
<1>17. \A i, j \in 1 .. k + 1 : i < j => i \in 1 .. k
  BY <1>2
<1>18. Placed'
  <2>1. \A i \in 1 .. k + 1 :
           IF Wrapped' THEN High(live[i])' \/ Low(live[i])'
                       ELSE High(live[i])' /\ Low(live[i])'
    BY <1>10, <1>11, <1>14, <1>15, <1>16 DEF Wrapped, High, Low
  <2>2. \A i, j \in 1 .. k + 1 :
           i < j /\ live'[i].pos < nRd' => live'[j].pos < nRd'
    BY <1>10, <1>11, <1>12, <1>14, <1>15, <1>16, <1>17 DEF Wrapped, High, Low
  <2> QED
    BY <2>1, <2>2, <1>6 DEF Placed
<1>19. Ordered'
  <2>1. \A i, j \in 1 .. k + 1 : i < j =>
           \/ EndOf(live'[i]) <= live'[j].pos
           \/ Wrapped' /\ High(live[i])' /\ Low(live[j])'
    BY <1>10, <1>11, <1>13, <1>14, <1>15, <1>16, <1>17 DEF Wrapped, High, Low
  <2> QED
    BY <2>1, <1>6 DEF Ordered
<1> QED
  BY <1>7, <1>9, <1>18, <1>19 DEF IInv

-----------------------------------------------------------------------------
(* The oldest GOP stands where Free expects it, and Free moves nRd to its  *)
(* end: the three asserts of CGopCircBuff::Free.                           *)
LEMMA FreeFindsOldest ==
  ASSUME IInv, live # << >>
  PROVE  /\ live[1].pos = FreePos(live[1].len)
         /\ \/ ~Wrapped /\ nRd = live[1].pos
            \/ Wrapped /\ High(live[1])
            \/ Wrapped /\ Low(live[1]) /\ live[1].pos = 0
<1>1. /\ nRd \in Nat /\ nWr \in Nat /\ Size \in Nat
      /\ nRd < Size /\ nWr < Size
  BY IndexType DEF IInv
<1>2. live \in Seq(Gop) /\ DOMAIN live = 1 .. Len(live) /\ 1 \in 1 .. Len(live)
  BY IndexType, EmptySeq DEF IInv
<1>3. /\ live[1].pos \in Nat /\ live[1].len \in Nat /\ live[1].len > 0
      /\ EndOf(live[1]) = live[1].pos + live[1].len
  BY <1>2, GopType, ElementOfSeq
<1>4. live[1].pos = Step(nRd, live[1].len)
  BY DEF IInv, Chained
<1>5. IF Wrapped THEN High(live[1]) \/ Low(live[1])
                 ELSE High(live[1]) /\ Low(live[1])
  BY <1>2 DEF IInv, Placed
<1> QED
  BY <1>1, <1>3, <1>4, <1>5
     DEF Step, FitsAtTail, FreePos, Wrapped, High, Low

(* Giving back the oldest GOP leaves the others where they are and as they *)
(* were: Free keeps IInv.                                                  *)
LEMMA FreeInv ==
  ASSUME IInv, Free
  PROVE  IInv'
<1> DEFINE gop == live[1]
           k == Len(live)
<1>1. /\ TypeOK
      /\ nRd \in Nat /\ nWr \in Nat /\ Size \in Nat
      /\ nRd < Size /\ nWr < Size
  BY IndexType DEF IInv
<1>2. /\ k \in Nat /\ k > 0 /\ live # << >>
      /\ live \in Seq(Gop) /\ DOMAIN live = 1 .. k
      /\ \A i \in 1 .. k : live[i] \in Gop
  BY IndexType, EmptySeq DEF IInv, Free
<1>3. gop \in Gop /\ gop = Head(live)
  BY <1>2
<1>4. nWr' = nWr /\ nRd' = EndOf(gop) /\ live' = Tail(live)
  BY <1>2, <1>3, FreeFindsOldest DEF Free, EndOf
<1>5. \/ ~Wrapped /\ nRd = gop.pos
      \/ Wrapped /\ High(gop)
      \/ Wrapped /\ Low(gop) /\ gop.pos = 0
  BY <1>2, FreeFindsOldest
<1>6. /\ live' \in Seq(Gop) /\ Len(live') = k - 1 /\ DOMAIN live' = 1 .. k - 1
      /\ \A i \in 1 .. k - 1 : live'[i] = live[i + 1]
  BY <1>2, <1>4, HeadTailProperties, LenProperties
<1> HIDE DEF gop, k
<1>7. \A i \in 1 .. k :
         /\ live[i].pos \in Nat /\ EndOf(live[i]) \in Nat
         /\ live[i].pos < EndOf(live[i])
  BY <1>2, GopType
<1>8. \A i \in 1 .. k : IF Wrapped THEN High(live[i]) \/ Low(live[i])
                                   ELSE High(live[i]) /\ Low(live[i])
  BY <1>2 DEF IInv, Placed
<1>9. \A i, j \in 1 .. k : i < j /\ live[i].pos < nRd => live[j].pos < nRd
  BY <1>2 DEF IInv, Placed
<1>10. \A i, j \in 1 .. k : i < j =>
             \/ EndOf(live[i]) <= live[j].pos
             \/ Wrapped /\ High(live[i]) /\ Low(live[j])
  BY <1>2 DEF IInv, Ordered
<1>11. /\ gop.pos \in Nat /\ EndOf(gop) \in Nat /\ gop.pos < EndOf(gop)
       /\ 1 \in 1 .. k /\ gop = live[1]
  BY <1>2, <1>3, GopType DEF gop
<1>12. /\ \A i \in 1 .. k - 1 : i + 1 \in 1 .. k /\ 1 < i + 1
       /\ \A i, j \in 1 .. k - 1 : i < j => i + 1 < j + 1
  BY <1>2
<1>13. \A j \in 1 .. k : 1 < j =>
          \/ EndOf(gop) <= live[j].pos
          \/ Wrapped /\ High(gop) /\ Low(live[j])
  BY <1>10, <1>11
<1>14. \A j \in 1 .. k : 1 < j /\ gop.pos < nRd => live[j].pos < nRd
  BY <1>9, <1>11
<1>15. TypeOK'
  <2>1. EndOf(gop) < Size
    BY <1>1, <1>5, <1>8, <1>11 DEF Wrapped, High, Low
  <2> QED
    BY <2>1, <1>1, <1>4, <1>6, <1>11 DEF TypeOK, Gop
<1>16. Chained'
  <2>1. /\ nWr = EndOf(live[k])
        /\ \A i \in 1 .. k - 1 :
              live[i + 1].pos = Step(EndOf(live[i]), live[i + 1].len)
    BY <1>2 DEF IInv, Chained, k
  <2>2. live' = << >> <=> k = 1
    BY <1>2, <1>6, EmptySeq
  <2>3. k # 1 => live'[1].pos = Step(nRd', live'[1].len)
    BY <2>1, <1>2, <1>4, <1>6, <1>11
  <2>4. \A i \in 1 .. k - 2 :
           live'[i + 1].pos = Step(EndOf(live'[i]), live'[i + 1].len)
    BY <2>1, <1>2, <1>6
  <2>5. nWr' = IF live' = << >> THEN nRd' ELSE EndOf(live'[k - 1])
    BY <2>1, <2>2, <1>2, <1>4, <1>6, <1>11
  <2> QED
    BY <2>2, <2>3, <2>4, <2>5, <1>2, <1>6 DEF Chained, Step, FitsAtTail
<1>17. Placed'
  <2>1. ASSUME NEW i \in 1 .. k - 1
        PROVE  IF Wrapped' THEN High(live[i])' \/ Low(live[i])'
                           ELSE High(live[i])' /\ Low(live[i])'
    <3> DEFINE b == live[i + 1]
    <3>1. /\ b.pos \in Nat /\ EndOf(b) \in Nat /\ b.pos < EndOf(b)
          /\ IF Wrapped THEN High(b) \/ Low(b) ELSE High(b) /\ Low(b)
          /\ \/ EndOf(gop) <= b.pos
             \/ Wrapped /\ High(gop) /\ Low(b)
          /\ gop.pos < nRd => b.pos < nRd
      BY <1>7, <1>8, <1>12, <1>13, <1>14
    <3>2. live'[i] = b
      BY <1>6
    <3> HIDE DEF b
    <3>3. /\ Wrapped \in BOOLEAN /\ (Wrapped <=> nWr < nRd)
          /\ High(b) <=> nRd <= b.pos /\ EndOf(b) < Size
          /\ Low(b) <=> EndOf(b) <= nWr
          /\ High(gop) <=> nRd <= gop.pos /\ EndOf(gop) < Size
          /\ Low(gop) <=> EndOf(gop) <= nWr
      BY DEF Wrapped, High, Low
    <3>4. /\ Wrapped' <=> nWr < EndOf(gop)
          /\ High(live[i])' <=> EndOf(gop) <= b.pos /\ EndOf(b) < Size
          /\ Low(live[i])' <=> EndOf(b) <= nWr
      BY <3>2, <1>4 DEF Wrapped, High, Low, EndOf
    <3> QED
      BY <3>1, <3>3, <3>4, <1>1, <1>5, <1>11
  <2>2. ASSUME NEW i \in 1 .. k - 1, NEW j \in 1 .. k - 1,
               i < j, live'[i].pos < nRd'
        PROVE  live'[j].pos < nRd'
    <3> DEFINE a == live[i + 1]
               b == live[j + 1]
    <3>1. /\ a.pos \in Nat /\ EndOf(a) \in Nat /\ a.pos < EndOf(a)
          /\ b.pos \in Nat /\ EndOf(b) \in Nat /\ b.pos < EndOf(b)
          /\ \/ EndOf(gop) <= a.pos
             \/ Wrapped /\ High(gop) /\ Low(a)
          /\ a.pos < nRd => b.pos < nRd
      BY <2>2, <1>7, <1>9, <1>12, <1>13
    <3>2. live'[i] = a /\ live'[j] = b
      BY <1>6
    <3> HIDE DEF a, b
    <3>3. a.pos < EndOf(gop)
      BY <2>2, <3>2, <1>4
    <3>4. Wrapped /\ High(gop) /\ Low(a)
      BY <3>1, <3>3, <1>11
    <3>5. a.pos < nRd
      BY <3>1, <3>4, <1>1 DEF Wrapped, Low
    <3>6. b.pos \in Nat /\ b.pos < nRd
      BY <3>1, <3>5
    <3>7. nRd <= gop.pos
      BY <3>4 DEF High
    <3>8. \A p, r, g, e \in Nat : p < r /\ r <= g /\ g < e => p < e
      OBVIOUS
    <3>9. b.pos < EndOf(gop)
      BY <3>6, <3>7, <3>8, <1>1, <1>11
    <3> QED
      BY <3>2, <3>9, <1>4
  <2> QED
    BY <2>1, <2>2, <1>6 DEF Placed
<1>18. Ordered'
  <2>1. ASSUME NEW i \in 1 .. k - 1, NEW j \in 1 .. k - 1, i < j
        PROVE  \/ EndOf(live'[i]) <= live'[j].pos
               \/ Wrapped' /\ High(live[i])' /\ Low(live[j])'
    <3> DEFINE a == live[i + 1]
               b == live[j + 1]
    <3>1. /\ a.pos \in Nat /\ EndOf(a) \in Nat /\ a.pos < EndOf(a)
          /\ b.pos \in Nat /\ EndOf(b) \in Nat /\ b.pos < EndOf(b)
      BY <1>7, <1>12
    <3>2. /\ IF Wrapped THEN High(a) \/ Low(a) ELSE High(a) /\ Low(a)
          /\ IF Wrapped THEN High(b) \/ Low(b) ELSE High(b) /\ Low(b)
      BY <1>8, <1>12
    <3>3. /\ \/ EndOf(gop) <= a.pos
             \/ Wrapped /\ High(gop) /\ Low(a)
          /\ \/ EndOf(gop) <= b.pos
             \/ Wrapped /\ High(gop) /\ Low(b)
      BY <1>12, <1>13
    <3>4. \/ EndOf(a) <= b.pos
          \/ Wrapped /\ High(a) /\ Low(b)
      BY <2>1, <1>10, <1>12
    <3>5. live'[i] = a /\ live'[j] = b
      BY <1>6
    <3>6. gop.pos < nRd => a.pos < nRd
      BY <1>12, <1>14
    <3> HIDE DEF a, b
    <3>7. CASE EndOf(a) <= b.pos
      BY <3>5, <3>7
    <3>8. CASE Wrapped /\ High(a) /\ Low(b)
      <4>1. High(gop) /\ EndOf(gop) <= a.pos
        BY <3>1, <3>3, <3>6, <3>8, <1>1, <1>5, <1>11 DEF Wrapped, High, Low
      <4>2. EndOf(a) < Size /\ EndOf(b) <= nWr /\ b.pos < EndOf(gop) /\ nWr < EndOf(gop)
        <5>1. nRd <= gop.pos /\ nWr < nRd /\ EndOf(a) < Size /\ EndOf(b) <= nWr
          BY <4>1, <3>8 DEF Wrapped, High, Low
        <5>2. \A p, e, w, r, g, n \in Nat : p < e /\ e <= w /\ w < r /\ r <= g /\ g < n => p < n /\ w < n
          OBVIOUS
        <5> QED BY <5>1, <5>2, <3>1, <1>1, <1>11
      <4>3. Wrapped' /\ High(live[i])' /\ Low(live[j])'
        BY <4>1, <4>2, <3>5, <1>4 DEF Wrapped, High, Low, EndOf
      <4> QED BY <4>3
    <3> QED
      BY <3>4, <3>7, <3>8
  <2> QED
    BY <2>1, <1>6 DEF Ordered
<1> QED
  BY <1>15, <1>16, <1>17, <1>18 DEF IInv

-----------------------------------------------------------------------------
(* The inductive invariant holds whatever the order in which the segmenter *)
(* allocates and the uploader frees.                                       *)
THEOREM Invariance == Spec => []IInv
<1>1. IInv /\ [Next]_vars => IInv'
  <2> SUFFICES ASSUME IInv, [Next]_vars PROVE IInv'
    OBVIOUS
  <2>1. ASSUME NEW n \in Lengths, Alloc(n) PROVE IInv'
    BY <2>1, AllocInv
  <2>2. CASE Free
    BY <2>2, FreeInv
  <2>3. CASE UNCHANGED vars
    BY <2>3 DEF vars, IInv, TypeOK, Chained, Placed, Ordered, Wrapped, High,
                Low
  <2> QED
    BY <2>1, <2>2, <2>3 DEF Next
<1> QED
  BY InitInv, <1>1, PTL DEF Spec

(* The indices stay inside the buffer, and so does every GOP held. *)
THEOREM TypeCorrect == Spec => []TypeOK
<1>1. IInv => TypeOK
  BY DEF IInv
<1> QED
  BY <1>1, Invariance, PTL

(* The asserts of CGopCircBuff::Free never fire. *)
THEOREM FreeAssertHolds == Spec => []FreeAssert
<1>1. IInv => FreeAssert
  <2> SUFFICES ASSUME IInv, live # << >>
               PROVE  Head(live).pos = FreePos(Head(live).len)
    BY DEF FreeAssert
  <2>1. live \in Seq(Gop)
    BY IndexType DEF IInv
  <2>2. Head(live) = live[1]
    BY <2>1
  <2> QED
    BY <2>2, FreeFindsOldest
<1> QED
  BY <1>1, Invariance, PTL

(* A GOP held, in the uploader's hands or waiting, is not overwritten by a *)
(* later one.                                                              *)
THEOREM GopsDoNotOverlap == Spec => []NoOverlap
<1>1. IInv => NoOverlap
  <2> SUFFICES ASSUME IInv PROVE NoOverlap
    OBVIOUS
  <2>1. /\ nRd \in Nat /\ nWr \in Nat /\ Size \in Nat
        /\ nRd < Size /\ nWr < Size
        /\ DOMAIN live = 1 .. Len(live)
    BY IndexType DEF IInv
  <2>2. \A i \in DOMAIN live :
           /\ live[i].pos \in Nat /\ EndOf(live[i]) \in Nat
           /\ IF Wrapped THEN High(live[i]) \/ Low(live[i])
                         ELSE High(live[i]) /\ Low(live[i])
    BY <2>1, IndexType, GopType DEF IInv, Placed
  <2>3. \A i \in DOMAIN live : EndOf(live[i]) <= Size
    BY <2>1, <2>2 DEF High, Low, Wrapped
  <2>4. \A i, j \in DOMAIN live : i < j =>
          EndOf(live[i]) <= live[j].pos \/ EndOf(live[j]) <= live[i].pos
    <3> SUFFICES ASSUME NEW i \in DOMAIN live, NEW j \in DOMAIN live, i < j
                 PROVE  EndOf(live[i]) <= live[j].pos \/ EndOf(live[j]) <= live[i].pos
      OBVIOUS
    <3>1. \/ EndOf(live[i]) <= live[j].pos
          \/ Wrapped /\ High(live[i]) /\ Low(live[j])
      BY <2>1 DEF IInv, Ordered
    <3>2. CASE Wrapped /\ High(live[i]) /\ Low(live[j])
      <4>1. nWr < nRd /\ nRd <= live[i].pos /\ EndOf(live[j]) <= nWr
        BY <3>2 DEF Wrapped, High, Low
      <4>2. live[i].pos \in Nat /\ EndOf(live[j]) \in Nat
        BY <2>2
      <4> QED BY <4>1, <4>2, <2>1
    <3> QED BY <3>1, <3>2
  <2> QED
    BY <2>3, <2>4 DEF NoOverlap
<1> QED
  BY <1>1, Invariance, PTL

(* nRd = nWr exactly when no GOP is held. *)
THEOREM EqualMeansEmpty == Spec => []EmptyIffEqual
<1>1. IInv => EmptyIffEqual
  <2> SUFFICES ASSUME IInv PROVE EmptyIffEqual
    OBVIOUS
  <2>1. live = << >> => nRd = nWr
    BY DEF IInv, Chained
  <2>2. ASSUME live # << >> PROVE nRd # nWr
    <3>1. /\ nRd \in Nat /\ nWr \in Nat
          /\ live[1] \in Gop /\ DOMAIN live = 1 .. Len(live)
          /\ 1 \in 1 .. Len(live)
      BY <2>2, IndexType, EmptySeq DEF IInv
    <3>2. /\ live[1].pos \in Nat /\ EndOf(live[1]) \in Nat
          /\ live[1].pos < EndOf(live[1])
      BY <3>1, GopType
    <3>3. IF Wrapped THEN High(live[1]) \/ Low(live[1])
                     ELSE High(live[1]) /\ Low(live[1])
      BY <3>1 DEF IInv, Placed
    <3> QED
      BY <3>1, <3>2, <3>3 DEF Wrapped, High, Low
  <2> QED
    BY <2>1, <2>2 DEF EmptyIffEqual
<1> QED
  BY <1>1, Invariance, PTL

(* An empty ring refuses no GOP: nothing is lost while the uploader keeps  *)
(* up, wherever in the buffer the last GOP was freed.                      *)
THEOREM EmptyRingAccepts == Spec => []EmptyAccepts
<1>1. IInv => EmptyAccepts
  <2> SUFFICES ASSUME IInv, live = << >>, NEW n \in Lengths
               PROVE  CanAlloc(n)
    BY DEF EmptyAccepts
  <2>1. nWr = nRd
    BY DEF IInv, Chained
  <2>2. nRd \in Nat /\ nRd < Size /\ Size \in Nat
    BY IndexType DEF IInv
  <2>3. n \in Nat /\ 2 * n < Size
    BY RingAssumption DEF RingAssumption
  <2> QED
    BY <2>1, <2>2, <2>3 DEF CanAlloc, AllocPos, FitsAtTail, NULL
<1> QED
  BY <1>1, Invariance, PTL

-----------------------------------------------------------------------------
(* The ring implements GopStore: Alloc finds room inside the buffer that   *)
(* no GOP held shares, and moves none.                                     *)
LEMMA AllocPuts ==
  ASSUME IInv, NEW n \in Lengths, Alloc(n)
  PROVE  Store!Put
<1> DEFINE gop == [pos |-> AllocPos(n), len |-> n]
<1>1. /\ nRd \in Nat /\ nWr \in Nat /\ Size \in Nat
      /\ nRd < Size /\ nWr < Size /\ DOMAIN live = 1 .. Len(live)
  BY IndexType DEF IInv
<1>2. /\ n \in Nat /\ n > 0 /\ AllocPos(n) \in Nat /\ AllocPos(n) + n < Size
      /\ \/ Wrapped /\ AllocPos(n) = nWr /\ nWr + n < nRd
         \/ ~Wrapped /\ AllocPos(n) = nWr
         \/ ~Wrapped /\ AllocPos(n) = 0 /\ n < nRd
  BY AllocCases DEF IInv, Alloc
<1>3. live' = Append(live, gop)
  BY DEF Alloc, Block
<1>4. gop.pos = AllocPos(n) /\ gop.len = n
  OBVIOUS
<1> HIDE DEF gop
<1>5. AllocPos(n) \in 0 .. Size /\ Store!Inside(gop)
  BY <1>1, <1>2, <1>4 DEF Store!Inside
<1>6. ASSUME NEW i \in DOMAIN live
      PROVE  Store!Disjoint(live[i], gop)
  <2>1. /\ live[i].pos \in Nat /\ live[i].len \in Nat
        /\ EndOf(live[i]) = live[i].pos + live[i].len
    BY <1>1, <1>6, IndexType, GopType DEF IInv
  <2>2. IF Wrapped THEN High(live[i]) \/ Low(live[i])
                   ELSE High(live[i]) /\ Low(live[i])
    BY DEF IInv, Placed
  <2> QED
    BY <1>1, <1>2, <1>4, <2>1, <2>2 DEF Store!Disjoint, High, Low, Wrapped
<1> QED
  BY <1>3, <1>5, <1>6 DEF Store!Put, gop

(* The ring implements GopStore: what it returns is room that no GOP held  *)
(* uses, and GOPs leave it oldest first.                                   *)
THEOREM RingImplementsStore == Spec => StoreSpec
<1>1. Init => Store!Init
  BY DEF Init, Store!Init
<1>2. IInv /\ [Next]_vars => [Store!Next]_live
  <2> SUFFICES ASSUME IInv, [Next]_vars PROVE [Store!Next]_live
    OBVIOUS
  <2>1. ASSUME NEW n \in Lengths, Alloc(n) PROVE Store!Next
    BY <2>1, AllocPuts DEF Store!Next
  <2>2. CASE Free
    BY <2>2 DEF Free, Store!Next, Store!Take
  <2>3. CASE UNCHANGED vars
    BY <2>3 DEF vars
  <2> QED
    BY <2>1, <2>2, <2>3 DEF Next
<1> QED
  BY <1>1, <1>2, Invariance, PTL DEF Spec, StoreSpec, Store!Spec

=============================================================================
