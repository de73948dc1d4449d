---------------------------- MODULE GopCircBuff -----------------------------
(***************************************************************************)
(* CGopCircBuff (jdnet/src/JdHttpLiveSgmt.cpp): the ring that holds the    *)
(* GOPs between the segmenter's thread and the uploader's thread of        *)
(* CHlsPublishS3.  A GOP is stored contiguously, so Alloc skips the tail   *)
(* of the buffer when a GOP does not fit there; nothing records that it    *)
(* did, and Free works it out again from nRd and the length it is given.   *)
(*                                                                         *)
(* nRd and nWr are the members of the class.  live is what its user holds: *)
(* the CGopCb objects, m_pBuff and m_nLen, of the GOPs allocated and not   *)
(* yet freed, in the order of allocation.                                  *)
(***************************************************************************)
EXTENDS Integers, Sequences, FiniteSetsExt, Functions

CONSTANTS Size,    \* m_nSize, 10 MB in CHlsPublishS3
          Lengths  \* lengths of the GOPs published, 188 bytes to under 2 MB

(* UpdateOnNewGop publishes no empty GOP, and CGop::AddData keeps a GOP    *)
(* under its m_nMaxLen of 2 MB: two of the longest GOPs fit in the ring.   *)
RingAssumption ==
  /\ Size \in Nat \ {0}
  /\ Lengths \subseteq {n \in Nat : n > 0 /\ 2 * n < Size}

ASSUME RingAssumption

VARIABLES nRd, nWr, live

vars == <<nRd, nWr, live>>

NULL == -1

EndOf(gop) == gop.pos + gop.len

-----------------------------------------------------------------------------
(* Alloc(n) returns AllocPos(n), where it puts a GOP of n bytes. *)
FitsAtTail(at, n) == Size - at - 1 >= n

(* Mutant: the start of the buffer is taken without looking at nRd. *)
AllocPosBlind(n) ==
  IF nWr < nRd
  THEN IF nRd - nWr > n THEN nWr ELSE NULL
  ELSE IF FitsAtTail(nWr, n) THEN nWr ELSE 0

AllocPos(n) ==
  IF nWr < nRd
  THEN IF nRd - nWr > n THEN nWr ELSE NULL
  ELSE IF FitsAtTail(nWr, n) THEN nWr
       ELSE IF nRd > n THEN 0 ELSE NULL

CanAlloc(n) == AllocPos(n) # NULL

Block(n) == [pos |-> AllocPos(n), len |-> n]

(* Mutant: the tail that Alloc skipped is not skipped. *)
FreePosNoSkip(n) == nRd

(* The block Free(pData, nSize) demands in its assert. *)
FreePos(n) == IF nRd < nWr \/ FitsAtTail(nRd, n) THEN nRd ELSE 0

-----------------------------------------------------------------------------
Init ==
  /\ nRd = 0
  /\ nWr = 0
  /\ live = << >>

Alloc(n) ==
  /\ CanAlloc(n)
  /\ nWr' = AllocPos(n) + n
  /\ live' = Append(live, Block(n))
  /\ UNCHANGED nRd

(* The uploader frees the GOP it popped, always the oldest one. *)
Free ==
  /\ live # << >>
  /\ nRd' = FreePos(Head(live).len) + Head(live).len
  /\ live' = Tail(live)
  /\ UNCHANGED nWr

Next == (\E n \in Lengths : Alloc(n)) \/ Free

Spec == Init /\ [][Next]_vars

-----------------------------------------------------------------------------
(* Types of the indices and of the blocks held. *)
TypeOK ==
  /\ nRd \in 0 .. Size - 1
  /\ nWr \in 0 .. Size - 1
  /\ live \in Seq([pos : 0 .. Size - 1, len : Lengths])

(* The three asserts of Free: the GOP freed starts where nRd says, after   *)
(* the tail has been skipped exactly when Alloc skipped it.                *)
FreeAssert == live # << >> => Head(live).pos = FreePos(Head(live).len)

(* No two GOPs held share a byte: a GOP being sent is not overwritten by   *)
(* the GOPs that arrive meanwhile.                                         *)
NoOverlap ==
  /\ \A i \in DOMAIN live : EndOf(live[i]) <= Size
  /\ \A i, j \in DOMAIN live : i < j =>
        EndOf(live[i]) <= live[j].pos \/ EndOf(live[j]) <= live[i].pos

(* nRd = nWr always means empty: a full ring is never taken for an empty   *)
(* one, which is what the byte kept free is for.                           *)
EmptyIffEqual == nRd = nWr <=> live = << >>

(* A ring that holds nothing accepts any GOP.  It would not if a GOP could *)
(* be half the ring: nRd and nWr do not go back to 0 when it empties.      *)
EmptyAccepts == live = << >> => \A n \in Lengths : CanAlloc(n)

-----------------------------------------------------------------------------
(* The inductive invariant.  Walking from nRd over the GOPs held, each one *)
(* stands where the walk has come to, or at 0 if it does not fit before    *)
(* the end of the buffer, and the walk ends at nWr.                        *)
Step(at, n) == IF FitsAtTail(at, n) THEN at ELSE 0

Chained ==
  /\ live # << >> => live[1].pos = Step(nRd, live[1].len)
  /\ \A i \in 1 .. Len(live) - 1 :
        live[i + 1].pos = Step(EndOf(live[i]), live[i + 1].len)
  /\ nWr = IF live = << >> THEN nRd ELSE EndOf(live[Len(live)])

Wrapped == nWr < nRd
High(gop) == nRd <= gop.pos /\ EndOf(gop) < Size
Low(gop) == EndOf(gop) <= nWr

(* The GOPs lie between nRd and nWr, around the end of the buffer if the   *)
(* ring has wrapped; the ones that have wrapped come last.                 *)
Placed ==
  /\ \A i \in DOMAIN live :
        IF Wrapped THEN High(live[i]) \/ Low(live[i])
                   ELSE High(live[i]) /\ Low(live[i])
  /\ \A i, j \in DOMAIN live :
        i < j /\ live[i].pos < nRd => live[j].pos < nRd

(* In the order of arrival the GOPs do not overlap, one after another or   *)
(* the later one at the start of the buffer, before the earlier one.       *)
Ordered ==
  \A i, j \in DOMAIN live : i < j =>
    \/ EndOf(live[i]) <= live[j].pos
    \/ Wrapped /\ High(live[i]) /\ Low(live[j])

IInv == TypeOK /\ Chained /\ Placed /\ Ordered

-----------------------------------------------------------------------------
Store == INSTANCE GopStore

StoreSpec == Store!Spec
=============================================================================
