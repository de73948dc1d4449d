------------------------- MODULE HlsPublishS3_proofs ------------------------
(***************************************************************************)
(* The publisher to a sink for every ring, duration of GOPs and segments,  *)
(* sink and set of calls that fail, and for any number of GOPs.            *)
(***************************************************************************)
EXTENDS HlsPublishS3, SequenceTheorems, FiniteSetTheorems, WellFoundedInduction, TLAPS

Blocks == [pos : Int, len : Lengths]

(* Types, as far as the arguments below need them. *)
Types ==
  /\ nRd \in Int /\ nWr \in Int
  /\ filled \in Seq(Blocks) /\ taken \in Seq(Blocks)
  /\ inTime \in Nat /\ outTime \in Nat /\ lostTime \in Nat /\ segTime \in Nat
  /\ pc \in {"none", "poll", "measure", "open", "pop", "send", "free", "close",
             "playlist", "delete", "final", "leave", "exit", "crash"}
  /\ crnt \in Nat /\ segment \in Nat /\ missed \in Nat
  /\ stored \in SUBSET Nat
  /\ playlist \in [first : Int, count : Int, ended : BOOLEAN]
  /\ ctl \in {"add", "run", "running", "clear", "mark", "stopped", "crashed"}
  /\ pub \in Lengths \union {0}

(* Where the threads are, and what they hold there. *)
Held ==
  /\ ctl \in {"add", "run"} => pc = "none"
  /\ ctl \in {"clear", "mark", "stopped"} => pub = 0
  /\ pc \in {"send", "free"} => Len(taken) = 1
  /\ pc \notin {"send", "free", "leave", "exit"} => taken = << >>

(* the wait of the uploader *)
Waiting == timeout \in Int /\ running \in BOOLEAN

Inv == Types /\ Held

LEMMA Numbers ==
  /\ GopMs \in Nat /\ GopMs > 0 /\ SegmentMs \in Nat /\ SegmentMs > 0 /\ MaxGops \in Nat
  /\ Size \in Nat /\ Lengths \subseteq Nat /\ \A n \in Lengths : n > 0
BY PublishAssumption, Ring!RingAssumption DEF PublishAssumption, Ring!RingAssumption

LEMMA InvInit == Init => Inv
BY EmptySeq DEF Init, Inv, Types, Held, NoPlaylist

LEMMA OwnerInv == ASSUME Inv, Owner PROVE Inv'
<1> USE DEF Inv, ring, times, status, work, out
<1>1. CASE AddPublisher
  BY <1>1 DEF AddPublisher, Types, Held
<1>2. CASE Run
  BY <1>2 DEF Run, Types, Held
<1>3. CASE RemovePublisher
  BY <1>3 DEF RemovePublisher, Types, Held
<1>4. CASE ClearRunState
  BY <1>4 DEF ClearRunState, Types, Held
<1>5. CASE MarkStopped
  BY <1>5 DEF MarkStopped, Types, Held
<1> QED BY <1>1, <1>2, <1>3, <1>4, <1>5 DEF Owner

LEMMA SegmenterInv == ASSUME Inv, Segmenter PROVE Inv'
<1> USE DEF Inv, ring, times, status, work, out
<1>1. ASSUME NEW n \in Lengths, Publish(n) PROVE Inv'
  BY <1>1, Numbers DEF Publish, Attached, Types, Held
<1>2. CASE Receive
  <2>1. /\ nWr' \in Int /\ lostTime' \in Nat
        /\ filled' \in Seq(Blocks)
    <3>1. CASE Ring!CanAlloc(pub)
      <4>1. pub \in Lengths /\ pub \in Int
        BY <1>2, Numbers DEF Receive, Types
      <4>2. Ring!AllocPos(pub) \in Int
        BY <4>1, Numbers DEF Types, Ring!AllocPos, Ring!NULL
      <4>3. Ring!Block(pub) \in Blocks
        BY <4>1, <4>2 DEF Ring!Block, Blocks
      <4>4. Append(filled, Ring!Block(pub)) \in Seq(Blocks)
        BY <4>3, AppendProperties DEF Types
      <4>5. /\ nWr' = Ring!AllocPos(pub) + pub /\ lostTime' = lostTime
            /\ filled' = Append(filled, Ring!Block(pub))
        BY <1>2, <3>1 DEF Receive
      <4>6. lostTime \in Nat
        BY DEF Types
      <4> QED BY <4>1, <4>2, <4>4, <4>5, <4>6
    <3>2. CASE ~Ring!CanAlloc(pub)
      BY <1>2, <3>2, Numbers DEF Receive, Lost, Types
    <3> QED BY <3>1, <3>2
  <2>2. /\ pub' = 0
        /\ UNCHANGED <<nRd, taken, inTime, outTime, segTime, pc, crnt, segment, missed, stored,
                       playlist, ctl>>
    BY <1>2 DEF Receive
  <2> QED BY <2>1, <2>2 DEF Types, Held
<1> QED BY <1>1, <1>2 DEF Segmenter

LEMMA SinglePop ==
  ASSUME NEW S, NEW s \in Seq(S), s # << >>
  PROVE  /\ Head(s) \in S /\ Tail(s) \in Seq(S) /\ Len(Tail(s)) = Len(s) - 1
         /\ <<Head(s)>> \in Seq(S) /\ Len(<<Head(s)>>) = 1
         /\ <<Head(s)>> \o Tail(s) = s
<1>1. /\ Head(s) \in S /\ Tail(s) \in Seq(S) /\ Len(Tail(s)) = Len(s) - 1 /\ Head(s) = s[1]
      /\ \A i \in 1 .. Len(Tail(s)) : Tail(s)[i] = s[i + 1]
  BY HeadTailProperties
<1>2. <<Head(s)>> \in Seq(S) /\ Len(<<Head(s)>>) = 1 /\ <<Head(s)>>[1] = s[1]
  BY <1>1
<1> DEFINE c == <<Head(s)>> \o Tail(s)
<1>3. /\ c \in Seq(S) /\ Len(c) = 1 + Len(Tail(s))
      /\ \A i \in 1 .. 1 + Len(Tail(s)) :
           c[i] = IF i <= 1 THEN <<Head(s)>>[i] ELSE Tail(s)[i - 1]
  BY <1>1, <1>2, ConcatProperties
<1> HIDE DEF c
<1>4. Len(s) \in Nat /\ Len(c) = Len(s)
  BY <1>1, <1>3, LenProperties
<1>5. ASSUME NEW i \in 1 .. Len(s) PROVE c[i] = s[i]
  <2>1. CASE i = 1
    BY <1>1, <1>2, <1>3, <1>4, <2>1
  <2>2. CASE i # 1
    <3>1. i - 1 \in 1 .. Len(Tail(s)) /\ (i - 1) + 1 = i /\ ~(i <= 1)
      BY <1>1, <1>4, <2>2
    <3> QED BY <1>1, <1>3, <1>4, <3>1
  <2> QED BY <2>1, <2>2
<1>6. c = s
  BY <1>3, <1>4, <1>5, SeqEqual
<1> QED BY <1>1, <1>2, <1>6 DEF c

LEMMA PopInv == ASSUME Inv, filled # << >>, Pop PROVE Inv'
<1>1. filled \in Seq(Blocks)
  BY DEF Inv, Types
<1>2. taken' \in Seq(Blocks) /\ Len(taken') = 1 /\ filled' \in Seq(Blocks)
  BY <1>1, SinglePop DEF Pop
<1>3. /\ pc = "pop" /\ pc' = "send"
      /\ UNCHANGED <<nRd, nWr, inTime, outTime, lostTime, segTime, crnt, segment, missed, stored,
                     playlist, ctl, pub>>
  BY DEF Pop, ring, times, status, out
<1> QED BY <1>2, <1>3 DEF Inv, Types, Held

LEMMA FreeGopInv == ASSUME Inv, FreeGop PROVE Inv'
<1>1. taken[1].len \in Int
  <2>1. taken \in Seq(Blocks) /\ Len(taken) = 1
    BY DEF Inv, Types, Held, FreeGop
  <2>2. taken[1] \in Blocks
    BY <2>1, ElementOfSeq
  <2>3. taken[1].len \in Lengths
    BY <2>2 DEF Blocks
  <2>4. \A n \in Lengths : n \in Int
    BY Numbers
  <2> QED BY <2>3, <2>4
<1>2. nRd' \in Int
  BY <1>1 DEF FreeGop, RdAfter, Ring!FreePos, Inv, Types
<1>3. taken' = << >> /\ taken' \in Seq(Blocks)
  BY EmptySeq DEF FreeGop
<1>4. /\ pc = "free" /\ pc' \in {"pop", "close"}
      /\ UNCHANGED <<nWr, filled, inTime, outTime, lostTime, segTime, crnt, segment, missed, stored,
                     playlist, ctl, pub>>
  BY DEF FreeGop, times, work, out
<1> QED BY <1>2, <1>3, <1>4 DEF Inv, Types, Held

(* the steps of the uploader that touch neither the ring nor a list *)
LEMMA WorkInv ==
  ASSUME Inv, UNCHANGED <<nRd, nWr, filled, taken, inTime, lostTime, pub>>,
         pc # "none",
         pc' \in {"poll", "measure", "open", "pop", "free", "close", "playlist", "delete", "final",
                  "leave", "exit", "crash"},
         pc' = "free" => pc = "send",
         pc \in {"send", "free", "leave", "exit"} => pc' \in {"free", "leave", "exit"},
         ctl' \in {ctl, "crashed"},
         outTime' \in Nat, segTime' \in Nat, crnt' \in Nat, segment' \in Nat, missed' \in Nat,
         stored' \in SUBSET Nat,
         playlist' \in [first : Int, count : Int, ended : BOOLEAN]
  PROVE  Inv'
<1>1. Types'
  BY DEF Inv, Types
<1>2. Held'
  BY DEF Inv, Types, Held
<1> QED BY <1>1, <1>2 DEF Inv

LEMMA UploaderInv == ASSUME Inv, Uploader, pc = "pop" => filled # << >> PROVE Inv'
<1> USE DEF ring, times, status, work, out
<1>0. /\ outTime \in Nat /\ segTime \in Nat /\ crnt \in Nat /\ segment \in Nat /\ missed \in Nat
      /\ stored \in SUBSET Nat /\ playlist \in [first : Int, count : Int, ended : BOOLEAN]
  BY DEF Inv, Types
<1>1. CASE Poll \/ Measure
  BY <1>0, <1>1, WorkInv DEF Poll, Measure
<1>2. CASE Open
  BY <1>0, <1>2, WorkInv DEF Open
<1>3. CASE Pop
  BY <1>3, PopInv DEF Pop
<1>4. CASE SendGop
  <2>1. /\ outTime' \in Nat /\ crnt' \in Nat /\ pc = "send" /\ pc' \in {"free", "leave"}
        /\ UNCHANGED <<nRd, nWr, filled, taken, inTime, lostTime, segTime, segment, stored,
                       playlist, missed, ctl, pub>>
    BY <1>0, <1>4, Numbers DEF SendGop
  <2> QED BY <1>0, <2>1, WorkInv
<1>5. CASE FreeGop
  BY <1>5, FreeGopInv
<1>6. CASE Close
  <2>1. segTime' \in Nat /\ segment' \in Nat /\ stored' \in SUBSET Nat /\ pc = "close"
        /\ pc' \in {"leave", "playlist", "poll"}
    BY <1>0, <1>6, Numbers DEF Close, NextSegment
  <2>2. UNCHANGED <<nRd, nWr, filled, taken, inTime, lostTime, outTime, crnt, playlist, missed,
                    ctl, pub>>
    BY <1>6 DEF Close
  <2> QED BY <1>0, <2>1, <2>2, WorkInv
<1>7. CASE SendPlaylist
  <2>0. BroadcastPlaylist \in [first : Int, count : Int, ended : BOOLEAN]
    BY <1>0 DEF BroadcastPlaylist, PlaylistLen
  <2>1. segment' \in Nat /\ missed' \in Nat /\ pc = "playlist" /\ pc' \in {"delete", "poll"}
        /\ playlist' \in {playlist, BroadcastPlaylist}
    BY <1>0, <1>7 DEF SendPlaylist, NextSegment
  <2>2. UNCHANGED <<nRd, nWr, filled, taken, inTime, lostTime, outTime, segTime, crnt, stored,
                    ctl, pub>>
    BY <1>7 DEF SendPlaylist
  <2> QED BY <1>0, <2>0, <2>1, <2>2, WorkInv
<1>8. CASE DeleteOld
  <2>1. segment' \in Nat /\ pc = "delete" /\ pc' = "poll"
        /\ stored' \in {stored, stored \ {OldSegment}}
    BY <1>0, <1>8 DEF DeleteOld, NextSegment
  <2>2. UNCHANGED <<nRd, nWr, filled, taken, inTime, lostTime, outTime, segTime, crnt, playlist,
                    missed, ctl, pub>>
    BY <1>8 DEF DeleteOld
  <2> QED BY <1>0, <2>1, <2>2, WorkInv
<1>9. CASE SendFullPlaylist
  <2>0. FullPlaylist \in [first : Int, count : Int, ended : BOOLEAN]
    BY <1>0 DEF FullPlaylist
  <2>1. missed' \in Nat /\ pc = "final" /\ pc' \in {"crash", "leave"} /\ ctl' \in {ctl, "crashed"}
        /\ playlist' \in {playlist, FullPlaylist}
    BY <1>0, <1>9 DEF SendFullPlaylist
  <2>2. UNCHANGED <<nRd, nWr, filled, taken, inTime, lostTime, outTime, segTime, crnt, segment,
                    stored, pub>>
    BY <1>9 DEF SendFullPlaylist
  <2> QED BY <1>0, <2>0, <2>1, <2>2, WorkInv
<1>10. CASE OpenRefused \/ Leave
  BY <1>0, <1>10, WorkInv DEF OpenRefused, Leave
<1> QED BY <1>1, <1>2, <1>3, <1>4, <1>5, <1>6, <1>7, <1>8, <1>9, <1>10 DEF Uploader

-----------------------------------------------------------------------------
(* The GOPs waiting last to the end of the segment under way: Process has  *)
(* seen them before it began, and only itself takes them.                  *)
Enough ==
  /\ pc \in {"measure", "open"} => AvailMs >= SegmentMs
  /\ pc = "pop" => crnt < SegmentMs /\ crnt + AvailMs >= SegmentMs
  /\ pc = "send" => crnt + GopMs + AvailMs >= SegmentMs
  /\ pc = "free" => crnt + AvailMs >= SegmentMs

LEMMA AvailFacts ==
  ASSUME Types
  PROVE  AvailMs \in Nat /\ Len(filled) \in Nat /\ (AvailMs > 0 => filled # << >>)
<1>1. Len(filled) \in Nat /\ (filled = << >> => Len(filled) = 0)
  BY LenProperties DEF Types
<1>2. \A n \in Nat : GopMs * n \in Nat /\ GopMs * 0 = 0
  BY Numbers
<1> QED BY <1>1, <1>2 DEF AvailMs

LEMMA WaitingStep == Waiting /\ [Next]_vars => Waiting'
<1> SUFFICES ASSUME Waiting, [Next]_vars PROVE Waiting'
  OBVIOUS
<1> USE DEF Waiting, work, status
<1>0. PollMs \in Nat /\ SegmentMs \in Nat /\ 2 * SegmentMs \in Int
  BY PublishAssumption DEF PublishAssumption
<1>1. CASE Owner
  BY <1>0, <1>1 DEF Owner, AddPublisher, Run, RemovePublisher, ClearRunState, MarkStopped
<1>2. CASE Segmenter
  BY <1>2 DEF Segmenter, Publish, Receive
<1>3. CASE Uploader
  <2>1. CASE Poll
    BY <1>0, <2>1 DEF Poll
  <2>2. CASE Measure \/ Open \/ Pop \/ SendGop \/ FreeGop
    BY <2>2 DEF Measure, Open, Pop, SendGop, FreeGop
  <2>3. CASE Close
    BY <1>0, <2>3 DEF Close, NextSegment
  <2>4. CASE SendPlaylist
    BY <1>0, <2>4 DEF SendPlaylist, NextSegment
  <2>5. CASE OpenRefused \/ DeleteOld \/ SendFullPlaylist \/ Leave
    BY <1>0, <2>5 DEF OpenRefused, DeleteOld, SendFullPlaylist, Leave, NextSegment
  <2> QED BY <1>3, <2>1, <2>2, <2>3, <2>4, <2>5 DEF Uploader
<1>4. CASE UNCHANGED vars
  BY <1>4 DEF vars
<1> QED BY <1>1, <1>2, <1>3, <1>4 DEF Next

LEMMA EnoughPops == Inv /\ Enough => PopHasGop
<1> SUFFICES ASSUME Inv, Enough, pc = "pop" PROVE filled # << >>
  BY DEF PopHasGop
<1> QED BY AvailFacts, Numbers DEF Inv, Enough, Types

LEMMA OneMore == \A n \in Nat : GopMs * (n + 1) = GopMs * n + GopMs
BY Numbers

LEMMA Rest == \A c, g, a, b, m \in Int : a = b + g /\ c + a >= m => c + g + b >= m
OBVIOUS

LEMMA EnoughStep ==
  ASSUME Inv, Waiting, Enough, [Next]_vars PROVE Enough'
<1> USE DEF ring, times, status, work, out
<1>0. AvailMs \in Nat /\ crnt \in Nat /\ Len(filled) \in Nat
  BY AvailFacts DEF Inv, Types
<1>1. ASSUME UNCHANGED filled PROVE AvailMs' = AvailMs
  BY <1>1 DEF AvailMs
<1>2. ASSUME UNCHANGED <<filled, pc, crnt>> PROVE Enough'
  BY <1>1, <1>2 DEF Enough
<1>3. CASE Owner
  <2>1. CASE Run
    BY <2>1 DEF Run, Enough
  <2>2. CASE ~Run
    BY <1>2, <1>3, <2>2 DEF Owner, AddPublisher, RemovePublisher, ClearRunState, MarkStopped
  <2> QED BY <2>1, <2>2
<1>4. CASE Segmenter
  <2>1. ASSUME NEW n \in Lengths, Publish(n) PROVE Enough'
    BY <1>2, <2>1 DEF Publish
  <2>2. CASE Receive /\ ~UNCHANGED filled
    <3>1. filled' = Append(filled, Ring!Block(pub)) /\ UNCHANGED <<pc, crnt>>
      BY <2>2 DEF Receive
    <3>2. Inv'
      BY <1>4, SegmenterInv
    <3>3. Len(filled') = Len(filled) + 1
      BY <3>1, <3>2, AppendProperties DEF Inv, Types
    <3>4. AvailMs' = AvailMs + GopMs
      BY <1>0, <3>3, OneMore DEF AvailMs
    <3> QED BY <1>0, <3>1, <3>4, Numbers DEF Enough
  <2>3. CASE Receive /\ UNCHANGED filled
    BY <1>2, <2>3 DEF Receive
  <2> QED BY <1>4, <2>1, <2>2, <2>3 DEF Segmenter
<1>5. CASE Uploader
  <2>1. CASE Poll
    <3>1. CASE pc' = "measure"
      <4>1. AvailMs >= SegmentMs
        BY <1>0, <2>1, <3>1, Numbers DEF Poll, GivesUp, Waiting
      <4> QED BY <1>1, <2>1, <3>1, <4>1 DEF Poll, Enough
    <3>2. CASE pc' # "measure"
      BY <2>1, <3>2 DEF Poll, Enough
    <3> QED BY <3>1, <3>2
  <2>2. CASE Measure
    BY <1>1, <2>2 DEF Measure, Enough
  <2>3. CASE Open
    BY <1>0, <1>1, <2>3, Numbers DEF Open, Enough
  <2>4. CASE Pop
    <3>1. filled # << >> /\ filled \in Seq(Blocks)
      BY <2>4, EnoughPops DEF Pop, PopHasGop, Inv, Types
    <3>2. Len(filled) = Len(filled') + 1 /\ Len(filled') \in Nat
      BY <1>0, <2>4, <3>1, HeadTailProperties, LenProperties DEF Pop
    <3>3. AvailMs = AvailMs' + GopMs /\ AvailMs' \in Int
      BY <3>2, OneMore, Numbers DEF AvailMs
    <3>4. pc = "pop" /\ pc' = "send" /\ crnt' = crnt
      BY <2>4 DEF Pop
    <3>5. crnt + GopMs + AvailMs' >= SegmentMs
      <4>1. crnt + AvailMs >= SegmentMs
        BY <3>4 DEF Enough
      <4>2. crnt \in Int /\ AvailMs' \in Int /\ GopMs \in Int /\ SegmentMs \in Int
        BY <1>0, <3>3, Numbers
      <4>3. AvailMs \in Int
        BY <1>0
      <4> QED BY <3>3, <4>1, <4>2, <4>3, Rest
    <3> QED BY <3>4, <3>5 DEF Enough
  <2>5. CASE SendGop
    BY <1>0, <1>1, <2>5, Numbers DEF SendGop, Enough
  <2>6. CASE FreeGop
    BY <1>0, <1>1, <2>6, Numbers DEF FreeGop, MoreToSend, Enough
  <2>7. CASE Close
    BY <2>7 DEF Close, NextSegment, Enough
  <2>8. CASE SendPlaylist
    BY <2>8 DEF SendPlaylist, NextSegment, Enough
  <2>9. CASE DeleteOld
    BY <2>9 DEF DeleteOld, NextSegment, Enough
  <2>10. CASE SendFullPlaylist
    BY <2>10 DEF SendFullPlaylist, Enough
  <2>11. CASE OpenRefused \/ Leave
    BY <2>11 DEF OpenRefused, Leave, Enough
  <2> QED BY <1>5, <2>1, <2>2, <2>3, <2>4, <2>5, <2>6, <2>7, <2>8, <2>9, <2>10, <2>11 DEF Uploader
<1>6. CASE UNCHANGED vars
  BY <1>2, <1>6 DEF vars
<1> QED BY <1>3, <1>4, <1>5, <1>6 DEF Next

LEMMA InvStep ==
  Inv /\ Waiting /\ Enough /\ [Next]_vars => (Inv /\ Waiting /\ Enough)'
<1> SUFFICES ASSUME Inv, Waiting, Enough, [Next]_vars PROVE Inv'
  BY EnoughStep, WaitingStep
<1>1. CASE UNCHANGED vars
  BY <1>1 DEF vars, ring, times, status, work, out, Inv, Types, Held
<1>2. CASE Uploader
  BY <1>2, UploaderInv, EnoughPops DEF PopHasGop
<1> QED BY <1>1, <1>2, OwnerInv, SegmenterInv DEF Next

LEMMA InvHolds == Spec => [](Inv /\ Waiting /\ Enough)
<1>1. Init => Waiting /\ Enough
  <2>1. Init => timeout \in Int
    <3>1. Init => timeout = 0
      BY DEF Init
    <3> QED BY <3>1
  <2>2. Init => running \in BOOLEAN
    BY Zenon DEF Init
  <2>3. Init => Enough
    BY DEF Init, Enough
  <2> QED BY <2>1, <2>2, <2>3 DEF Waiting
<1> QED BY <1>1, InvInit, InvStep, PTL DEF Spec

(* Process never pops an empty list, although it does not look: whatever   *)
(* the durations of GOPs and segments are, and whatever fails.             *)
THEOREM AlwaysGopToPop == Spec => []PopHasGop
<1> QED BY EnoughPops, InvHolds, PTL

(* After Stop has removed the publisher no GOP reaches it.                 *)
THEOREM NothingAfterStop == Spec => NoGopAfterStop
<1>1. Inv /\ [Next]_vars =>
        [(ctl \in {"clear", "mark", "stopped"}) => UNCHANGED <<inTime, lostTime, nWr>>]_vars
  <2> SUFFICES ASSUME Inv, Next, ctl \in {"clear", "mark", "stopped"}
               PROVE  UNCHANGED <<inTime, lostTime, nWr>>
    OBVIOUS
  <2>1. ~Segmenter
    BY DEF Segmenter, Publish, Receive, Attached, Inv, Held
  <2>2. CASE Owner
    BY <2>2 DEF Owner, AddPublisher, Run, RemovePublisher, ClearRunState, MarkStopped, ring, times
  <2>3. CASE Uploader
    BY <2>3 DEF Uploader, Poll, Measure, Open, Pop, SendGop, FreeGop, Close, SendPlaylist,
                OpenRefused, DeleteOld, SendFullPlaylist, Leave, ring, times
  <2> QED BY <2>1, <2>2, <2>3 DEF Next
<1> QED BY <1>1, InvHolds, PTL DEF Spec, NoGopAfterStop

-----------------------------------------------------------------------------
(* The books of the stream time balance: each GOP moves its duration from  *)
(* one account to another.                                                 *)
InHand == Len(filled) + (IF pc = "free" THEN 0 ELSE Len(taken)) + (IF pub = 0 THEN 0 ELSE 1)

LEMMA TimeStep ==
  ASSUME Inv, Enough, TimeConserved, [Next]_vars PROVE TimeConserved'
<1> USE DEF ring, times, status, work, out
<1>0. /\ Len(filled) \in Nat /\ Len(taken) \in Nat /\ InHand \in Nat
      /\ inTime \in Nat /\ outTime \in Nat /\ lostTime \in Nat
  <2>1. /\ Len(filled) \in Nat /\ Len(taken) \in Nat
        /\ inTime \in Nat /\ outTime \in Nat /\ lostTime \in Nat
    BY LenProperties DEF Inv, Types
  <2>2. (IF pc = "free" THEN 0 ELSE Len(taken)) \in Nat /\ (IF pub = 0 THEN 0 ELSE 1) \in Nat
    BY <2>1
  <2>3. \A a, b, c \in Nat : a + b + c \in Nat
    OBVIOUS
  <2> QED BY <2>1, <2>2, <2>3 DEF InHand
<1>7. /\ TimeConserved <=> (inTime = outTime + lostTime + GopMs * InHand)
      /\ TimeConserved' <=> (inTime' = outTime' + lostTime' + GopMs * InHand')
  BY DEF TimeConserved, InHand
<1>1. ASSUME UNCHANGED <<inTime, outTime, lostTime>>, InHand' = InHand PROVE TimeConserved'
  BY <1>0, <1>1, <1>7
<1>2. CASE Owner
  <2>1. UNCHANGED <<inTime, outTime, lostTime, filled, taken, pub>> /\ (pc' = "free" <=> pc = "free")
    BY <1>2 DEF Owner, AddPublisher, Run, RemovePublisher, ClearRunState, MarkStopped, Inv, Held
  <2> QED BY <1>1, <2>1 DEF InHand
<1>3. ASSUME NEW n \in Lengths, Publish(n) PROVE TimeConserved'
  <2>0. /\ pub = 0 /\ pub' # 0 /\ inTime' = inTime + GopMs
        /\ UNCHANGED <<outTime, lostTime, filled, taken, pc>>
    BY <1>3, Numbers DEF Publish
  <2>1. InHand' = InHand + 1
    BY <1>0, <2>0 DEF InHand
  <2> QED BY <1>0, <2>0, <2>1, <1>7, OneMore, Numbers
<1>4. CASE Receive
  <2>1. CASE UNCHANGED filled
    <3>1. InHand = InHand' + 1 /\ InHand' \in Nat
      BY <1>0, <1>4, <2>1 DEF Receive, InHand
    <3>2. lostTime' = lostTime + GopMs /\ UNCHANGED <<inTime, outTime>>
      <4>1. filled # Append(filled, Ring!Block(pub))
        <5>1. filled \in Seq(Blocks) /\ Seq(Blocks) \subseteq Seq(Blocks \union {Ring!Block(pub)})
          BY SeqDef DEF Inv, Types
        <5>2. Len(Append(filled, Ring!Block(pub))) = Len(filled) + 1
          BY <5>1, AppendProperties
        <5> QED BY <1>0, <5>2
      <4> QED BY <1>4, <2>1, <4>1 DEF Receive, Lost
    <3> QED BY <1>0, <3>1, <3>2, <1>7, OneMore, Numbers
  <2>2. CASE ~UNCHANGED filled
    <3>1. /\ filled' = Append(filled, Ring!Block(pub)) /\ pub # 0 /\ pub' = 0
          /\ UNCHANGED <<taken, pc, inTime, outTime, lostTime>>
      BY <1>4, <2>2 DEF Receive
    <3>2. filled' \in Seq(Blocks)
      BY <1>4, SegmenterInv DEF Segmenter, Inv, Types
    <3>3. Len(filled') = Len(filled) + 1
      BY <3>1, <3>2, AppendProperties DEF Inv, Types
    <3>4. InHand' = InHand
      <4> DEFINE x == IF pc = "free" THEN 0 ELSE Len(taken)
      <4>1. x \in Nat
        BY <1>0
      <4>2. InHand = Len(filled) + x + 1 /\ InHand' = Len(filled') + x + 0
        BY <3>1 DEF InHand
      <4> HIDE DEF x
      <4>3. \A a, b \in Nat : a + b + 1 = (a + 1) + b + 0
        OBVIOUS
      <4> QED BY <1>0, <3>3, <4>1, <4>2, <4>3
    <3> QED BY <1>1, <3>1, <3>4
  <2> QED BY <2>1, <2>2
<1>5. CASE Uploader
  <2>1. CASE Pop
    <3>1. filled # << >> /\ filled \in Seq(Blocks) /\ taken = << >>
      BY <2>1, EnoughPops DEF Pop, PopHasGop, Inv, Types, Held
    <3>2. Len(filled) = Len(filled') + 1 /\ Len(filled') \in Nat /\ Len(taken') = 1 /\ Len(taken) = 0
      BY <1>0, <2>1, <3>1, SinglePop, HeadTailProperties, LenProperties DEF Pop
    <3>3. InHand' = InHand
      BY <3>2, <2>1 DEF Pop, InHand
    <3> QED BY <1>1, <2>1, <3>3 DEF Pop
  <2>2. CASE SendGop
    <3>1. Len(taken) = 1 /\ UNCHANGED <<filled, taken, pub, inTime, lostTime>> /\ pc = "send"
      BY <2>2 DEF SendGop, Inv, Held
    <3>2. CASE pc' = "free"
      <4>1. InHand = InHand' + 1 /\ InHand' \in Nat
        BY <1>0, <3>1, <3>2 DEF InHand
      <4>2. outTime' = outTime + GopMs
        BY <2>2, <3>2 DEF SendGop
      <4> QED BY <1>0, <3>1, <4>1, <4>2, <1>7, OneMore, Numbers
    <3>3. CASE pc' # "free"
      BY <1>1, <2>2, <3>1, <3>3 DEF SendGop, InHand
    <3> QED BY <3>2, <3>3
  <2>3. CASE FreeGop
    <3>1. pc = "free" /\ pc' # "free" /\ Len(taken') = 0 /\ UNCHANGED <<filled, pub, inTime, outTime, lostTime>>
      BY <2>3 DEF FreeGop
    <3> QED BY <1>1, <3>1 DEF InHand
  <2>4. CASE ~Pop /\ ~SendGop /\ ~FreeGop
    <3>1. UNCHANGED <<inTime, outTime, lostTime, filled, taken, pub>> /\ pc # "free" /\ pc' # "free"
      BY <1>5, <2>4 DEF Uploader, Poll, Measure, Open, Close, SendPlaylist, DeleteOld,
                        OpenRefused, SendFullPlaylist, Leave, NextSegment, GivesUp
    <3> QED BY <1>1, <3>1 DEF InHand
  <2> QED BY <2>1, <2>2, <2>3, <2>4
<1>6. CASE UNCHANGED vars
  BY <1>1, <1>6 DEF vars, InHand
<1> QED BY <1>2, <1>3, <1>4, <1>5, <1>6 DEF Next, Segmenter

(* Every GOP that came in is uploaded, counted as lost, or still in hand,  *)
(* for every duration of GOPs and whatever fails.                          *)
THEOREM BooksBalance == Spec => []TimeConserved
<1>1. Init => TimeConserved
  <2>1. GopMs * 0 = 0
    BY Numbers
  <2> QED BY <2>1, EmptySeq DEF Init, TimeConserved
<1>2. (Inv /\ Enough /\ TimeConserved) /\ [Next]_vars => TimeConserved'
  BY TimeStep
<1> QED BY <1>1, <1>2, InvHolds, PTL DEF Spec

-----------------------------------------------------------------------------
(* The publisher drives the ring as GopCircBuff expects.                   *)

LEMMA AppendToConcat ==
  ASSUME NEW S, NEW s \in Seq(S), NEW t \in Seq(S), NEW e \in S
  PROVE  s \o Append(t, e) = Append(s \o t, e)
<1> DEFINE l == s \o Append(t, e)
           r == Append(s \o t, e)
<1>1. /\ Append(t, e) \in Seq(S) /\ Len(Append(t, e)) = Len(t) + 1
      /\ \A i \in 1 .. Len(t) : Append(t, e)[i] = t[i]
      /\ Append(t, e)[Len(t) + 1] = e
  BY AppendProperties
<1>2. /\ s \o t \in Seq(S) /\ Len(s \o t) = Len(s) + Len(t)
      /\ \A i \in 1 .. Len(s) + Len(t) :
           (s \o t)[i] = IF i <= Len(s) THEN s[i] ELSE t[i - Len(s)]
  BY ConcatProperties
<1>3. /\ l \in Seq(S) /\ Len(l) = Len(s) + Len(Append(t, e))
      /\ \A i \in 1 .. Len(s) + Len(Append(t, e)) :
           l[i] = IF i <= Len(s) THEN s[i] ELSE Append(t, e)[i - Len(s)]
  BY <1>1, ConcatProperties
<1>4. /\ r \in Seq(S) /\ Len(r) = Len(s \o t) + 1
      /\ \A i \in 1 .. Len(s \o t) : r[i] = (s \o t)[i]
      /\ r[Len(s \o t) + 1] = e
  BY <1>2, AppendProperties
<1>5. Len(s) \in Nat /\ Len(t) \in Nat
  BY LenProperties
<1> HIDE DEF l, r
<1>6. Len(l) = Len(r) /\ Len(l) = Len(s) + Len(t) + 1
  BY <1>1, <1>2, <1>3, <1>4, <1>5
<1>7. ASSUME NEW i \in 1 .. Len(l) PROVE l[i] = r[i]
  <2>1. CASE i <= Len(s)
    <3>1. i \in 1 .. Len(s) + Len(t) /\ i \in 1 .. Len(s) + (Len(t) + 1)
      BY <1>5, <2>1
    <3>2. l[i] = s[i]
      BY <1>1, <1>3, <2>1, <3>1
    <3>3. r[i] = (s \o t)[i]
      BY <1>2, <1>4, <3>1
    <3> QED BY <1>2, <2>1, <3>1, <3>2, <3>3
  <2>2. CASE Len(s) < i /\ i <= Len(s) + Len(t)
    <3>1. i - Len(s) \in 1 .. Len(t) /\ i \in 1 .. Len(s) + Len(t) /\ ~(i <= Len(s))
      BY <1>5, <2>2
    <3>2. l[i] = t[i - Len(s)]
      BY <1>1, <1>3, <1>5, <1>6, <3>1
    <3> QED BY <1>2, <1>4, <3>1, <3>2
  <2>3. CASE i = Len(s) + Len(t) + 1
    <3>0. \A a, b \in Nat : /\ (a + b + 1) - a = b + 1 /\ ~(a + b + 1 <= a)
                             /\ a + b + 1 \in 1 .. a + (b + 1)
      OBVIOUS
    <3>1. i - Len(s) = Len(t) + 1 /\ ~(i <= Len(s)) /\ i \in 1 .. Len(s) + Len(Append(t, e))
      BY <1>1, <1>5, <2>3, <3>0
    <3>2. l[i] = e
      BY <1>1, <1>3, <3>1
    <3> QED BY <1>2, <1>4, <2>3, <3>2
  <2> QED BY <1>5, <1>6, <2>1, <2>2, <2>3
<1>8. l = r
  BY <1>3, <1>4, <1>6, <1>7, SeqEqual
<1> QED BY <1>8 DEF l, r

LEMMA PutBack ==
  ASSUME NEW S, NEW g \in S, NEW s \in Seq(S)
  PROVE  /\ <<g>> \o s # << >> /\ Head(<<g>> \o s) = g /\ Tail(<<g>> \o s) = s
<1> DEFINE c == <<g>> \o s
<1>1. <<g>> \in Seq(S) /\ Len(<<g>>) = 1 /\ <<g>>[1] = g /\ Len(s) \in Nat
  BY LenProperties
<1>2. /\ c \in Seq(S) /\ Len(c) = 1 + Len(s)
      /\ \A i \in 1 .. 1 + Len(s) : c[i] = IF i <= 1 THEN <<g>>[i] ELSE s[i - 1]
  BY <1>1, ConcatProperties
<1> HIDE DEF c
<1>3. c # << >>
  BY <1>1, <1>2, EmptySeq
<1>4. /\ Head(c) = c[1] /\ Tail(c) \in Seq(S) /\ Len(Tail(c)) = Len(c) - 1
      /\ \A i \in 1 .. Len(Tail(c)) : Tail(c)[i] = c[i + 1]
  BY <1>2, <1>3, HeadTailProperties
<1>5. Len(Tail(c)) = Len(s)
  BY <1>1, <1>2, <1>4
<1>6. ASSUME NEW i \in 1 .. Len(s) PROVE Tail(c)[i] = s[i]
  <2>1. i + 1 \in 1 .. 1 + Len(s) /\ ~(i + 1 <= 1) /\ (i + 1) - 1 = i
    BY <1>1
  <2> QED BY <1>2, <1>4, <1>5, <2>1
<1>7. Tail(c) = s
  BY <1>4, <1>5, <1>6, SeqEqual
<1>8. c[1] = g
  BY <1>1, <1>2
<1> QED BY <1>3, <1>4, <1>7, <1>8 DEF c

LEMMA RingStep ==
  ASSUME Inv, Enough, [Next]_vars PROVE [Ring!Next]_(Ring!vars)
<1> USE DEF ring, times, status, work, out
<1>0. filled \in Seq(Blocks) /\ taken \in Seq(Blocks) /\ << >> \in Seq(Blocks)
  BY EmptySeq DEF Inv, Types
<1>1. ASSUME UNCHANGED <<nRd, nWr, filled, taken>> PROVE UNCHANGED Ring!vars
  BY <1>1 DEF Ring!vars
<1>2. CASE Owner
  BY <1>1, <1>2 DEF Owner, AddPublisher, Run, RemovePublisher, ClearRunState, MarkStopped
<1>3. ASSUME NEW n \in Lengths, Publish(n) PROVE UNCHANGED Ring!vars
  BY <1>1, <1>3 DEF Publish
<1>4. CASE Receive /\ Ring!CanAlloc(pub)
  <2>1. /\ filled' = Append(filled, Ring!Block(pub)) /\ nWr' = Ring!AllocPos(pub) + pub
        /\ UNCHANGED <<nRd, taken>> /\ pub \in Lengths
    BY <1>4 DEF Receive, Inv, Types
  <2>2. Ring!Block(pub) \in Blocks
    <3>1. \A n \in Lengths : n \in Int
      BY Numbers
    <3>2. Ring!AllocPos(pub) \in Int
      BY Numbers DEF Inv, Types, Ring!AllocPos, Ring!NULL
    <3> QED BY <2>1, <3>2 DEF Ring!Block, Blocks
  <2>3. taken \o Append(filled, Ring!Block(pub)) = Append(taken \o filled, Ring!Block(pub))
    BY <1>0, <2>2, AppendToConcat
  <2>4. Ring!Alloc(pub)
    BY <1>4, <2>1, <2>3 DEF Ring!Alloc
  <2> QED BY <2>1, <2>4 DEF Ring!Next
<1>5. CASE Receive /\ ~Ring!CanAlloc(pub)
  BY <1>1, <1>5 DEF Receive
<1>6. CASE Pop
  <2>1. taken = << >> /\ filled # << >>
    BY <1>6, EnoughPops DEF Pop, PopHasGop, Inv, Held
  <2>2. taken \o filled = filled /\ taken' \o filled' = filled
    BY <1>0, <1>6, <2>1, SinglePop, ConcatEmptySeq DEF Pop
  <2>3. UNCHANGED Ring!vars
    BY <1>6, <2>2 DEF Pop, Ring!vars
  <2> QED BY <2>3
<1>7. CASE FreeGop
  <2> DEFINE g == taken[1]
  <2>1. /\ taken' = << >> /\ UNCHANGED <<filled, nWr>> /\ nRd' = Ring!FreePos(g.len) + g.len
        /\ Len(taken) = 1
    BY <1>7 DEF FreeGop, RdAfter, Inv, Held
  <2>2. g \in Blocks
    <3>1. taken \in Seq(Blocks) /\ Len(taken) = 1
      BY <1>0, <2>1
    <3> QED BY <3>1, ElementOfSeq
  <2> HIDE DEF g
  <2>3. taken = <<g>>
    <3>1. <<g>> \in Seq(Blocks) /\ Len(<<g>>) = 1 /\ <<g>>[1] = g
      BY <2>2
    <3>2. \A i \in 1 .. 1 : taken[i] = <<g>>[i]
      BY <3>1 DEF g
    <3> QED BY <1>0, <2>1, <3>1, <3>2, SeqEqual
  <2>4. /\ taken \o filled # << >> /\ Head(taken \o filled) = g /\ Tail(taken \o filled) = filled
    BY <1>0, <2>2, <2>3, PutBack
  <2>5. taken' \o filled' = filled
    BY <1>0, <2>1, ConcatEmptySeq
  <2>6. Ring!Free
    BY <2>1, <2>4, <2>5 DEF Ring!Free
  <2> QED BY <2>6 DEF Ring!Next
<1>8. CASE Uploader /\ ~Pop /\ ~FreeGop
  <2>1. UNCHANGED <<nRd, nWr, filled, taken>>
    BY <1>8 DEF Uploader, Poll, Measure, Open, SendGop, Close, SendPlaylist, DeleteOld,
                OpenRefused, SendFullPlaylist, Leave
  <2> QED BY <1>1, <2>1
<1>9. CASE UNCHANGED vars
  BY <1>1, <1>9 DEF vars
<1> QED BY <1>2, <1>3, <1>4, <1>5, <1>6, <1>7, <1>8, <1>9 DEF Next, Segmenter

(* The publisher implements the ring's specification: it allocates from    *)
(* one thread and frees, in the order of allocation, from the other.       *)
THEOREM RingUsedRight == Spec => RingSpec
<1>1. Init => Ring!Init
  BY EmptySeq, ConcatEmptySeq DEF Init, Ring!Init
<1> QED BY <1>1, RingStep, InvHolds, PTL DEF Spec, RingSpec, Ring!Spec

RingTheorems == INSTANCE GopCircBuff_proofs WITH live <- taken \o filled

(* In the publisher, as in the ring alone, a GOP that is being sent is not *)
(* overwritten by one that arrives, and Free finds what it expects.        *)
THEOREM NoGopOverwritten == Spec => [](Ring!NoOverlap /\ Ring!FreeAssert)
<1>1. /\ Ring!Init => RingTheorems!Init
      /\ [Ring!Next]_(Ring!vars) => [RingTheorems!Next]_(RingTheorems!vars)
  BY DEF Ring!Init, RingTheorems!Init, Ring!Next, RingTheorems!Next, Ring!vars, RingTheorems!vars,
         Ring!Alloc, RingTheorems!Alloc, Ring!Free, RingTheorems!Free,
         Ring!CanAlloc, RingTheorems!CanAlloc, Ring!AllocPos, RingTheorems!AllocPos,
         Ring!Block, RingTheorems!Block, Ring!FreePos, RingTheorems!FreePos,
         Ring!FitsAtTail, RingTheorems!FitsAtTail, Ring!NULL, RingTheorems!NULL
<1>2. /\ RingTheorems!NoOverlap => Ring!NoOverlap
      /\ RingTheorems!FreeAssert => Ring!FreeAssert
  BY DEF Ring!NoOverlap, RingTheorems!NoOverlap, Ring!FreeAssert, RingTheorems!FreeAssert,
         Ring!EndOf, RingTheorems!EndOf, Ring!FreePos, RingTheorems!FreePos,
         Ring!FitsAtTail, RingTheorems!FitsAtTail
<1>3. RingTheorems!RingAssumption
  BY Ring!RingAssumption DEF Ring!RingAssumption, RingTheorems!RingAssumption
<1>4. RingTheorems!Spec => [](RingTheorems!NoOverlap /\ RingTheorems!FreeAssert)
  BY <1>3, RingTheorems!GopsDoNotOverlap, RingTheorems!FreeAssertHolds, PTL
<1> QED BY <1>1, <1>2, <1>4, RingUsedRight, PTL DEF RingSpec, Ring!Spec, RingTheorems!Spec

-----------------------------------------------------------------------------
(* What is on the sink.  FailuresSeen: what goes wrong with a segment is    *)
(* seen by Process, as with a sink that returns JD_ERROR; over the two     *)
(* sinks there are, only the failures they do not report are excluded.     *)

FailuresSeen ==
  \/ Sink = "Base"
  \/ /\ "Continue" \notin Faults /\ "End" \notin Faults
     /\ Sink = "Disc" => "Start" \notin Faults

(* the last segment complete, and the last for which a playlist was sent *)
Last == IF pc \in {"playlist", "delete"} THEN segment ELSE segment - 1
Announced == IF pc = "delete" THEN segment ELSE segment - 1

(* The segments from four before the one under way on are stored, of a     *)
(* recording all; of a live-only upload no older ones, but for the first.  *)
OnSink ==
  /\ pc \in {"pop", "send", "free", "close"} => whole
  /\ \A i \in 0..Last : (LiveOnly => i >= segment - 4) => i \in stored
  /\ pc = "delete" => LiveOnly

NotMore ==
  /\ \A i \in stored : i \in Nat /\ i <= Last
  /\ (LiveOnly /\ "Delete" \notin Faults) => \A i \in stored : i = 0 \/ i >= segment - 4
  /\ pc \in {"playlist", "delete"} => segment >= PlaylistLen
  /\ pc = "delete" => segment > PlaylistLen + 1

(* The playlist on the sink is as many segments old as playlists failed. *)
Window ==
  /\ (~playlist.ended /\ playlist.count # 0) =>
       /\ playlist.count = PlaylistLen
       /\ 1 <= playlist.first
       /\ playlist.first + 2 <= Announced
       /\ playlist.first + 2 + missed >= Announced
  /\ playlist.ended =>
       /\ pc \in {"leave", "exit", "crash"} /\ ~LiveOnly
       /\ playlist = FullPlaylist

LEMMA SinkFacts ==
  /\ \A ok \in BOOLEAN : StartResult(ok) # JD_ERROR /\ ok \in Outcome("Start") /\ FailuresSeen => ok
  /\ \A ok \in BOOLEAN : ContinueResult(ok) # JD_ERROR /\ ok \in Outcome("Continue") /\ FailuresSeen => ok
  /\ \A ok \in BOOLEAN : EndResult(ok) # JD_ERROR /\ ok \in Outcome("End") /\ FailuresSeen => ok
  /\ \A call : Outcome(call) \subseteq BOOLEAN
<1>1. Sink \in {"S3", "Disc", "Base"}
  BY PublishAssumption DEF PublishAssumption, Sinks
<1>2. /\ JD_ERROR # 0 /\ JD_ERROR # 1 /\ JD_ERROR # -1
  BY DEF JD_ERROR
<1>3. \A call : Outcome(call) \subseteq BOOLEAN /\ (call \notin Faults => Outcome(call) = {TRUE})
  BY DEF Outcome
<1>4. ASSUME NEW ok \in BOOLEAN, StartResult(ok) # JD_ERROR, ok \in Outcome("Start"), FailuresSeen
      PROVE ok
  BY <1>1, <1>3, <1>4 DEF StartResult, FailuresSeen
<1>5. ASSUME NEW ok \in BOOLEAN, ContinueResult(ok) # JD_ERROR, ok \in Outcome("Continue"), FailuresSeen
      PROVE ok
  BY <1>1, <1>3, <1>5 DEF ContinueResult, FailuresSeen
<1>6. ASSUME NEW ok \in BOOLEAN, EndResult(ok) # JD_ERROR, ok \in Outcome("End"), FailuresSeen
      PROVE ok
  BY <1>1, <1>3, <1>6 DEF EndResult, FailuresSeen
<1> QED BY <1>3, <1>4, <1>5, <1>6

Sending == {"pop", "send", "free", "close"}
Ending == {"leave", "exit", "crash"}

(* the steps between the transfers of two segments or playlists *)
LEMMA SinkQuiet ==
  ASSUME Inv, UNCHANGED <<stored, segment, playlist, missed, whole>>,
         pc' = pc \/ (pc \notin {"playlist", "delete"} /\ pc' \notin {"playlist", "delete"}),
         pc' \in Sending => pc \in Sending,
         pc \in Ending => pc' \in Ending
  PROVE  /\ OnSink => OnSink'
         /\ NotMore => NotMore'
         /\ Window => Window'
<1>1. Last' = Last /\ Announced' = Announced
  BY DEF Last, Announced
<1>2. OnSink => OnSink'
  BY <1>1 DEF OnSink, Sending
<1>3. NotMore => NotMore'
  BY <1>1 DEF NotMore
<1>4. Window => Window'
  BY <1>1 DEF Window, FullPlaylist, Ending
<1> QED BY <1>2, <1>3, <1>4

LEMMA ControlQuiet ==
  ASSUME Inv, Waiting, [Next]_vars,
         ~Open, ~SendGop, ~Close, ~SendPlaylist, ~DeleteOld, ~SendFullPlaylist
  PROVE  /\ UNCHANGED <<stored, segment, playlist, missed, whole>>
         /\ pc' = pc \/ (pc \notin {"playlist", "delete"} /\ pc' \notin {"playlist", "delete"})
         /\ pc' \in Sending => pc \in Sending
         /\ pc \in Ending => pc' \in Ending
<1> USE DEF ring, times, status, work, out, Sending, Ending
<1>1. CASE Owner
  BY <1>1 DEF Owner, AddPublisher, Run, RemovePublisher, ClearRunState, MarkStopped, Inv, Held
<1>2. CASE Segmenter
  BY <1>2 DEF Segmenter, Publish, Receive
<1>3. CASE Poll \/ Measure \/ OpenRefused \/ Pop \/ FreeGop \/ Leave
  BY <1>3 DEF Poll, Measure, OpenRefused, Pop, FreeGop, Leave
<1>4. CASE UNCHANGED vars
  BY <1>4 DEF vars
<1> QED BY <1>1, <1>2, <1>3, <1>4 DEF Next, Uploader

LEMMA OpenOrSend ==
  ASSUME Open \/ SendGop
  PROVE  /\ UNCHANGED <<stored, segment, playlist, missed>>
         /\ pc \in {"open", "send"} /\ pc' \in {"pop", "free", "leave"}
<1> USE DEF ring, times, status, work, out
<1> QED BY DEF Open, SendGop

LEMMA CloseFacts ==
  ASSUME Inv, Close
  PROVE  /\ pc = "close" /\ UNCHANGED <<playlist, missed, whole>>
         /\ \/ stored' = stored
            \/ stored' = stored \union {segment} /\ whole
         /\ \/ pc' = "leave" /\ UNCHANGED segment
            \/ pc' = "playlist" /\ UNCHANGED segment /\ segment >= PlaylistLen
            \/ pc' = "poll" /\ segment' = segment + 1 /\ segment < PlaylistLen
         /\ pc' = "leave" => stored' = stored
         /\ (FailuresSeen /\ whole /\ pc' # "leave") => stored' = stored \union {segment}
<1>1. segment \in Nat /\ PlaylistLen = 3
  BY DEF Inv, Types, PlaylistLen
<1>2. PICK ok \in Outcome("End") :
        /\ stored' = IF whole /\ ok THEN stored \union {segment} ELSE stored
        /\ IF EndResult(ok) = JD_ERROR
           THEN /\ error' = "FAIL"
                /\ pc' = "leave"
                /\ UNCHANGED <<timeout, segment>>
           ELSE /\ IF segment >= PlaylistLen
                   THEN pc' = "playlist" /\ UNCHANGED <<timeout, segment>>
                   ELSE NextSegment
                /\ UNCHANGED error
  BY DEF Close
<1>3. ok \in BOOLEAN
  BY SinkFacts
<1>4. (FailuresSeen /\ EndResult(ok) # JD_ERROR) => ok
  BY <1>3, SinkFacts
<1>5. pc = "close" /\ UNCHANGED <<playlist, missed, whole>>
  BY DEF Close
<1>6. \/ pc' = "leave" /\ UNCHANGED segment
      \/ pc' = "playlist" /\ UNCHANGED segment /\ segment >= PlaylistLen
      \/ pc' = "poll" /\ segment' = segment + 1 /\ segment < PlaylistLen
  BY <1>1, <1>2 DEF NextSegment
<1>7. pc' # "leave" => EndResult(ok) # JD_ERROR
  BY <1>2
<1>8. EndResult(ok) = JD_ERROR => ~ok
  <2>1. Sink \in {"S3", "Disc", "Base"}
    BY PublishAssumption DEF PublishAssumption, Sinks
  <2> QED BY <2>1 DEF EndResult, JD_ERROR, JD_OK
<1>9. pc' = "leave" => stored' = stored
  BY <1>2, <1>8 DEF NextSegment
<1> QED BY <1>2, <1>4, <1>5, <1>6, <1>7, <1>9

LEMMA SendPlaylistFacts ==
  ASSUME Inv, SendPlaylist
  PROVE  /\ pc = "playlist" /\ UNCHANGED <<stored, whole>>
         /\ \/ playlist' = BroadcastPlaylist /\ missed' = 0
            \/ playlist' = playlist /\ missed' = missed + 1 /\ "Send" \in Faults
         /\ \/ pc' = "delete" /\ UNCHANGED segment /\ LiveOnly /\ segment > PlaylistLen + 1
            \/ /\ pc' = "poll" /\ segment' = segment + 1
               /\ ~(LiveOnly /\ segment > PlaylistLen + 1)
<1> USE DEF ring, times, status, work, out
<1>1. PICK ok \in Outcome("Send") :
        IF ok THEN playlist' = BroadcastPlaylist /\ missed' = 0
              ELSE missed' = missed + 1 /\ UNCHANGED playlist
  BY DEF SendPlaylist
<1>2. ok \in BOOLEAN /\ ("Send" \notin Faults => ok)
  BY DEF Outcome
<1>3. \/ playlist' = BroadcastPlaylist /\ missed' = 0
      \/ playlist' = playlist /\ missed' = missed + 1 /\ "Send" \in Faults
  BY <1>1, <1>2
<1> QED BY <1>3 DEF SendPlaylist, DeletesOld, NextSegment

LEMMA DeleteOldFacts ==
  ASSUME Inv, DeleteOld
  PROVE  /\ pc = "delete" /\ pc' = "poll" /\ segment' = segment + 1
         /\ UNCHANGED <<playlist, missed, whole>>
         /\ \/ stored' = stored \ {segment - 4}
            \/ stored' = stored /\ "Delete" \in Faults
<1>1. PICK ok \in Outcome("Delete") :
        stored' = IF ok THEN stored \ {OldSegment} ELSE stored
  BY DEF DeleteOld
<1>2. ok \in BOOLEAN /\ ("Delete" \notin Faults => ok)
  BY DEF Outcome
<1>3. OldSegment = segment - 4
  BY DEF OldSegment, PlaylistLen, Inv, Types
<1> QED BY <1>1, <1>2, <1>3 DEF DeleteOld, NextSegment

LEMMA Later ==
  \A m, n \in Int : n >= m => \A i \in Int : i >= n - 4 => i >= m - 4
OBVIOUS

(* the segments stored, while Process sees the failures *)
LEMMA OnSinkStep ==
  ASSUME FailuresSeen, Inv, Waiting, OnSink, [Next]_vars PROVE OnSink'
<1>0. segment \in Nat /\ segment - 1 \in Int
  BY DEF Inv, Types
<1>1. CASE Open
  <2>1. PICK ok \in Outcome("Start") :
          whole' = ok /\ (IF StartResult(ok) = JD_ERROR THEN pc' = "leave" ELSE pc' = "pop")
    BY <1>1 DEF Open
  <2>2. ok \in BOOLEAN
    BY SinkFacts
  <2>3. pc' = "pop" => ok
    BY <2>1, <2>2, SinkFacts
  <2>4. pc' \in {"pop", "leave"}
    BY <2>1
  <2>5. Last' = Last /\ UNCHANGED <<segment, stored>>
    BY <1>1, OpenOrSend DEF Last
  <2> QED BY <2>1, <2>3, <2>4, <2>5 DEF OnSink
<1>2. CASE SendGop
  <2>1. PICK ok \in Outcome("Continue") :
          whole' = (whole /\ ok)
          /\ (IF ContinueResult(ok) = JD_ERROR THEN pc' = "leave" ELSE pc' = "free")
    BY <1>2 DEF SendGop
  <2>2. ok \in BOOLEAN
    BY SinkFacts
  <2>3. pc' = "free" => ok
    BY <2>1, <2>2, SinkFacts
  <2>4. pc' \in {"free", "leave"}
    BY <2>1
  <2>5. Last' = Last /\ UNCHANGED <<segment, stored>>
    BY <1>2, OpenOrSend DEF Last
  <2>6. whole
    BY <1>2 DEF SendGop, OnSink
  <2> QED BY <2>1, <2>3, <2>4, <2>5, <2>6 DEF OnSink
<1>3. CASE Close
  <2>1. whole
    BY <1>3, CloseFacts DEF OnSink
  <2>2. CASE pc' = "leave"
    <3>1. Last' = Last /\ segment' = segment /\ stored \subseteq stored'
      BY <1>3, <2>2, CloseFacts DEF Last
    <3> QED BY <2>2, <3>1 DEF OnSink
  <2>3. CASE pc' # "leave"
    <3>1. stored' = stored \union {segment} /\ Last = segment - 1 /\ Last' = segment
          /\ segment' >= segment /\ pc' \notin Sending /\ segment' \in Int
      BY <1>0, <1>3, <2>1, <2>3, CloseFacts DEF Last, Sending
    <3>2. ASSUME NEW i \in 0..Last', LiveOnly => i >= segment' - 4 PROVE i \in stored'
      <4>1. CASE i = segment
        BY <3>1, <4>1
      <4>2. CASE i # segment
        <5>1. i \in 0..Last
          BY <1>0, <3>1, <3>2, <4>2
        <5>2. ASSUME LiveOnly PROVE i >= segment - 4
          <6>1. i >= segment' - 4
            BY <3>2, <5>2
          <6>2. segment \in Int /\ segment' \in Int /\ segment' >= segment /\ i \in Int
            BY <1>0, <3>1, <3>2
          <6> QED BY <6>1, <6>2, Later
        <5> QED BY <3>1, <5>1, <5>2 DEF OnSink
      <4> QED BY <4>1, <4>2
    <3>3. pc' # "delete"
      BY <1>3, CloseFacts
    <3> QED BY <3>1, <3>2, <3>3 DEF OnSink, Sending
  <2> QED BY <2>2, <2>3
<1>4. CASE SendPlaylist
  <2>1. Last' = Last /\ segment' >= segment /\ UNCHANGED stored /\ pc' \notin Sending
        /\ segment' \in Int
    BY <1>0, <1>4, SendPlaylistFacts DEF Last, Sending
  <2>2. \A i \in Int : i >= segment' - 4 => i >= segment - 4
    <3>1. segment \in Int /\ segment' \in Int /\ segment' >= segment
      BY <1>0, <2>1
    <3> QED BY ONLY <3>1, Later, Zenon
  <2>3. 0..Last \subseteq Int /\ (pc' = "delete" => LiveOnly)
    BY <1>4, SendPlaylistFacts
  <2> QED BY <2>1, <2>2, <2>3 DEF OnSink, Sending
<1>5. CASE DeleteOld
  <2>1. Last' = segment /\ Last = segment /\ segment' = segment + 1 /\ pc' \notin Sending
    BY <1>0, <1>5, DeleteOldFacts DEF Last, Sending
  <2>2. LiveOnly /\ pc' # "delete"
    BY <1>5, DeleteOldFacts DEF OnSink
  <2>3. ASSUME NEW i \in 0..Last', LiveOnly => i >= segment' - 4 PROVE i \in stored'
    <3>1. i >= segment - 4 /\ i # segment - 4
      BY <1>0, <2>1, <2>2, <2>3
    <3>2. i \in stored
      BY <2>1, <2>3, <3>1 DEF OnSink
    <3> QED BY <1>5, <3>1, <3>2, DeleteOldFacts
  <2> QED BY <2>1, <2>2, <2>3 DEF OnSink, Sending
<1>6. CASE SendFullPlaylist
  <2>1. pc' \in {"crash", "leave"} /\ pc = "final" /\ UNCHANGED <<stored, segment, whole>>
    BY <1>6 DEF SendFullPlaylist, work
  <2> QED BY <2>1 DEF OnSink, Last
<1>7. CASE ~Open /\ ~SendGop /\ ~Close /\ ~SendPlaylist /\ ~DeleteOld /\ ~SendFullPlaylist
  BY <1>7, ControlQuiet, SinkQuiet
<1> QED BY <1>1, <1>2, <1>3, <1>4, <1>5, <1>6, <1>7

(* the segments no longer stored, while none fails to be deleted *)
LEMMA NotMoreStep ==
  ASSUME Inv, Waiting, NotMore, [Next]_vars PROVE NotMore'
<1>0. segment \in Nat /\ segment - 1 \in Int /\ PlaylistLen = 3 /\ LiveOnly \in BOOLEAN
  BY PublishAssumption DEF Inv, Types, PlaylistLen, PublishAssumption
<1>1. CASE Open \/ SendGop
  BY <1>1, OpenOrSend DEF NotMore, Last
<1>2. CASE Close
  <2>1. /\ Last = segment - 1
        /\ \A i \in stored' : i \in stored \/ i = segment
    BY <1>2, CloseFacts DEF Last
  <2>2. CASE pc' = "leave"
    <3>1. Last' = segment - 1 /\ segment' = segment /\ stored' = stored
      BY <1>2, <2>2, CloseFacts DEF Last
    <3> QED BY <2>1, <2>2, <3>1 DEF NotMore
  <2>3. CASE pc' = "playlist"
    <3>1. Last' = segment /\ segment' = segment /\ segment >= 3
      BY <1>0, <1>2, <2>3, CloseFacts DEF Last
    <3> QED BY <1>0, <2>1, <2>3, <3>1 DEF NotMore
  <2>4. CASE pc' = "poll"
    <3>1. Last' = segment /\ segment' = segment + 1 /\ segment < 3
      BY <1>0, <1>2, <2>4, CloseFacts DEF Last
    <3>2. \A i \in stored' : i \in Nat /\ i <= segment
      BY <1>0, <2>1 DEF NotMore
    <3>3. \A i \in stored' : i >= segment' - 4
      BY <1>0, <3>1, <3>2
    <3> QED BY <1>0, <2>4, <3>1, <3>2, <3>3 DEF NotMore
  <2> QED BY <1>2, <2>2, <2>3, <2>4, CloseFacts
<1>3. CASE SendPlaylist
  <2>1. Last' = segment /\ Last = segment /\ stored' = stored /\ segment >= 3
    BY <1>0, <1>3, SendPlaylistFacts DEF Last, NotMore
  <2>2. CASE pc' = "delete"
    <3>1. segment' = segment /\ segment > 4
      BY <1>0, <1>3, <2>2, SendPlaylistFacts
    <3> QED BY <1>0, <2>1, <2>2, <3>1 DEF NotMore
  <2>3. CASE pc' = "poll"
    <3>1. segment' = segment + 1 /\ (LiveOnly => segment <= 4)
      BY <1>0, <1>3, <2>3, SendPlaylistFacts
    <3>2. \A i \in stored' : i \in Nat /\ i <= segment
      BY <2>1 DEF NotMore
    <3>3. LiveOnly => \A i \in stored' : i = 0 \/ i >= segment' - 4
      BY <1>0, <3>1, <3>2
    <3> QED BY <1>0, <2>1, <2>3, <3>2, <3>3 DEF NotMore
  <2> QED BY <1>3, <2>2, <2>3, SendPlaylistFacts
<1>4. CASE DeleteOld
  <2>1. Last' = segment /\ Last = segment /\ segment' = segment + 1 /\ pc' = "poll"
    BY <1>0, <1>4, DeleteOldFacts DEF Last
  <2>2. /\ \A i \in stored' : i \in stored
        /\ "Delete" \notin Faults => \A i \in stored' : i # segment - 4
    BY <1>4, DeleteOldFacts
  <2>3. \A i \in stored' : i \in Nat /\ i <= segment
    BY <2>1, <2>2 DEF NotMore
  <2>4. (LiveOnly /\ "Delete" \notin Faults) => \A i \in stored' : i = 0 \/ i >= segment' - 4
    <3>1. SUFFICES ASSUME LiveOnly, "Delete" \notin Faults, NEW i \in stored', i # 0
                   PROVE  i >= segment' - 4
      OBVIOUS
    <3>2. i >= segment - 4 /\ i # segment - 4 /\ i \in Nat
      BY <2>2, <2>3, <3>1 DEF NotMore
    <3> QED BY <1>0, <2>1, <3>2
  <2> QED BY <2>1, <2>3, <2>4 DEF NotMore
<1>5. CASE SendFullPlaylist
  <2>1. pc' \in {"crash", "leave"} /\ pc = "final" /\ UNCHANGED <<stored, segment>>
    BY <1>5 DEF SendFullPlaylist, work
  <2> QED BY <2>1 DEF NotMore, Last
<1>6. CASE ~Open /\ ~SendGop /\ ~Close /\ ~SendPlaylist /\ ~DeleteOld /\ ~SendFullPlaylist
  BY <1>6, ControlQuiet, SinkQuiet
<1> QED BY <1>1, <1>2, <1>3, <1>4, <1>5, <1>6

LEMMA Moved ==
  \A f, m, a \in Int :
    /\ f + 2 <= a => f + 2 <= a + 1
    /\ f + 2 + m >= a => f + 2 + (m + 1) >= a + 1 /\ f + 2 + (m + 1) >= a
OBVIOUS

(* how far the playlist on the sink is behind *)
LEMMA WindowStep ==
  ASSUME Inv, Waiting, NotMore, Window, [Next]_vars PROVE Window'
<1>0. /\ segment \in Nat /\ segment - 1 \in Int /\ PlaylistLen = 3 /\ missed \in Nat
      /\ playlist \in [first : Int, count : Int, ended : BOOLEAN]
  BY DEF Inv, Types, PlaylistLen
<1>1. CASE Open \/ SendGop
  <2>1. UNCHANGED <<segment, playlist, missed>> /\ Announced' = Announced /\ pc \notin Ending
    BY <1>1, OpenOrSend DEF Announced, Ending
  <2> QED BY <2>1 DEF Window, Ending
<1>2. CASE Close
  <2>1. playlist' = playlist /\ missed' = missed /\ pc \notin Ending /\ ~playlist.ended
        /\ Announced = segment - 1
    BY <1>0, <1>2, CloseFacts DEF Window, Ending, Announced
  <2>2. CASE pc' # "poll"
    <3>1. Announced' = Announced
      BY <1>2, <2>1, <2>2, CloseFacts DEF Announced
    <3> QED BY <2>1, <3>1 DEF Window
  <2>3. CASE pc' = "poll"
    <3>1. segment < 3
      BY <1>0, <1>2, <2>3, CloseFacts
    <3>2. playlist.count = 0
      BY <1>0, <2>1, <3>1 DEF Window
    <3> QED BY <2>1, <3>2 DEF Window
  <2> QED BY <2>2, <2>3
<1>3. CASE SendPlaylist
  <2>1. segment >= 3 /\ ~playlist.ended /\ Announced = segment - 1 /\ Announced' = segment
    BY <1>0, <1>3, SendPlaylistFacts DEF NotMore, Window, Announced
  <2>2. CASE playlist' = BroadcastPlaylist /\ missed' = 0
    <3>1. playlist'.first = segment - 2 /\ playlist'.count = 3 /\ ~playlist'.ended
      BY <1>0, <2>2 DEF BroadcastPlaylist
    <3> QED BY <1>0, <2>1, <2>2, <3>1 DEF Window
  <2>3. CASE playlist' = playlist /\ missed' = missed + 1
    <3>1. playlist'.first = playlist.first /\ playlist'.count = playlist.count
          /\ ~playlist'.ended
      BY <2>1, <2>3
    <3>2. SUFFICES ASSUME playlist.count # 0
                   PROVE  /\ playlist.count = PlaylistLen
                          /\ 1 <= playlist.first
                          /\ playlist.first + 2 <= segment
                          /\ playlist.first + 2 + (missed + 1) >= segment
      BY <1>0, <2>1, <2>3, <3>1 DEF Window
    <3>3. /\ playlist.count = PlaylistLen
          /\ 1 <= playlist.first
          /\ playlist.first + 2 <= segment - 1
          /\ playlist.first + 2 + missed >= segment - 1
      BY <2>1, <3>2 DEF Window
    <3> QED BY <1>0, <3>3
  <2> QED BY <1>3, <2>2, <2>3, SendPlaylistFacts
<1>4. CASE DeleteOld
  <2>1. playlist' = playlist /\ missed' = missed /\ ~playlist.ended
        /\ Announced' = segment /\ Announced = segment
    BY <1>0, <1>4, DeleteOldFacts DEF Window, Announced
  <2> QED BY <2>1 DEF Window
<1>5. CASE SendFullPlaylist
  <2>1. /\ pc = "final" /\ pc' \in {"leave", "crash"} /\ segment' = segment
        /\ \/ playlist' = FullPlaylist /\ ~LiveOnly
           \/ playlist' = playlist /\ missed' \in {missed, missed + 1}
    BY <1>5 DEF SendFullPlaylist, work
  <2>2. ~playlist.ended /\ Announced' = Announced /\ Announced \in Int
    BY <1>0, <2>1 DEF Window, Announced
  <2>3. CASE playlist' = FullPlaylist /\ ~LiveOnly
    <3>1. playlist'.ended /\ FullPlaylist' = FullPlaylist
      BY <2>1, <2>3 DEF FullPlaylist
    <3> QED BY <2>1, <2>3, <3>1 DEF Window
  <2>4. CASE playlist' = playlist /\ missed' \in {missed, missed + 1}
    <3>1. SUFFICES ASSUME playlist.count # 0
                   PROVE  playlist.first + 2 + missed' >= Announced
      BY <2>2, <2>4 DEF Window
    <3>2. playlist.first + 2 + missed >= Announced
      BY <2>2, <3>1 DEF Window
    <3>3. playlist.first \in Int /\ missed' >= missed /\ missed' \in Nat
      BY <1>0, <2>4
    <3> QED BY <1>0, <2>2, <3>2, <3>3
  <2> QED BY <2>1, <2>3, <2>4
<1>6. CASE ~Open /\ ~SendGop /\ ~Close /\ ~SendPlaylist /\ ~DeleteOld /\ ~SendFullPlaylist
  BY <1>6, ControlQuiet, SinkQuiet
<1> QED BY <1>1, <1>2, <1>3, <1>4, <1>5, <1>6

LEMMA SinkInit == Init => OnSink /\ NotMore /\ Window
<1> SUFFICES ASSUME Init PROVE OnSink /\ NotMore /\ Window
  OBVIOUS
<1>1. /\ pc = "none" /\ stored = {} /\ Last = -1 /\ missed = 0
      /\ ~playlist.ended /\ playlist.count = 0
  BY DEF Init, Last, NoPlaylist
<1>2. 0..Last = {}
  BY <1>1
<1> QED BY <1>1, <1>2 DEF OnSink, NotMore, Window

LEMMA NotMoreHolds == Spec => []NotMore
<1>1. Inv /\ Waiting /\ NotMore /\ [Next]_vars => NotMore'
  BY NotMoreStep
<1> QED BY <1>1, SinkInit, InvHolds, PTL DEF Spec

LEMMA WindowHolds == Spec => []Window
<1>1. Inv /\ Waiting /\ NotMore /\ Window /\ [Next]_vars => Window'
  BY WindowStep
<1> QED BY <1>1, SinkInit, InvHolds, NotMoreHolds, PTL DEF Spec

LEMMA OnSinkHolds == ASSUME FailuresSeen PROVE Spec => []OnSink
<1>1. Inv /\ Waiting /\ OnSink /\ [Next]_vars => OnSink'
  BY OnSinkStep
<1> QED BY <1>1, SinkInit, InvHolds, PTL DEF Spec

LEMMA Served == Inv /\ OnSink /\ Window => PlaylistServable /\ FinalListsAll
<1> SUFFICES ASSUME Inv, OnSink, Window PROVE PlaylistServable /\ FinalListsAll
  OBVIOUS
<1>0. /\ segment \in Nat /\ missed \in Nat /\ LiveOnly \in BOOLEAN
      /\ playlist \in [first : Int, count : Int, ended : BOOLEAN]
      /\ Announced \in Int /\ Announced <= Last /\ Announced >= segment - 1
  BY PublishAssumption DEF Inv, Types, PublishAssumption, Announced, Last
<1>1. CASE playlist.ended
  <2>1. Listed = 0 .. segment - 1 /\ Last = segment - 1 /\ ~LiveOnly
    BY <1>0, <1>1 DEF Window, FullPlaylist, Listed, Last
  <2>2. Listed \subseteq stored
    BY <2>1 DEF OnSink
  <2> QED BY <2>1, <2>2 DEF PlaylistServable, FinalListsAll
<1>2. CASE ~playlist.ended /\ playlist.count = 0
  <2>1. Listed = {}
    BY <1>0, <1>2 DEF Listed
  <2> QED BY <1>2, <2>1 DEF PlaylistServable, FinalListsAll
<1>3. CASE ~playlist.ended /\ playlist.count # 0
  <2>1. ASSUME missed <= 1, NEW i \in Listed PROVE i \in stored
    <3>1. /\ playlist.count = 3 /\ 1 <= playlist.first
          /\ playlist.first + 2 <= Announced
          /\ playlist.first + 2 + missed >= Announced
      BY <1>3 DEF Window, PlaylistLen
    <3>2. i \in Int /\ playlist.first <= i /\ i <= playlist.first + 2
      BY <1>0, <2>1, <3>1 DEF Listed
    <3>3. 0 <= i /\ i <= Announced /\ i >= segment - 4
      BY <1>0, <2>1, <3>1, <3>2
    <3>4. i \in 0..Last
      <4>1. Last \in Int
        BY <1>0 DEF Last
      <4> QED BY <1>0, <3>2, <3>3, <4>1
    <3> QED BY <3>3, <3>4 DEF OnSink
  <2> QED BY <1>3, <2>1 DEF PlaylistServable, FinalListsAll
<1> QED BY <1>0, <1>1, <1>2, <1>3

(* The segments a playlist names are on the sink in full, however many     *)
(* transfers fail and wherever the upload stops, if no two playlists in a  *)
(* row are lost.                                                           *)
THEOREM ListedAreStored == ASSUME FailuresSeen PROVE Spec => []PlaylistServable
<1>1. Inv /\ OnSink /\ Window => PlaylistServable
  BY Served
<1> QED BY <1>1, InvHolds, OnSinkHolds, WindowHolds, PTL

(* The final playlist of a recording names what was uploaded, all of it.   *)
THEOREM RecordingIsComplete == ASSUME FailuresSeen PROVE Spec => []FinalListsAll
<1>1. Inv /\ OnSink /\ Window => FinalListsAll
  BY Served
<1> QED BY <1>1, InvHolds, OnSinkHolds, WindowHolds, PTL

(* A live upload piles nothing up, while no deletion fails.                *)
THEOREM LiveStaysSmall == ASSUME "Delete" \notin Faults PROVE Spec => []RetentionBound
<1>1. Inv /\ NotMore => RetentionBound
  <2> SUFFICES ASSUME Inv, NotMore, LiveOnly, NEW i \in stored
               PROVE  i \in {0} \union (segment - 4 .. segment)
    BY DEF RetentionBound
  <2>1. i \in Nat /\ i <= Last /\ (i = 0 \/ i >= segment - 4)
    BY DEF NotMore
  <2>2. segment \in Nat /\ Last \in Int /\ Last <= segment
    BY DEF Inv, Types, Last
  <2> QED BY <2>1, <2>2
<1> QED BY <1>1, InvHolds, NotMoreHolds, PTL

-----------------------------------------------------------------------------
(* The refinement of HlsLive.  The bound on its segments is that each one   *)
(* takes a GOP at least.                                                   *)
Paid ==
  /\ outTime >= GopMs * segment
  /\ pc \in {"free", "close", "playlist", "delete"} => outTime >= GopMs * (segment + 1)
  /\ \E j \in 0 .. MaxGops : inTime = GopMs * j

Timely == "Send" \notin Faults => (pc \notin Ending => missed = 0)

LEMMA Ordered == \A a, b \in Nat : GopMs * a <= GopMs * b => a <= b
<1> SUFFICES ASSUME NEW a \in Nat, NEW b \in Nat, a > b PROVE GopMs * a > GopMs * b
  BY Numbers
<1>1. PICK d \in Nat : a = b + d + 1
  <2>1. a - b - 1 \in Nat /\ a = b + (a - b - 1) + 1
    OBVIOUS
  <2> QED BY <2>1
<1>2. GopMs * a = GopMs * b + GopMs * d + GopMs
  BY <1>1, Numbers
<1>3. GopMs * d \in Nat /\ GopMs * b \in Nat
  BY Numbers
<1> QED BY <1>2, <1>3, Numbers

LEMMA PaidInit == Init => Paid
<1>1. GopMs * 0 = 0 /\ 0 \in 0 .. MaxGops
  BY Numbers
<1> QED BY <1>1 DEF Init, Paid

LEMMA PaidQuiet ==
  ASSUME Inv, Paid, outTime' >= outTime, outTime' \in Nat, UNCHANGED <<segment, inTime>>,
         pc' \in {"free", "close", "playlist", "delete"} =>
           pc \in {"free", "close", "playlist", "delete"}
  PROVE  Paid'
<1>1. GopMs * segment \in Nat /\ GopMs * (segment + 1) \in Nat /\ outTime \in Nat
  BY Numbers DEF Inv, Types
<1> QED BY <1>1 DEF Paid

LEMMA PaidStep ==
  ASSUME Inv, Paid, [Next]_vars PROVE Paid'
<1> USE DEF ring, times, status, work, out
<1>0. /\ outTime \in Nat /\ segment \in Nat /\ GopMs \in Nat
      /\ GopMs * segment \in Nat /\ GopMs * (segment + 1) = GopMs * segment + GopMs
  BY OneMore, Numbers DEF Inv, Types
<1>1. CASE Owner
  BY <1>0, <1>1, PaidQuiet
     DEF Owner, AddPublisher, Run, RemovePublisher, ClearRunState, MarkStopped
<1>2. ASSUME NEW n \in Lengths, Publish(n) PROVE Paid'
  <2>1. PICK j \in 0 .. MaxGops : inTime = GopMs * j
    BY DEF Paid
  <2>2. inTime' = GopMs * (j + 1) /\ inTime < MaxGops * GopMs
    BY <1>2, <2>1, OneMore DEF Publish
  <2>3. j + 1 \in 0 .. MaxGops
    <3>1. GopMs * j < GopMs * MaxGops
      BY <2>1, <2>2, Numbers
    <3>2. j # MaxGops
      BY <1>0, <3>1, Numbers
    <3> QED BY <3>2, Numbers
  <2>4. UNCHANGED <<outTime, segment, pc>>
    BY <1>2 DEF Publish
  <2> QED BY <2>2, <2>3, <2>4 DEF Paid
<1>3. CASE Receive
  BY <1>0, <1>3, PaidQuiet DEF Receive
<1>4. CASE Poll \/ Measure \/ Open \/ Pop \/ FreeGop
  BY <1>0, <1>4, PaidQuiet DEF Poll, Measure, Open, Pop, FreeGop
<1>5. CASE SendGop
  <2>1. CASE pc' = "leave"
    <3>1. outTime' \in {outTime, outTime + GopMs} /\ UNCHANGED <<segment, inTime>>
      BY <1>5 DEF SendGop
    <3> QED BY <1>0, <2>1, <3>1, PaidQuiet
  <2>2. CASE pc' # "leave"
    <3>1. outTime' = outTime + GopMs /\ UNCHANGED <<segment, inTime>>
      BY <1>5, <2>2 DEF SendGop
    <3>2. outTime' >= GopMs * segment /\ outTime' >= GopMs * (segment + 1)
      BY <1>0, <3>1 DEF Paid
    <3> QED BY <3>1, <3>2 DEF Paid
  <2> QED BY <2>1, <2>2
<1>6. CASE Close \/ SendPlaylist \/ DeleteOld
  <2>1. /\ outTime' = outTime /\ inTime' = inTime /\ outTime >= GopMs * (segment + 1)
        /\ \/ segment' = segment
           \/ segment' = segment + 1 /\ pc' = "poll"
    BY <1>6 DEF Close, SendPlaylist, DeleteOld, NextSegment, Paid
  <2>2. CASE segment' = segment
    BY <1>0, <2>1, <2>2 DEF Paid
  <2>3. CASE segment' = segment + 1 /\ pc' = "poll"
    BY <2>1, <2>3 DEF Paid
  <2> QED BY <2>1, <2>2, <2>3
<1>7. CASE OpenRefused \/ SendFullPlaylist \/ Leave
  BY <1>0, <1>7, PaidQuiet DEF OpenRefused, SendFullPlaylist, Leave
<1>8. CASE UNCHANGED vars
  BY <1>0, <1>8, PaidQuiet DEF vars
<1> QED BY <1>1, <1>2, <1>3, <1>4, <1>5, <1>6, <1>7, <1>8 DEF Next, Segmenter, Uploader

LEMMA SegmentBound ==
  ASSUME Inv, TimeConserved, Paid, pc = "close" PROVE segment \in 0 .. MaxGops
<1>1. /\ inTime \in Nat /\ outTime \in Nat /\ lostTime \in Nat /\ segment \in Nat
      /\ Len(filled) \in Nat /\ Len(taken) \in Nat
  BY LenProperties DEF Inv, Types
<1>2. PICK h \in Nat : inTime = outTime + lostTime + GopMs * h
  <2>1. InHand \in Nat
    BY <1>1 DEF InHand
  <2>2. inTime = outTime + lostTime + GopMs * InHand
    BY DEF TimeConserved, InHand
  <2> QED BY <2>1, <2>2
<1>3. GopMs * h \in Nat /\ GopMs * (segment + 1) \in Nat /\ outTime >= GopMs * (segment + 1)
  BY <1>1, Numbers DEF Paid
<1>4. PICK j \in 0 .. MaxGops : inTime = GopMs * j
  BY DEF Paid
<1>5. GopMs * (segment + 1) <= GopMs * j
  BY <1>1, <1>2, <1>3, <1>4
<1>6. segment + 1 <= j
  BY <1>1, <1>5, Ordered, Numbers
<1> QED BY <1>1, <1>6, Numbers

LEMMA TimelyStep == ASSUME Inv, Timely, [Next]_vars PROVE Timely'
<1> USE DEF ring, times, status, work, out, Ending
<1>1. CASE SendPlaylist
  BY <1>1, SendPlaylistFacts DEF Timely
<1>2. CASE SendFullPlaylist
  BY <1>2 DEF SendFullPlaylist, Timely
<1>3. CASE ~SendPlaylist /\ ~SendFullPlaylist
  <2>1. missed' = missed /\ (pc' \notin Ending => pc \notin Ending)
    <3>1. CASE Owner
      BY <3>1 DEF Owner, AddPublisher, Run, RemovePublisher, ClearRunState, MarkStopped,
                  Inv, Held
    <3>2. CASE Segmenter
      BY <3>2 DEF Segmenter, Publish, Receive
    <3>3. CASE Uploader
      BY <1>3, <3>3 DEF Uploader, Poll, Measure, Open, Pop, SendGop, FreeGop, Close, DeleteOld,
                        OpenRefused, Leave, NextSegment
    <3>4. CASE UNCHANGED vars
      BY <3>4 DEF vars
    <3> QED BY <3>1, <3>2, <3>3, <3>4 DEF Next
  <2> QED BY <2>1 DEF Timely
<1> QED BY <1>1, <1>2, <1>3

LEMMA NewestIs ==
  ASSUME NEW S, NEW n \in S, S \subseteq Int, \A t \in S : t <= n
  PROVE  (CHOOSE s \in S : \A t \in S : t <= s) = n
<1> DEFINE c == CHOOSE s \in S : \A t \in S : t <= s
<1>1. c \in S /\ \A t \in S : t <= c
  OBVIOUS
<1> HIDE DEF c
<1>2. c <= n /\ n <= c /\ c \in Int /\ n \in Int
  BY <1>1
<1>3. c = n
  BY <1>2
<1> QED BY <1>3 DEF c

(* a playlist of what is stored, up to the newest *)
LEMMA Lists ==
  ASSUME Inv, NEW first \in stored, NEW last \in stored,
         first .. last \subseteq stored, \A t \in stored : t <= last,
         stored' = stored, Listed' = first .. last
  PROVE  Live!Next
<1>1. stored \subseteq Int
  BY DEF Inv, Types
<1>2. Live!Newest = last
  BY <1>1, NewestIs DEF Live!Newest
<1>3. Live!List
  BY <1>2 DEF Live!List
<1> QED BY <1>3 DEF Live!Next

LiveInv == Inv /\ OnSink /\ NotMore /\ Window /\ Timely /\ TimeConserved /\ Paid

LEMMA LiveStep ==
  ASSUME FailuresSeen, "Send" \notin Faults, LiveInv, Waiting, [Next]_vars
  PROVE  [Live!Next]_<<stored, Listed>>
<1> USE DEF LiveInv
<1>0. /\ segment \in Nat /\ PlaylistLen = 3 /\ LiveOnly \in BOOLEAN
      /\ playlist \in [first : Int, count : Int, ended : BOOLEAN]
  BY PublishAssumption DEF Inv, Types, PlaylistLen, PublishAssumption
<1>1. ASSUME UNCHANGED <<stored, playlist>> PROVE UNCHANGED <<stored, Listed>>
  BY <1>1 DEF Listed
<1>2. CASE Open \/ SendGop
  BY <1>1, <1>2, OpenOrSend
<1>3. CASE Close
  <2>1. CASE stored' = stored
    BY <1>1, <1>3, <2>1, CloseFacts
  <2>2. CASE stored' = stored \union {segment}
    <3>1. segment \in 0 .. MaxGops
      BY <1>3, CloseFacts, SegmentBound
    <3>2. \A t \in stored : t < segment
      <4>1. Last = segment - 1
        BY <1>3, CloseFacts DEF Last
      <4> QED BY <1>0, <4>1 DEF NotMore
    <3>3. Listed' = Listed
      BY <1>3, CloseFacts DEF Listed
    <3>4. Live!Store
      BY <2>2, <3>1, <3>2, <3>3 DEF Live!Store
    <3> QED BY <3>4 DEF Live!Next
  <2> QED BY <1>3, <2>1, <2>2, CloseFacts
<1>4. CASE SendPlaylist
  <2>1. /\ playlist' = BroadcastPlaylist /\ stored' = stored /\ Last = segment /\ segment >= 3
    BY <1>0, <1>4, SendPlaylistFacts DEF NotMore, Last
  <2>2. playlist'.first = segment - 2 /\ playlist'.count = 3
    BY <1>0, <2>1 DEF BroadcastPlaylist
  <2>3. Listed' = segment - 2 .. segment
    BY <1>0, <2>2 DEF Listed
  <2>4. segment - 2 .. segment \subseteq stored
    <3>1. SUFFICES ASSUME NEW i \in segment - 2 .. segment PROVE i \in stored
      OBVIOUS
    <3>2. i \in 0 .. Last /\ i >= segment - 4
      BY <1>0, <2>1
    <3> QED BY <3>2 DEF OnSink
  <2>5. \A t \in stored : t <= segment
    BY <2>1 DEF NotMore
  <2>6. segment - 2 \in stored /\ segment \in stored
    BY <1>0, <2>4
  <2>7. Live!Next
    BY <2>1, <2>3, <2>4, <2>5, <2>6, Lists
  <2> QED BY <2>7
<1>5. CASE DeleteOld
  <2>1. CASE stored' = stored
    BY <1>1, <1>5, <2>1, DeleteOldFacts
  <2>2. CASE stored' = stored \ {segment - 4} /\ segment - 4 \in stored
    <3>1. Listed' = Listed
      BY <1>5, DeleteOldFacts DEF Listed
    <3>2. segment - 4 \notin Listed
      <4>1. missed = 0 /\ ~playlist.ended /\ Announced = segment
        BY <1>5, DeleteOldFacts DEF Timely, Ending, Window, Announced
      <4>2. CASE playlist.count = 0
        BY <1>0, <4>2 DEF Listed
      <4>3. CASE playlist.count # 0
        <5>1. playlist.first + 2 + missed >= segment
          BY <4>1, <4>3 DEF Window
        <5>2. playlist.first + 2 >= segment
          BY <1>0, <4>1, <5>1
        <5> QED BY <1>0, <5>2 DEF Listed
      <4> QED BY <4>2, <4>3
    <3>3. Live!Delete
      BY <2>2, <3>1, <3>2 DEF Live!Delete
    <3> QED BY <3>3 DEF Live!Next
  <2> QED BY <1>5, <2>1, <2>2, DeleteOldFacts
<1>6. CASE SendFullPlaylist
  <2>1. CASE playlist' = playlist
    <3>1. stored' = stored
      BY <1>6 DEF SendFullPlaylist
    <3> QED BY <1>1, <2>1, <3>1
  <2>2. CASE playlist' # playlist
    <3>1. /\ pc = "final" /\ segment > 0 /\ ~LiveOnly /\ playlist' = FullPlaylist
          /\ stored' = stored
      BY <1>6, <2>2 DEF SendFullPlaylist
    <3>2. playlist'.first = 0 /\ playlist'.count = segment /\ Last = segment - 1
      BY <3>1 DEF FullPlaylist, Last
    <3>3. Listed' = 0 .. segment - 1
      BY <1>0, <3>2 DEF Listed
    <3>4. 0 .. segment - 1 \subseteq stored
      BY <3>1, <3>2 DEF OnSink
    <3>5. \A t \in stored : t <= segment - 1
      BY <3>2 DEF NotMore
    <3>6. 0 \in stored /\ segment - 1 \in stored
      BY <1>0, <3>1, <3>4
    <3>7. Live!Next
      BY <3>1, <3>3, <3>4, <3>5, <3>6, Lists
    <3> QED BY <3>7
  <2> QED BY <2>1, <2>2
<1>7. CASE ~Open /\ ~SendGop /\ ~Close /\ ~SendPlaylist /\ ~DeleteOld /\ ~SendFullPlaylist
  BY <1>1, <1>7, ControlQuiet
<1> QED BY <1>2, <1>3, <1>4, <1>5, <1>6, <1>7

(* While the playlists are sent, and what fails of a segment is seen, the  *)
(* publisher keeps the promise of HlsLive: a segment is listed after it is *)
(* stored and deleted after it is no longer listed.                        *)
THEOREM KeepsTheLivePromise ==
  ASSUME FailuresSeen, "Send" \notin Faults PROVE Spec => LiveSpec
<1>1. Init => Live!Init
  BY DEF Init, NoPlaylist, Live!Init, Listed
<1>2. Init => Timely /\ TimeConserved /\ Paid
  <2>1. Init => Timely
    BY DEF Init, Timely
  <2>2. Init => TimeConserved
    <3>1. GopMs * 0 = 0
      BY Numbers
    <3> QED BY <3>1, EmptySeq DEF Init, TimeConserved
  <2> QED BY <2>1, <2>2, PaidInit
<1>3. Inv /\ Timely /\ [Next]_vars => Timely'
  BY TimelyStep
<1>4. Inv /\ Paid /\ [Next]_vars => Paid'
  BY PaidStep
<1>5. /\ Inv /\ OnSink /\ NotMore /\ Window /\ Timely /\ TimeConserved /\ Paid /\ Waiting
      /\ [Next]_vars
      => [Live!Next]_<<stored, Listed>>
  BY LiveStep DEF LiveInv
<1>6. Spec => []TimeConserved
  BY BooksBalance
<1> QED BY <1>1, <1>2, <1>3, <1>4, <1>5, <1>6, InvHolds, OnSinkHolds, NotMoreHolds,
           WindowHolds, PTL DEF Spec, LiveSpec, Live!Spec

-----------------------------------------------------------------------------
(***************************************************************************)
(* Sums.  SumFunctionOnSet adds the members of a set one by one in an      *)
(* order of its own; that the order does not matter is an induction over   *)
(* the size of the set, here over sets of numbers.                         *)
(***************************************************************************)
Below == {p \in Nat \X Nat : p[1] < p[2]}

(* A set with 0 and every successor holds all numbers.                     *)
LEMMA AllNumbers ==
  ASSUME NEW T \in SUBSET Nat, 0 \in T, \A n \in T : n + 1 \in T
  PROVE  \A n \in Nat : n \in T
<1> SUFFICES ASSUME Nat \ T # {} PROVE FALSE
  OBVIOUS
<1>1. IsWellFoundedOn(Below, Nat)
  BY NatLessThanWellFounded DEF OpToRel, Below
<1>2. PICK x \in Nat \ T : \A y \in Nat \ T : ~(<<y, x>> \in Below)
  BY <1>1, WFMin, Zenon
<1>3. x # 0 /\ x \in Nat
  BY <1>2
<1>4. x - 1 \in Nat /\ (x - 1) + 1 = x /\ <<x - 1, x>> \in Below
  BY <1>3 DEF Below
<1>5. x - 1 \in T
  BY <1>2, <1>4
<1> QED BY <1>2, <1>4, <1>5

Some(s) == CHOOSE x \in s : TRUE

(* What SumFunctionOnSet makes of s, if g does the same of what is left.   *)
Added(g, f, s) == IF s = {} THEN 0 ELSE f[Some(s)] + g[s \ {Some(s)}]
Sums(g, f, S) == \A s \in SUBSET S : g[s] = Added(g, f, s)

LEMMA SomeIn == ASSUME NEW s, s # {} PROVE Some(s) \in s
  BY DEF Some

LEMMA OneLess ==
  ASSUME NEW S, IsFiniteSet(S), NEW n \in Nat
  PROVE  /\ Cardinality(S) \in Nat
         /\ \A s \in SUBSET S :
              /\ IsFiniteSet(s) /\ Cardinality(s) \in Nat
              /\ Cardinality(s) <= 0 => s = {}
              /\ \A x \in s : /\ s \ {x} \in SUBSET S
                              /\ Cardinality(s) <= n + 1 => Cardinality(s \ {x}) <= n
<1>1. Cardinality(S) \in Nat
  BY FS_CardinalityType
<1>2. ASSUME NEW s \in SUBSET S
      PROVE  /\ IsFiniteSet(s) /\ Cardinality(s) \in Nat
             /\ Cardinality(s) <= 0 => s = {}
             /\ \A x \in s : /\ s \ {x} \in SUBSET S
                             /\ Cardinality(s) <= n + 1 => Cardinality(s \ {x}) <= n
  <2>1. IsFiniteSet(s) /\ Cardinality(s) \in Nat
    BY FS_Subset, FS_CardinalityType
  <2>2. Cardinality(s) = 0 => s = {}
    BY <2>1, FS_EmptySet
  <2>3. ASSUME NEW x \in s PROVE Cardinality(s \ {x}) = Cardinality(s) - 1
    BY <2>1, FS_RemoveElement
  <2> QED BY <2>1, <2>2, <2>3
<1> QED BY <1>1, <1>2

LEMMA SumsExist ==
  ASSUME NEW f, NEW S, IsFiniteSet(S)
  PROVE  \E g : g = [s \in SUBSET S |-> Added(g, f, s)]
<1> DEFINE Upto(g, n) == \A s \in SUBSET S : Cardinality(s) <= n => g[s] = Added(g, f, s)
           T == {n \in Nat : \E g : Upto(g, n)}
<1>1. 0 \in T
  <2> DEFINE g == [s \in SUBSET S |-> 0]
  <2>1. ASSUME NEW s \in SUBSET S, Cardinality(s) <= 0 PROVE g[s] = Added(g, f, s)
    <3>1. s = {}
      BY <2>1, OneLess
    <3> QED BY <3>1 DEF Added
  <2>2. Upto(g, 0)
    BY <2>1
  <2> QED BY <2>2
<1>2. ASSUME NEW n \in T PROVE n + 1 \in T
  <2>1. n \in Nat /\ n + 1 \in Nat
    OBVIOUS
  <2>2. PICK g : Upto(g, n)
    OBVIOUS
  <2> HIDE DEF Upto
  <2> DEFINE h == [s \in SUBSET S |-> Added(g, f, s)]
  <2>3. \A s \in SUBSET S : h[s] = Added(g, f, s)
    OBVIOUS
  <2> HIDE DEF h
  <2>4. ASSUME NEW s \in SUBSET S, Cardinality(s) <= n + 1 PROVE h[s] = Added(h, f, s)
    <3>1. CASE s = {}
      BY <2>3, <3>1 DEF Added
    <3>2. CASE s # {}
      <4>1. PICK r : r = s \ {Some(s)}
        OBVIOUS
      <4>2. r \in SUBSET S /\ Cardinality(r) <= n
        BY <2>1, <2>4, <3>2, <4>1, SomeIn, OneLess
      <4>3. h[r] = g[r]
        BY <2>2, <2>3, <4>2 DEF Upto
      <4> QED BY <2>3, <3>2, <4>1, <4>3 DEF Added
    <3> QED BY <3>1, <3>2
  <2>5. Upto(h, n + 1)
    BY <2>4 DEF Upto
  <2> QED BY <2>1, <2>5
<1>3. \A n \in Nat : n \in T
  <2> HIDE DEF T
  <2>1. T \in SUBSET Nat
    BY DEF T
  <2> QED BY <1>1, <1>2, <2>1, AllNumbers
<1>4. PICK n \in Nat : n = Cardinality(S)
  BY OneLess
<1>5. PICK g : Upto(g, n)
  BY <1>3
<1>6. Sums(g, f, S)
  <2>1. \A s \in SUBSET S : Cardinality(s) <= n
    BY <1>4, FS_Subset
  <2> QED BY <1>5, <2>1 DEF Sums
<1> HIDE DEF Upto, T
<1> DEFINE h == [s \in SUBSET S |-> g[s]]
           k == [s \in SUBSET S |-> Added(h, f, s)]
<1>7. \A s \in SUBSET S : h[s] = g[s]
  OBVIOUS
<1>8. \A s \in SUBSET S : k[s] = Added(h, f, s)
  OBVIOUS
<1>9. h = [s \in SUBSET S |-> h[s]] /\ k = [s \in SUBSET S |-> k[s]]
  OBVIOUS
<1>10. k = [s \in SUBSET S |-> Added(h, f, s)]
  OBVIOUS
<1> HIDE DEF h, k
<1>11. ASSUME NEW s \in SUBSET S PROVE h[s] = k[s]
  <2>1. g[s] = Added(g, f, s)
    BY <1>6 DEF Sums
  <2>2. s # {} => h[s \ {Some(s)}] = g[s \ {Some(s)}]
    BY <1>7
  <2>3. Added(h, f, s) = Added(g, f, s)
    BY <2>2 DEF Added
  <2> QED BY <1>7, <1>8, <2>1, <2>3
<1>12. h = k
  BY <1>9, <1>11, Zenon
<1> QED BY <1>10, <1>12
LEMMA SumIs ==
  ASSUME NEW f, NEW S, IsFiniteSet(S)
  PROVE  \E g : Sums(g, f, S) /\ SumFunctionOnSet(f, S) = g[S]
<1>1. \E g : g = [s \in SUBSET S |-> Added(g, f, s)]
  BY SumsExist
<1> DEFINE g == CHOOSE g : g = [s \in SUBSET S |-> Added(g, f, s)]
<1>2. g = [s \in SUBSET S |-> Added(g, f, s)]
  BY <1>1
<1>3. Sums(g, f, S)
  <2> DEFINE h == [s \in SUBSET S |-> Added(g, f, s)]
  <2>1. \A s \in SUBSET S : h[s] = Added(g, f, s)
    OBVIOUS
  <2>2. g = h
    BY <1>2
  <2> HIDE DEF g, h
  <2>3. \A s \in SUBSET S : g[s] = h[s]
    BY <2>2
  <2> QED BY <2>1, <2>3 DEF Sums
<1>4. SumFunctionOnSet(f, S) = g[S]
  BY DEF SumFunctionOnSet, FoldFunctionOnSet, MapThenFoldSet, Added, Some
<1> QED BY <1>3, <1>4

(* Two such functions agree where their terms do.                          *)
LEMMA SumsAgree ==
  ASSUME NEW f, NEW S, IsFiniteSet(S), NEW g, Sums(g, f, S),
         NEW e, NEW R, NEW h, Sums(h, e, R), S \subseteq R,
         \A x \in S : f[x] = e[x]
  PROVE  \A s \in SUBSET S : g[s] = h[s]
<1> DEFINE T == {n \in Nat : \A s \in SUBSET S : Cardinality(s) <= n => g[s] = h[s]}
<1>1. ASSUME NEW s \in SUBSET S
      PROVE  /\ s = {} => g[s] = 0 /\ h[s] = 0
             /\ s # {} => g[s] = f[Some(s)] + g[s \ {Some(s)}] /\ h[s] = f[Some(s)] + h[s \ {Some(s)}]
  <2>1. g[s] = Added(g, f, s) /\ h[s] = Added(h, e, s)
    BY DEF Sums
  <2>2. s # {} => f[Some(s)] = e[Some(s)]
    BY SomeIn
  <2> QED BY <2>1, <2>2 DEF Added
<1>2. 0 \in T
  BY <1>1, OneLess
<1>3. ASSUME NEW n \in T PROVE n + 1 \in T
  <2>1. n \in Nat /\ n + 1 \in Nat
    OBVIOUS
  <2>2. ASSUME NEW s \in SUBSET S, Cardinality(s) <= n + 1 PROVE g[s] = h[s]
    <3>1. CASE s = {}
      BY <1>1, <3>1
    <3>2. CASE s # {}
      <4>1. PICK r : r = s \ {Some(s)}
        OBVIOUS
      <4>2. r \in SUBSET S /\ Cardinality(r) <= n
        BY <2>1, <2>2, <3>2, <4>1, SomeIn, OneLess
      <4>3. g[r] = h[r]
        BY <4>2
      <4> QED BY <1>1, <3>2, <4>1, <4>3
    <3> QED BY <3>1, <3>2
  <2> QED BY <2>1, <2>2
<1>4. \A n \in Nat : n \in T
  <2> HIDE DEF T
  <2>1. T \in SUBSET Nat
    BY DEF T
  <2> QED BY <1>2, <1>3, <2>1, AllNumbers
<1>5. ASSUME NEW s \in SUBSET S PROVE g[s] = h[s]
  <2>1. PICK n \in Nat : n = Cardinality(s)
    BY OneLess
  <2>2. n \in T
    BY <1>4
  <2> QED BY <2>1, <2>2
<1> QED BY <1>5

(* Any member may be taken out first.                                      *)
LEMMA SumsLess ==
  ASSUME NEW f, NEW S, IsFiniteSet(S), NEW g, Sums(g, f, S), \A x \in S : f[x] \in Nat
  PROVE  \A s \in SUBSET S : /\ g[s] \in Nat
                             /\ \A y \in s : g[s] = f[y] + g[s \ {y}]
<1> DEFINE Good(s) == g[s] \in Nat /\ \A y \in s : g[s] = f[y] + g[s \ {y}]
           T == {n \in Nat : \A s \in SUBSET S : Cardinality(s) <= n => Good(s)}
<1>1. ASSUME NEW s \in SUBSET S
      PROVE  /\ s = {} => g[s] = 0
             /\ s # {} => g[s] = f[Some(s)] + g[s \ {Some(s)}]
  BY DEF Sums, Added
<1>0. ASSUME NEW s, s = {} PROVE Good(s)
  <2>1. g[s] = 0
    BY <1>0, <1>1
  <2>2. \A y \in s : FALSE
    BY <1>0
  <2> QED BY <2>1, <2>2
<1>2. 0 \in T
  <2> SUFFICES ASSUME NEW s \in SUBSET S, Cardinality(s) <= 0 PROVE Good(s)
    OBVIOUS
  <2>1. s = {}
    BY OneLess
  <2> QED BY <1>0, <2>1
<1>3. ASSUME NEW n \in T PROVE n + 1 \in T
  <2>1. n \in Nat /\ n + 1 \in Nat
    OBVIOUS
  <2>2. \A r \in SUBSET S : Cardinality(r) <= n => Good(r)
    OBVIOUS
  <2>3. ASSUME NEW s \in SUBSET S, Cardinality(s) <= n + 1 PROVE Good(s)
    <3>1. CASE s = {}
      BY <1>0, <3>1
    <3>2. CASE s # {}
      <4>1. PICK x \in s : x = Some(s)
        BY <3>2, SomeIn
      <4>2. PICK r : r = s \ {x}
        OBVIOUS
      <4>3. r \in SUBSET S /\ Cardinality(r) <= n
        BY <2>1, <2>3, <4>2, OneLess
      <4>4. Good(r) /\ g[s] = f[x] + g[r] /\ f[x] \in Nat
        BY <1>1, <2>2, <3>2, <4>1, <4>2, <4>3
      <4>5. ASSUME NEW y \in s, y # x PROVE g[s] = f[y] + g[s \ {y}]
        <5>1. PICK q : q = s \ {y}
          OBVIOUS
        <5>2. q \in SUBSET S /\ Cardinality(q) <= n
          BY <2>1, <2>3, <5>1, OneLess
        <5>3. Good(q)
          BY <2>2, <5>2
        <5>4. PICK p : p = q \ {x} /\ p = r \ {y}
          BY <4>2, <5>1
        <5>5. y \in r /\ x \in q /\ p \in SUBSET S
          BY <4>2, <4>5, <5>1, <5>2, <5>4
        <5>6. Cardinality(p) <= n
          <6>1. Cardinality(p) <= Cardinality(q) /\ Cardinality(p) \in Nat /\ Cardinality(q) \in Nat
            BY <5>2, <5>4, <5>5, OneLess, FS_Subset
          <6> QED BY <2>1, <5>2, <6>1
        <5>7. g[r] = f[y] + g[p] /\ g[q] = f[x] + g[p] /\ g[p] \in Nat /\ f[y] \in Nat
          BY <2>2, <4>4, <5>3, <5>4, <5>5, <5>6
        <5> HIDE DEF Good
        <5> QED BY <4>4, <5>1, <5>7
      <4>6. g[s] \in Nat
        BY <4>4
      <4>7. ASSUME NEW y \in s PROVE g[s] = f[y] + g[s \ {y}]
        <5>1. CASE y = x
          BY <4>2, <4>4, <5>1
        <5> QED BY <4>5, <5>1
      <4> QED BY <4>6, <4>7
    <3> QED BY <3>1, <3>2
  <2> QED BY <2>1, <2>3
<1>4. \A n \in Nat : n \in T
  <2> HIDE DEF T
  <2>1. T \in SUBSET Nat
    BY DEF T
  <2> QED BY <1>2, <1>3, <2>1, AllNumbers
<1>5. ASSUME NEW s \in SUBSET S PROVE Good(s)
  <2>1. PICK n \in Nat : n = Cardinality(s)
    BY OneLess
  <2>2. n \in T
    BY <1>4
  <2> QED BY <2>1, <2>2
<1> QED BY <1>5

-----------------------------------------------------------------------------
(* What the rest needs to know of a sum.                                   *)

LEMMA SumOfNone == ASSUME NEW f PROVE SumFunctionOnSet(f, {}) = 0
<1>1. PICK g : Sums(g, f, {}) /\ SumFunctionOnSet(f, {}) = g[{}]
  BY SumIs, FS_EmptySet
<1> QED BY <1>1 DEF Sums, Added

LEMMA SumSame ==
  ASSUME NEW f, NEW e, NEW S, IsFiniteSet(S), \A x \in S : f[x] = e[x]
  PROVE  SumFunctionOnSet(f, S) = SumFunctionOnSet(e, S)
<1>1. PICK g : Sums(g, f, S) /\ SumFunctionOnSet(f, S) = g[S]
  BY SumIs
<1>2. PICK h : Sums(h, e, S) /\ SumFunctionOnSet(e, S) = h[S]
  BY SumIs
<1>3. g[S] = h[S]
  BY <1>1, <1>2, SumsAgree
<1> QED BY <1>1, <1>2, <1>3

LEMMA SumLess ==
  ASSUME NEW f, NEW S, IsFiniteSet(S), \A x \in S : f[x] \in Nat
  PROVE  /\ SumFunctionOnSet(f, S) \in Nat
         /\ \A y \in S : SumFunctionOnSet(f, S) = f[y] + SumFunctionOnSet(f, S \ {y})
<1>1. PICK g : Sums(g, f, S) /\ SumFunctionOnSet(f, S) = g[S]
  BY SumIs
<1>2. g[S] \in Nat /\ \A y \in S : g[S] = f[y] + g[S \ {y}]
  <2>1. \A s \in SUBSET S : g[s] \in Nat /\ \A y \in s : g[s] = f[y] + g[s \ {y}]
    <3>1. \A x \in S : f[x] \in Nat
      OBVIOUS
    <3>2. Sums(g, f, S) /\ IsFiniteSet(S)
      BY <1>1
    <3> QED BY <3>1, <3>2, SumsLess, SMT
  <2>2. S \in SUBSET S
    OBVIOUS
  <2> QED BY <2>1, <2>2, Zenon
<1>3. ASSUME NEW y \in S PROVE SumFunctionOnSet(f, S \ {y}) = g[S \ {y}]
  <2>1. PICK r : r = S \ {y}
    OBVIOUS
  <2>2. IsFiniteSet(r) /\ r \subseteq S
    BY <2>1, FS_RemoveElement
  <2>3. PICK h : Sums(h, f, r) /\ SumFunctionOnSet(f, r) = h[r]
    BY <2>2, SumIs
  <2>4. h[r] = g[r]
    BY <1>1, <2>2, <2>3, SumsAgree
  <2> QED BY <2>1, <2>3, <2>4
<1> QED BY <1>1, <1>2, <1>3

(* Indices may be moved by one.                                            *)
Up(S) == {i + 1 : i \in S}

LEMMA SumUp ==
  ASSUME NEW f, NEW e, NEW S \in SUBSET Nat, IsFiniteSet(S),
         \A i \in S : f[i + 1] \in Nat /\ f[i + 1] = e[i]
  PROVE  SumFunctionOnSet(f, Up(S)) = SumFunctionOnSet(e, S)
<1> DEFINE Good(s) == IsFiniteSet(Up(s)) /\ SumFunctionOnSet(f, Up(s)) = SumFunctionOnSet(e, s)
           T == {n \in Nat : \A s \in SUBSET S : Cardinality(s) <= n => Good(s)}
<1>1. Up({}) = {} /\ Good({})
  BY SumOfNone, FS_EmptySet DEF Up
<1>2. 0 \in T
  <2> SUFFICES ASSUME NEW s \in SUBSET S, Cardinality(s) <= 0 PROVE Good(s)
    OBVIOUS
  <2>1. s = {}
    BY OneLess
  <2> QED BY <1>1, <2>1
<1>3. ASSUME NEW n \in T PROVE n + 1 \in T
  <2>1. n \in Nat /\ n + 1 \in Nat
    OBVIOUS
  <2>2. \A r \in SUBSET S : Cardinality(r) <= n => Good(r)
    OBVIOUS
  <2>3. ASSUME NEW s \in SUBSET S, Cardinality(s) <= n + 1 PROVE Good(s)
    <3>1. CASE s = {}
      BY <1>1, <3>1
    <3>2. CASE s # {}
      <4>1. PICK x \in s : TRUE
        BY <3>2
      <4>2. PICK r : r = s \ {x}
        OBVIOUS
      <4>3. r \in SUBSET S /\ Cardinality(r) <= n /\ IsFiniteSet(s)
        BY <2>1, <2>3, <4>2, OneLess
      <4>4. Good(r)
        BY <2>2, <4>3
      <4>5. PICK z : z = x + 1
        OBVIOUS
      <4>6. /\ Up(s) = Up(r) \cup {z} /\ Up(s) \ {z} = Up(r) /\ z \in Up(s)
        <5>1. \A i \in s : i \in Nat
          OBVIOUS
        <5>2. \A i \in r : i + 1 # z
          BY <4>2, <4>5, <5>1
        <5> QED BY <4>2, <4>5, <5>1, <5>2 DEF Up
      <4>7. IsFiniteSet(Up(s))
        BY <4>4, <4>6, FS_AddElement
      <4>8. \A i \in Up(s) : f[i] \in Nat
        BY DEF Up
      <4>9. SumFunctionOnSet(f, Up(s)) = f[z] + SumFunctionOnSet(f, Up(r))
        BY <4>6, <4>7, <4>8, SumLess
      <4>10. SumFunctionOnSet(e, s) = e[x] + SumFunctionOnSet(e, r)
        <5>1. \A i \in s : e[i] \in Nat
          OBVIOUS
        <5>2. IsFiniteSet(s)
          BY <4>3
        <5>3. PICK t : t = s
          OBVIOUS
        <5>4. IsFiniteSet(t) /\ \A i \in t : e[i] \in Nat
          BY <5>1, <5>2, <5>3
        <5>5. \A y \in t : SumFunctionOnSet(e, t) = e[y] + SumFunctionOnSet(e, t \ {y})
          BY ONLY <5>4, SumLess
        <5> QED BY <4>2, <5>3, <5>5
      <4>11. f[z] = e[x]
        BY <4>5
      <4> QED BY <4>4, <4>7, <4>9, <4>10, <4>11
    <3> QED BY <3>1, <3>2
  <2> QED BY <2>1, <2>3
<1>4. \A n \in Nat : n \in T
  <2> HIDE DEF T
  <2>1. T \in SUBSET Nat
    BY DEF T
  <2> QED BY <1>2, <1>3, <2>1, AllNumbers
<1>5. PICK n \in Nat : n = Cardinality(S)
  BY FS_CardinalityType
<1>6. n \in T
  BY <1>4
<1> QED BY <1>5, <1>6

-----------------------------------------------------------------------------
(* The length announced.  From its measurement on it is what was sent and  *)
(* what is still to be sent of the GOPs waiting, c ms into the segment.    *)
LenOf(s) == [i \in DOMAIN s |-> s[i].len]
Within(s, c) == {i \in DOMAIN s : c + GopMs * (i - 1) < SegmentMs}
ToSend(s, c) == SumFunctionOnSet(LenOf(s), Within(s, c))

LengthKept ==
  /\ sent \in Nat
  /\ pc = "open" => total = ToSend(filled, 0)
  /\ pc \in {"pop", "free"} => total = sent + ToSend(filled, crnt)
  /\ pc = "send" => total = sent + ToSend(filled, crnt + GopMs)
  /\ pc \in {"close", "playlist", "delete"} => total = sent

LEMMA MoveOne ==
  \A i \in Int : /\ GopMs * (i - 1) \in Int
                 /\ \A c \in Int : c + GopMs * ((i + 1) - 1) = (c + GopMs) + GopMs * (i - 1)
BY Numbers

LEMMA Waits ==
  ASSUME NEW s \in Seq(Blocks), NEW c \in Nat
  PROVE  /\ IsFiniteSet(Within(s, c)) /\ Within(s, c) \in SUBSET Nat
         /\ DOMAIN s = 1 .. Len(s) /\ Len(s) \in Nat
         /\ \A i \in DOMAIN s : s[i].len \in Nat /\ LenOf(s)[i] = s[i].len
<1>1. DOMAIN s = 1 .. Len(s) /\ Len(s) \in Nat
  BY LenProperties
<1>2. IsFiniteSet(1 .. Len(s))
  BY <1>1, FS_Interval
<1>3. Within(s, c) \subseteq 1 .. Len(s)
  BY <1>1 DEF Within
<1>4. IsFiniteSet(Within(s, c)) /\ Within(s, c) \in SUBSET Nat
  BY <1>1, <1>2, <1>3, FS_Subset
<1>5. ASSUME NEW i \in DOMAIN s PROVE s[i].len \in Nat /\ LenOf(s)[i] = s[i].len
  <2>1. s[i] \in Blocks
    BY <1>1, <1>5, ElementOfSeq
  <2>2. s[i].len \in Lengths
    BY <2>1 DEF Blocks
  <2> QED BY <2>2, Numbers DEF LenOf
<1> QED BY <1>1, <1>4, <1>5

LEMMA NothingToSend ==
  ASSUME NEW s \in Seq(Blocks), NEW c \in Nat, ~(c < SegmentMs)
  PROVE  ToSend(s, c) = 0
<1>1. ASSUME NEW i \in DOMAIN s PROVE ~(c + GopMs * (i - 1) < SegmentMs)
  <2>1. i \in Nat /\ i >= 1
    BY <1>1, Waits
  <2>2. GopMs * (i - 1) \in Nat
    BY <2>1, Numbers
  <2> QED BY <2>2, Numbers
<1>2. Within(s, c) = {}
  BY <1>1 DEF Within
<1> QED BY <1>2, SumOfNone DEF ToSend

LEMMA HeadToSend ==
  ASSUME NEW s \in Seq(Blocks), s # << >>, NEW c \in Nat, c < SegmentMs
  PROVE  /\ Head(s).len \in Nat /\ ToSend(Tail(s), c + GopMs) \in Nat
         /\ ToSend(s, c) = Head(s).len + ToSend(Tail(s), c + GopMs)
<1> DEFINE t == Tail(s)
           d == c + GopMs
           U == Within(s, c)
           V == Within(t, d)
<1>1. /\ t \in Seq(Blocks) /\ Len(t) = Len(s) - 1 /\ Head(s) = s[1]
      /\ \A i \in 1 .. Len(t) : t[i] = s[i + 1]
  BY HeadTailProperties, SinglePop
<1>2. d \in Nat
  BY Numbers
<1> HIDE DEF t, d
<1>3. /\ IsFiniteSet(U) /\ DOMAIN s = 1 .. Len(s) /\ Len(s) \in Nat /\ U \in SUBSET Nat
      /\ \A i \in DOMAIN s : s[i].len \in Nat /\ LenOf(s)[i] = s[i].len
  BY Waits
<1>4. /\ IsFiniteSet(V) /\ DOMAIN t = 1 .. Len(t) /\ Len(t) \in Nat /\ V \in SUBSET Nat
      /\ \A i \in DOMAIN t : t[i].len \in Nat /\ LenOf(t)[i] = t[i].len
  BY <1>1, <1>2, Waits
<1>5. \A i \in 1 .. Len(t) : i + 1 \in 1 .. Len(s)
  BY <1>1, <1>3, <1>4
<1>6. 1 \in U
  <2>1. 1 \in DOMAIN s
    BY <1>1, <1>3, <1>4
  <2>2. c + GopMs * (1 - 1) = c
    BY Numbers
  <2> QED BY <2>1, <2>2 DEF Within
<1>7. U \ {1} = Up(V)
  <2>1. ASSUME NEW i \in V PROVE i + 1 \in U \ {1}
    <3>1. i \in 1 .. Len(t) /\ d + GopMs * (i - 1) < SegmentMs
      BY <1>4 DEF Within
    <3>2. i \in Int /\ i >= 1 /\ i + 1 # 1
      BY <3>1
    <3>3. c + GopMs * ((i + 1) - 1) = d + GopMs * (i - 1)
      BY <3>2, MoveOne DEF d
    <3> QED BY <1>3, <1>5, <3>1, <3>2, <3>3 DEF Within
  <2>2. ASSUME NEW j \in U \ {1} PROVE \E i \in V : j = i + 1
    <3>1. j \in 1 .. Len(s) /\ c + GopMs * (j - 1) < SegmentMs /\ j # 1
      BY <1>3 DEF Within
    <3>2. PICK i \in Int : i = j - 1
      BY <3>1
    <3>3. j = i + 1 /\ i \in 1 .. Len(t)
      BY <1>1, <1>3, <3>1, <3>2
    <3>4. c + GopMs * ((i + 1) - 1) = d + GopMs * (i - 1)
      BY <3>2, MoveOne DEF d
    <3> QED BY <1>4, <3>1, <3>3, <3>4 DEF Within
  <2> QED BY <2>1, <2>2 DEF Up
<1>8. \A i \in U : LenOf(s)[i] \in Nat
  BY <1>3 DEF Within
<1>9. \A i \in V : LenOf(t)[i] \in Nat
  BY <1>4 DEF Within
<1>10. \A i \in V : LenOf(s)[i + 1] \in Nat /\ LenOf(s)[i + 1] = LenOf(t)[i]
  BY <1>1, <1>3, <1>4, <1>5 DEF Within
<1> HIDE DEF U, V
<1>11. SumFunctionOnSet(LenOf(s), U) = LenOf(s)[1] + SumFunctionOnSet(LenOf(s), Up(V))
  BY <1>3, <1>6, <1>7, <1>8, SumLess
<1>12. SumFunctionOnSet(LenOf(s), Up(V)) = SumFunctionOnSet(LenOf(t), V)
  BY <1>4, <1>10, SumUp
<1>13. SumFunctionOnSet(LenOf(t), V) \in Nat
  BY <1>4, <1>9, SumLess
<1>14. LenOf(s)[1] = Head(s).len /\ Head(s).len \in Nat
  <2>1. 1 \in DOMAIN s
    BY <1>1, <1>3, <1>4
  <2> QED BY <1>1, <1>3, <2>1
<1> QED BY <1>11, <1>12, <1>13, <1>14 DEF ToSend, U, V, t, d

LEMMA MoreComes ==
  ASSUME NEW s \in Seq(Blocks), NEW b \in Blocks, NEW c \in Nat, c + GopMs * Len(s) >= SegmentMs
  PROVE  ToSend(Append(s, b), c) = ToSend(s, c)
<1> DEFINE t == Append(s, b)
<1>1. t \in Seq(Blocks) /\ Len(t) = Len(s) + 1 /\ t[Len(t)] = b /\ \A i \in 1 .. Len(s) : t[i] = s[i]
  BY AppendProperties
<1> HIDE DEF t
<1>2. /\ IsFiniteSet(Within(s, c)) /\ DOMAIN s = 1 .. Len(s) /\ Len(s) \in Nat
      /\ \A i \in DOMAIN s : LenOf(s)[i] = s[i].len
  BY Waits
<1>3. /\ DOMAIN t = 1 .. Len(t) /\ \A i \in DOMAIN t : LenOf(t)[i] = t[i].len
  BY <1>1, Waits
<1>4. ~(c + GopMs * (Len(t) - 1) < SegmentMs)
  <2>1. Len(t) - 1 = Len(s)
    BY <1>1, <1>2
  <2>2. c + GopMs * Len(s) \in Int
    BY <1>2, Numbers
  <2> QED BY <2>1, <2>2, Numbers
<1>5. 1 .. Len(t) = 1 .. Len(s) \union {Len(t)} /\ Len(t) \notin 1 .. Len(s)
  BY <1>1, <1>2
<1>6. Within(t, c) = Within(s, c)
  BY <1>2, <1>3, <1>4, <1>5 DEF Within
<1>7. \A i \in Within(s, c) : LenOf(t)[i] = LenOf(s)[i]
  BY <1>1, <1>2, <1>3, <1>5 DEF Within
<1>8. SumFunctionOnSet(LenOf(s), Within(s, c)) = SumFunctionOnSet(LenOf(t), Within(s, c))
  BY <1>2, <1>7, SumSame
<1> QED BY <1>6, <1>8 DEF ToSend, t

LEMMA LengthStep ==
  ASSUME Inv, Enough, LengthKept, [Next]_vars PROVE LengthKept'
<1> USE DEF ring, times, status, work, out
<1>0. /\ filled \in Seq(Blocks) /\ crnt \in Nat /\ Len(filled) \in Nat
  BY AvailFacts DEF Inv, Types
<1>1. ASSUME UNCHANGED <<filled, pc, crnt, sent, total>> PROVE LengthKept'
  BY <1>1 DEF LengthKept
<1>2. CASE Owner
  <2>1. CASE Run
    BY <2>1 DEF Run, LengthKept
  <2>2. CASE ~Run
    BY <1>1, <1>2, <2>2 DEF Owner, AddPublisher, RemovePublisher, ClearRunState, MarkStopped
  <2> QED BY <2>1, <2>2
<1>3. CASE Segmenter
  <2>1. ASSUME NEW n \in Lengths, Publish(n) PROVE LengthKept'
    BY <1>1, <2>1 DEF Publish
  <2>2. CASE Receive /\ ~UNCHANGED filled
    <3>1. /\ filled' = Append(filled, Ring!Block(pub)) /\ UNCHANGED <<pc, crnt, sent, total>>
          /\ pub \in Lengths
      BY <2>2 DEF Receive, Inv, Types
    <3>2. Ring!Block(pub) \in Blocks
      <4>1. Ring!AllocPos(pub) \in Int
        BY <3>1, Numbers DEF Inv, Types, Ring!AllocPos, Ring!NULL
      <4> QED BY <3>1, <4>1 DEF Ring!Block, Blocks
    <3>3. \A c \in Nat : c + GopMs * Len(filled) >= SegmentMs => ToSend(filled', c) = ToSend(filled, c)
      BY <1>0, <3>1, <3>2, MoreComes
    <3>4. /\ pc = "open" => ToSend(filled', 0) = ToSend(filled, 0)
          /\ pc \in {"pop", "free"} => ToSend(filled', crnt) = ToSend(filled, crnt)
          /\ pc = "send" => ToSend(filled', crnt + GopMs) = ToSend(filled, crnt + GopMs)
      <4>1. AvailMs = GopMs * Len(filled) /\ AvailMs \in Nat /\ crnt + GopMs \in Nat
        BY <1>0, AvailFacts, Numbers DEF AvailMs, Inv
      <4> QED BY <1>0, <3>3, <4>1, Numbers DEF Enough
    <3> QED BY <3>1, <3>4 DEF LengthKept
  <2>3. CASE Receive /\ UNCHANGED filled
    BY <1>1, <2>3 DEF Receive
  <2> QED BY <1>3, <2>1, <2>2, <2>3 DEF Segmenter
<1>4. CASE Uploader
  <2>1. CASE Poll
    BY <2>1 DEF Poll, LengthKept
  <2>2. CASE Measure
    <3>1. \A i \in DOMAIN filled : 0 + GopMs * (i - 1) = GopMs * (i - 1)
      <4> TAKE i \in DOMAIN filled
      <4>1. i \in Int
        BY <1>0, Waits
      <4>2. GopMs * (i - 1) \in Int
        BY <4>1, MoveOne
      <4> QED BY <4>2
    <3>2. Within(filled, 0) = {i \in DOMAIN filled : GopMs * (i - 1) < SegmentMs}
      BY <3>1 DEF Within
    <3>3. SegmentLen = ToSend(filled, 0)
      BY <3>2 DEF SegmentLen, ToSend, LenOf
    <3> QED BY <2>2, <3>3 DEF Measure, LengthKept
  <2>3. CASE Open
    <3>1. ASSUME pc' = "pop" PROVE total = 0 + ToSend(filled, 0)
      <4>1. SegmentMs > 0 /\ total = ToSend(filled, 0)
        BY <2>3, Numbers DEF Open, LengthKept
      <4>2. ToSend(filled, 0) \in Nat
        <5>1. /\ IsFiniteSet(Within(filled, 0))
              /\ \A i \in Within(filled, 0) : LenOf(filled)[i] \in Nat
          BY <1>0, Waits DEF Within
        <5> QED BY <5>1, SumLess DEF ToSend
      <4> QED BY <4>1, <4>2
    <3>2. /\ pc' \in {"leave", "pop"} /\ crnt' = 0 /\ sent' = 0
          /\ UNCHANGED <<filled, total>>
      BY <2>3 DEF Open
    <3> QED BY <3>1, <3>2 DEF LengthKept
  <2>4. CASE Pop
    <3>1. filled # << >> /\ crnt < SegmentMs /\ pc = "pop" /\ total = sent + ToSend(filled, crnt)
          /\ sent \in Nat
      BY <2>4, EnoughPops DEF Pop, PopHasGop, Enough, LengthKept
    <3>2. /\ Head(filled).len \in Nat /\ ToSend(Tail(filled), crnt + GopMs) \in Nat
          /\ ToSend(filled, crnt) = Head(filled).len + ToSend(Tail(filled), crnt + GopMs)
      BY <1>0, <3>1, HeadToSend
    <3>3. /\ pc' = "send" /\ filled' = Tail(filled) /\ sent' = sent + Head(filled).len
          /\ UNCHANGED <<crnt, total>>
      BY <2>4 DEF Pop
    <3>4. \A a, b, c \in Nat : (a + b) + c = a + (b + c) /\ a + b \in Nat
      OBVIOUS
    <3>5. total' = sent' + ToSend(filled', crnt' + GopMs) /\ sent' \in Nat
      BY <3>1, <3>2, <3>3, <3>4
    <3> QED BY <3>3, <3>5 DEF LengthKept
  <2>5. CASE SendGop
    <3>1. /\ pc = "send" /\ UNCHANGED <<filled, sent, total>>
          /\ pc' = "leave" \/ (pc' = "free" /\ crnt' = crnt + GopMs)
      BY <2>5 DEF SendGop
    <3> QED BY <3>1 DEF LengthKept
  <2>6. CASE FreeGop
    <3>1. /\ pc = "free" /\ UNCHANGED <<filled, sent, total, crnt>>
          /\ pc' = "pop" \/ (pc' = "close" /\ ~(crnt < SegmentMs))
      BY <2>6 DEF FreeGop, MoreToSend
    <3>2. pc' = "close" => ToSend(filled, crnt) = 0
      BY <1>0, <3>1, NothingToSend
    <3> QED BY <3>1, <3>2 DEF LengthKept
  <2>7. CASE Close
    BY <2>7 DEF Close, NextSegment, LengthKept
  <2>8. CASE SendPlaylist
    BY <2>8 DEF SendPlaylist, NextSegment, LengthKept
  <2>9. CASE DeleteOld
    BY <2>9 DEF DeleteOld, NextSegment, LengthKept
  <2>10. CASE SendFullPlaylist
    BY <2>10 DEF SendFullPlaylist, LengthKept
  <2>11. CASE OpenRefused \/ Leave
    BY <2>11 DEF OpenRefused, Leave, LengthKept
  <2> QED BY <1>4, <2>1, <2>2, <2>3, <2>4, <2>5, <2>6, <2>7, <2>8, <2>9, <2>10, <2>11 DEF Uploader
<1>5. CASE UNCHANGED vars
  BY <1>1, <1>5 DEF vars
<1> QED BY <1>2, <1>3, <1>4, <1>5 DEF Next

(* The bytes sent are those announced, whatever the lengths of the GOPs    *)
(* and however many a segment takes, although GOPs go on arriving between  *)
(* the measurement and the last of them.                                   *)
THEOREM LengthIsKept == Spec => []LengthAnnounced
<1>1. Init => LengthKept
  BY DEF Init, LengthKept
<1>2. LengthKept => LengthAnnounced
  BY DEF LengthKept, LengthAnnounced
<1> QED BY <1>1, <1>2, LengthStep, InvHolds, PTL DEF Spec
=============================================================================
