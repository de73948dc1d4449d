--------------------------- MODULE RtpVideo_proofs --------------------------
(***************************************************************************)
(* For NAL units of every size, every fragment length and every loss: the  *)
(* packetiser stays inside the NAL unit it was given and inside its        *)
(* buffer, and the client's frames hold one coded unit each.               *)
(***************************************************************************)
EXTENDS RtpVideo, Integers, WellFoundedInduction, TLAPS

(* The loop is entered only for a NAL unit too large for one packet; this  *)
(* is what makes the first fragment fit behind the header it skips.        *)
LargeOnly == nal # NoNal => Fragmented(nal.size)

BoundsInv == RangesOK /\ LargeOnly /\ PacketsInBounds

(* Sizes of NAL units are positive integers.                               *)
LEMMA SizesNat ==
  /\ \A t : \A z \in SizesOf(t) : z \in AllSizes /\ z \in Nat /\ z > 0
  /\ AllSizes \subseteq Nat
  /\ MaxNals \in Nat /\ FuLen \in Nat /\ FuLen >= 2 /\ Types \subseteq 1..23
  BY VideoAssumption DEF AllSizes, SizesOf, ParamSize

(* A packet appended to packets in bounds must be in bounds itself.        *)
LEMMA SendKeepsBounds ==
  ASSUME net \in Seq(Packets), PacketsInBounds, NEW p \in Packets,
         InBounds(p), Send(p), lost \subseteq (1..MaxNals) \X BOOLEAN
  PROVE  /\ net' \in Seq(Packets) /\ PacketsInBounds'
         /\ lost' \subseteq (1..MaxNals) \X BOOLEAN
<1>1. <<p.nal.n, p.m>> \in (1..MaxNals) \X BOOLEAN
  <2>1. p.m \in BOOLEAN /\ p.nal \in Nals
    BY DEF Packets
  <2>2. p.nal.n \in 1..MaxNals
    BY <2>1 DEF Nals
  <2> QED BY <2>1, <2>2
<1>2. lost' \subseteq (1..MaxNals) \X BOOLEAN
  <2>1. lost' \in {lost, lost \cup {<<p.nal.n, p.m>>}}
    BY DEF Send
  <2> QED BY <1>1, <2>1
<1>3. CASE net' = net
  BY <1>2, <1>3 DEF PacketsInBounds, InBounds
<1>4. CASE net' = Append(net, p)
  <2>1. net' \in Seq(Packets) /\ Len(net') = Len(net) + 1
    BY <1>4
  <2>2. ASSUME NEW i \in 1..Len(net') PROVE InBounds(net'[i])
    <3>1. CASE i \in 1..Len(net)
      BY <1>4, <3>1 DEF PacketsInBounds
    <3>2. CASE i = Len(net) + 1
      BY <1>4, <3>2
    <3> QED BY <2>1, <2>2, <3>1, <3>2
  <2> QED BY <1>2, <2>1, <2>2 DEF PacketsInBounds, InBounds
<1> QED BY <1>3, <1>4 DEF Send

(* What is left of the NAL unit, cut to a full fragment, fits behind the   *)
(* place where the fragment starts, the skipped header included.           *)
LEMMA FragmentFits ==
  ASSUME RangesOK, LargeOnly, nal # NoNal
  PROVE  /\ nal \in Nals /\ nal.size \in Nat
         /\ From \in Nat /\ PayloadLen \in 1..FuLen
         /\ From + PayloadLen <= nal.size
         /\ off # 0 /\ PayloadLen = Left => From + PayloadLen = nal.size
<1>1. nal \in Nals /\ off \in 0..(nal.size - 1)
  BY DEF RangesOK
<1>2. nal.size \in Nat
  BY <1>1, SizesNat DEF Nals
<1>3. nal.size > FuLen + 2
  BY DEF LargeOnly, Fragmented
<1>4. off \in Nat /\ off < nal.size
  BY <1>1, <1>2
<1>5. FuLen \in Nat /\ FuLen >= 2
  BY SizesNat
<1> QED BY <1>1, <1>2, <1>3, <1>4, <1>5 DEF From, PayloadLen, Left

(* Initially nothing has been sent.                                        *)
LEMMA InitBounds == Init => BoundsInv
<1> SUFFICES ASSUME Init PROVE BoundsInv
  OBVIOUS
<1>1. net \in Seq(Packets) /\ Len(net) = 0
  BY DEF Init
<1>2. RangesOK
  BY <1>1, SizesNat DEF Init, RangesOK
<1> QED BY <1>1, <1>2 DEF Init, BoundsInv, LargeOnly, PacketsInBounds

(* The actions of the packetiser.                                          *)
LEMMA TxBounds == BoundsInv /\ Tx => BoundsInv'
<1> SUFFICES ASSUME BoundsInv, Tx PROVE BoundsInv'
  OBVIOUS
<1> USE DEF BoundsInv
<1>0. net \in Seq(Packets) /\ lost \subseteq (1..MaxNals) \X BOOLEAN /\ count \in 0..MaxNals
  BY DEF RangesOK
<1>1. ASSUME NEW t \in Types, SkipNal(t) PROVE BoundsInv'
  <2>1. count < MaxNals /\ count' = count + 1 /\ UNCHANGED <<waiting, nal, off, net, rxVars, lost>>
    BY <1>1 DEF SkipNal
  <2>2. count' \in 0 .. MaxNals
    BY <2>1, <1>0, SizesNat
  <2>3. RangesOK'
    BY <2>1, <2>2 DEF RangesOK, rxVars
  <2>4. LargeOnly' /\ PacketsInBounds'
    BY <2>1 DEF LargeOnly, PacketsInBounds, InBounds, Fragmented
  <2> QED BY <2>3, <2>4
<1>2. ASSUME NEW t \in Types, NEW z \in SizesOf(t), SendSingle(t, z) PROVE BoundsInv'
  <2> DEFINE p == [nal |-> NextNal(t, z), type |-> t, s |-> FALSE, e |-> FALSE,
                   m |-> SingleMarker(t), from |-> 0, to |-> z]
  <2>1. z \in AllSizes /\ z \in Nat /\ z > 0
    BY SizesNat
  <2>2. count + 1 \in 1..MaxNals
    BY <1>0, <1>2, SizesNat DEF SendSingle
  <2>3. NextNal(t, z) \in Nals
    BY <2>1, <2>2 DEF NextNal, Nals
  <2>4. SingleMarker(t) \in BOOLEAN /\ t \in 1..28 /\ t # FU_A
    BY SizesNat DEF SingleMarker, FU_A
  <2>5. p \in Packets
    BY <2>1, <2>3, <2>4 DEF Packets
  <2>6. InBounds(p)
    BY <1>2, <2>1, <2>4, SizesNat DEF InBounds, SendSingle, Fragmented, NextNal
  <2>7. Send(p)
    BY <1>2 DEF SendSingle
  <2> HIDE DEF p
  <2>8. net' \in Seq(Packets) /\ PacketsInBounds' /\ lost' \subseteq (1..MaxNals) \X BOOLEAN
    BY <1>0, <2>5, <2>6, <2>7, SendKeepsBounds
  <2> QED BY <1>2, <2>2, <2>8, SizesNat DEF SendSingle, RangesOK, LargeOnly, rxVars
<1>3. ASSUME NEW t \in Types, NEW z \in SizesOf(t), StartFragments(t, z) PROVE BoundsInv'
  <2>1. z \in AllSizes /\ z \in Nat /\ z > 0
    BY SizesNat
  <2>2. count + 1 \in 1..MaxNals
    BY <1>0, <1>3, SizesNat DEF StartFragments
  <2>3. nal' \in Nals /\ nal'.size = z /\ off' = 0
    BY <1>3, <2>1, <2>2 DEF StartFragments, NextNal, Nals
  <2>4. LargeOnly'
    BY <1>3, <2>3 DEF StartFragments, LargeOnly, Fragmented
  <2>5. off' \in 0..(nal'.size - 1)
    BY <2>1, <2>3
  <2> QED BY <1>3, <2>2, <2>3, <2>4, <2>5, SizesNat
         DEF StartFragments, RangesOK, PacketsInBounds, InBounds, rxVars
<1>4. ASSUME Fragment PROVE BoundsInv'
  <2> DEFINE p == [nal |-> nal, type |-> FU_A, s |-> off = 0,
                   e |-> off # 0 /\ PayloadLen = Left, m |-> FuLen > Left,
                   from |-> From, to |-> From + PayloadLen]
  <2>1. /\ nal \in Nals /\ nal.size \in Nat
        /\ From \in Nat /\ PayloadLen \in 1..FuLen
        /\ From + PayloadLen <= nal.size
        /\ off # 0 /\ PayloadLen = Left => From + PayloadLen = nal.size
    BY <1>4, FragmentFits DEF Fragment
  <2>2. PayloadLen \in Nat /\ From + PayloadLen \in Nat
    BY <2>1, SizesNat
  <2>3. p \in Packets
    BY <2>1, <2>2 DEF Packets, FU_A
  <2>4. InBounds(p)
    <3>1. /\ p.from = From /\ p.to = From + PayloadLen /\ p.nal = nal
          /\ p.type = FU_A
      OBVIOUS
    <3>2. ~(p.s /\ p.e)
      <4>1. p.s = (off = 0) /\ p.e = (off # 0 /\ PayloadLen = Left)
        OBVIOUS
      <4> QED BY <4>1, Zenon
    <3>3. p.e => p.to = p.nal.size
      <4>1. p.e = (off # 0 /\ PayloadLen = Left)
        OBVIOUS
      <4> QED BY <2>1, <3>1, <4>1, Zenon
    <3>4. From < From + PayloadLen /\ (From + PayloadLen) - From <= FuLen
      BY <2>1, <2>2, SizesNat
    <3> HIDE DEF p
    <3> QED BY <2>1, <3>1, <3>2, <3>3, <3>4 DEF InBounds
  <2>5. Send(p)
    BY <1>4 DEF Fragment
  <2> HIDE DEF p
  <2>6. net' \in Seq(Packets) /\ PacketsInBounds' /\ lost' \subseteq (1..MaxNals) \X BOOLEAN
    BY <1>0, <2>3, <2>4, <2>5, SendKeepsBounds
  <2>7. \/ nal' = NoNal /\ off' = 0
        \/ nal' = nal /\ nal' \in Nals /\ off' \in 0..(nal'.size - 1)
    BY <1>4, <2>1, <2>2 DEF Fragment, MoreToSend
  <2> QED BY <1>4, <2>6, <2>7 DEF Fragment, RangesOK, LargeOnly, rxVars, Fragmented
<1> QED BY <1>1, <1>2, <1>3, <1>4 DEF Tx

(* The client takes packets off the head and leaves the rest as it is.     *)
LEMMA RxBounds == BoundsInv /\ Rx => BoundsInv'
<1> SUFFICES ASSUME BoundsInv, Rx PROVE BoundsInv'
  OBVIOUS
<1> USE DEF BoundsInv
<1>1. CASE StartFrame \/ ReadTimeout \/ StopSeen
  BY <1>1 DEF StartFrame, ReadTimeout, StopSeen, txVars, RangesOK, LargeOnly,
              PacketsInBounds, InBounds, Fragmented
<1>2. CASE GetData
  <2>1. net \in Seq(Packets) /\ net # <<>> /\ net' = Tail(net)
    BY <1>2 DEF GetData, RangesOK
  <2>2. net' \in Seq(Packets) /\ Len(net') = Len(net) - 1 /\ Len(net) \in Nat
    BY <2>1
  <2>3. \A i \in 1..Len(net') : net'[i] = net[i + 1] /\ i + 1 \in 1..Len(net)
    BY <2>1, <2>2
  <2>4. PacketsInBounds'
    BY <2>3 DEF PacketsInBounds, InBounds
  <2>5. rpc' \in {"full", "read", "ended"}
    BY <1>2 DEF GetData, RangesOK
  <2> QED BY <1>2, <2>2, <2>4, <2>5 DEF GetData, txVars, RangesOK, LargeOnly, Fragmented
<1> QED BY <1>1, <1>2 DEF Rx

(* Deliver reads only the NAL unit it was given and fits every packet into *)
(* its buffer, whatever the sizes of NAL units and the limit of a packet.  *)
THEOREM BoundsInvariance == Spec => []BoundsInv
<1>1. BoundsInv /\ [Next]_vars => BoundsInv'
  <2> SUFFICES ASSUME BoundsInv, [Next]_vars PROVE BoundsInv'
    OBVIOUS
  <2>1. CASE StopStreaming \/ Consumer \/ UNCHANGED vars
    BY <2>1 DEF BoundsInv, StopStreaming, Consumer, vars, txVars, rxVars, RangesOK,
                LargeOnly, PacketsInBounds, InBounds, Fragmented
  <2> QED BY <2>1, TxBounds, RxBounds DEF Next
<1> QED BY <1>1, InitBounds, PTL DEF Spec

(* Every packet under way is a piece of its NAL unit and no fragment is at *)
(* once the first and the last of its unit.                                *)
THEOREM PacketBounds == Spec => []PacketsInBounds
  BY BoundsInvariance, PTL DEF BoundsInv

(* The counters, the loop and the packets stay in their ranges.            *)
THEOREM VideoTypes == Spec => []TypeOK
<1>1. Init => FlagsOK
  BY DEF Init, FlagsOK
<1>2. FlagsOK /\ [Next]_vars => FlagsOK'
  <2> SUFFICES ASSUME FlagsOK, [Next]_vars PROVE FlagsOK'
    OBVIOUS
  <2>1. waiting' \in BOOLEAN
    <3>1. waiting' = waiting \/ waiting' = FALSE
      BY DEF Next, Tx, Rx, SkipNal, SendSingle, StartFragments, Fragment, StartFrame,
             GetData, ReadTimeout, StopSeen, StopStreaming, Consumer, vars, txVars
    <3> QED BY <3>1, Zenon DEF FlagsOK
  <2>2. run' \in BOOLEAN
    <3>1. run' = run \/ run' = FALSE
      BY DEF Next, Tx, Rx, SkipNal, SendSingle, StartFragments, Fragment, StartFrame,
             GetData, ReadTimeout, StopSeen, StopStreaming, Consumer, vars, rxVars
    <3> QED BY <3>1, Zenon DEF FlagsOK
  <2>3. full' \in BOOLEAN
    <3>1. full' = full \/ full' = ~full
      BY DEF Next, Tx, Rx, SkipNal, SendSingle, StartFragments, Fragment, StartFrame,
             GetData, ReadTimeout, StopSeen, StopStreaming, Consumer, vars, rxVars
    <3> QED BY <3>1, Zenon DEF FlagsOK
  <2> QED BY <2>1, <2>2, <2>3, Zenon DEF FlagsOK
<1>3. Spec => []FlagsOK
  BY <1>1, <1>2, PTL DEF Spec
<1> QED BY <1>3, BoundsInvariance, PTL DEF BoundsInv, TypeOK

-----------------------------------------------------------------------------
(***************************************************************************)
(* Frames.  Packets on their way and the chunks collected so far are one   *)
(* line of pieces.  Two pieces of it belong to the same coded unit, or a   *)
(* marked packet comes between them, or the first one's unit has no marker *)
(* that could: it is a parameter set, its marked packet was lost, or its   *)
(* last fragment is a full one.                                            *)
(***************************************************************************)
NoMarker(v) ==
  v.type \in {SPS, PPS} \/ <<v.n, TRUE>> \in lost \/ LastFragmentFull(v.size)

MarkIn(i, j) == \E k \in i..j : net[k].m

Apart(v, w, i, j) == v = w \/ NoMarker(v) \/ MarkIn(i, j)

(* The packets among themselves, the chunks before them, and both before   *)
(* the NAL unit that is being fragmented.                                  *)
NetApart == \A j \in 1..Len(net) : \A i \in 1..(j - 1) :
              Apart(net[i].nal, net[j].nal, i, j - 1)
BufApart == \A j \in 1..Len(net) : \A i \in 1..Len(buf) :
              Apart(buf[i].nal, net[j].nal, 1, j - 1)
NetEnds == \A i \in 1..Len(net) : Apart(net[i].nal, nal, i, Len(net))
BufEnds == \A i \in 1..Len(buf) : Apart(buf[i].nal, nal, 1, Len(net))
Line == NetApart /\ BufApart /\ NetEnds /\ BufEnds

(* What is sent: no access unit delimiter, and a marked packet is the last *)
(* of a unit that is not a parameter set.                                  *)
Fit(p) ==
  /\ p.type \in (1..23) \cup {FU_A}
  /\ p.m => p.nal.type \notin {SPS, PPS} /\ p.to = p.nal.size
PacketsFit == \A i \in 1..Len(net) : Fit(net[i])

(* Parameter sets are not fragmented, and every fragment before the next   *)
(* one was a full one.                                                     *)
Loop ==
  nal # NoNal => /\ nal.type \notin {SPS, PPS}
                 /\ off = 0 \/ \E k \in Nat : off = 1 + k * FuLen

ChunkSet == [nal : Nals, from : Nat, to : Nat, code : BOOLEAN]
Frames == [whole : BOOLEAN, chunks : Seq(ChunkSet)]
Collected == buf \in Seq(ChunkSet) /\ out \in Seq(Frames)

FrameInv == Line /\ PacketsFit /\ Loop /\ Collected /\ UnitPerFrame

(* Full fragments end where the unit ends only for the sizes of            *)
(* LastFragmentFull.                                                       *)
LEMMA FullFragments ==
  /\ \A k, F \in Nat : F > 0 => (k * F) % F = 0
  /\ \A k, F \in Nat : k * F \in Nat /\ k * F + F = (k + 1) * F
  OBVIOUS

LEMMA NoNalIsNone == NoNal \notin Nals
<1> SUFFICES ASSUME NoNal \in Nals PROVE FALSE
  OBVIOUS
<1>1. NoNal.n \in 1..MaxNals /\ NoNal.n = 0
  BY DEF Nals, NoNal
<1> QED BY <1>1, SizesNat

(* Packets and chunks belong to some NAL unit.                             *)
LEMMA PacketsAndChunks ==
  /\ \A i \in 1..Len(net) : net \in Seq(Packets) => net[i] \in Packets /\ net[i].nal # NoNal
  /\ \A i \in 1..Len(buf) : buf \in Seq(ChunkSet) => buf[i] \in ChunkSet /\ buf[i].nal # NoNal
<1>1. \A p \in Packets : p.nal \in Nals
  BY DEF Packets
<1>2. \A c \in ChunkSet : c.nal \in Nals
  BY DEF ChunkSet
<1>3. ASSUME NEW i \in 1..Len(net), net \in Seq(Packets) PROVE net[i] \in Packets
  BY <1>3
<1>4. ASSUME NEW i \in 1..Len(buf), buf \in Seq(ChunkSet) PROVE buf[i] \in ChunkSet
  BY <1>4
<1> QED BY <1>1, <1>2, <1>3, <1>4, NoNalIsNone

(* The packetiser: a packet of the unit at hand, the last of which is      *)
(* marked unless its unit goes without.                                    *)
LEMMA SendKeepsLine ==
  ASSUME net \in Seq(Packets), Collected, Line, NEW p \in Packets, Send(p), buf' = buf,
         nal = p.nal \/ nal = NoNal,
         nal' = p.nal \/ p.m \/ NoMarker(p.nal)
  PROVE  Line'
<1>1. \A i \in 1..Len(net) : net[i] \in Packets /\ net[i].nal # NoNal
  BY PacketsAndChunks
<1>2. \A i \in 1..Len(buf) : buf[i].nal # NoNal
  BY PacketsAndChunks DEF Collected
<1>3. \A v : NoMarker(v) => NoMarker(v)'
  BY DEF Send, NoMarker
<1>4. ASSUME net' = net, <<p.nal.n, p.m>> \in lost' PROVE Line'
  <2>1. \A i, j : MarkIn(i, j)' = MarkIn(i, j)
    BY <1>4 DEF MarkIn
  <2>2. NetApart'
    BY <1>3, <1>4, <2>1 DEF Line, NetApart, Apart
  <2>3. BufApart'
    BY <1>3, <1>4, <2>1 DEF Line, BufApart, Apart
  <2>4. nal' = p.nal \/ NoMarker(p.nal)'
    <3>1. CASE p.m
      <4>1. p.m = TRUE
        BY <3>1 DEF Packets
      <4> QED BY <1>4, <4>1 DEF NoMarker
    <3> QED BY <1>3, <3>1
  <2>5. NetEnds'
    BY <1>1, <1>3, <1>4, <2>1, <2>4 DEF Line, NetEnds, Apart
  <2>6. BufEnds'
    BY <1>2, <1>3, <1>4, <2>1, <2>4 DEF Line, BufEnds, Apart
  <2> QED BY <2>2, <2>3, <2>5, <2>6 DEF Line
<1>5. ASSUME net' = Append(net, p) PROVE Line'
  <2>0. PICK l \in Nat : l = Len(net)
    BY <1>5
  <2>1. l \in Nat /\ Len(net') = l + 1 /\ net'[l + 1] = p /\ \A i \in 1..l : net'[i] = net[i]
    BY <1>5, <2>0
  <2>2. \A i, j \in Int : i >= 1 /\ j <= l /\ MarkIn(i, j) => MarkIn(i, j)'
    BY <2>0, <2>1 DEF MarkIn
  <2>3. \A i \in 1..(l + 1) : MarkIn(i, l) => MarkIn(i, l + 1)'
    BY <2>0, <2>1 DEF MarkIn
  <2>4. p.m => \A i \in 1..(l + 1) : MarkIn(i, l + 1)'
    BY <2>0, <2>1 DEF MarkIn
  <2>5. NetApart'
    <3> SUFFICES ASSUME NEW j \in 1..(l + 1), NEW i \in 1..(j - 1)
                 PROVE  Apart(net[i].nal, net[j].nal, i, j - 1)'
      BY <2>0, <2>1 DEF NetApart
    <3>1. CASE j <= l
      <4>1. Apart(net[i].nal, net[j].nal, i, j - 1) /\ net'[i] = net[i] /\ net'[j] = net[j]
        BY <2>0, <2>1, <3>1 DEF Line, NetApart
      <4>2. MarkIn(i, j - 1) => MarkIn(i, j - 1)'
        BY <2>1, <2>2, <3>1
      <4> QED BY <1>3, <4>1, <4>2 DEF Apart
    <3>2. CASE j = l + 1
      <4>1. Apart(net[i].nal, nal, i, l) /\ net'[i] = net[i] /\ net'[j] = p /\ net[i].nal # NoNal
        BY <1>1, <2>0, <2>1, <3>2 DEF Line, NetEnds
      <4>2. MarkIn(i, l) => MarkIn(i, j - 1)'
        BY <2>1, <2>2, <3>2
      <4> QED BY <1>3, <4>1, <4>2 DEF Apart
    <3> QED BY <2>1, <3>1, <3>2
  <2>6. BufApart'
    <3> SUFFICES ASSUME NEW j \in 1..(l + 1), NEW i \in 1..Len(buf)
                 PROVE  Apart(buf[i].nal, net[j].nal, 1, j - 1)'
      BY <2>0, <2>1 DEF BufApart
    <3>1. CASE j <= l
      <4>1. Apart(buf[i].nal, net[j].nal, 1, j - 1) /\ net'[j] = net[j]
        BY <2>0, <2>1, <3>1 DEF Line, BufApart
      <4>2. MarkIn(1, j - 1) => MarkIn(1, j - 1)'
        BY <2>1, <2>2, <3>1
      <4> QED BY <1>3, <4>1, <4>2 DEF Apart
    <3>2. CASE j = l + 1
      <4>1. Apart(buf[i].nal, nal, 1, l) /\ net'[j] = p /\ buf[i].nal # NoNal
        BY <1>2, <2>0, <2>1, <3>2 DEF Line, BufEnds
      <4>2. j - 1 = l /\ 1 \in 1..(l + 1)
        BY <2>1, <3>2
      <4>3. MarkIn(1, l) => MarkIn(1, l)'
        BY <2>1, <2>2
      <4> QED BY <1>3, <4>1, <4>2, <4>3 DEF Apart
    <3> QED BY <2>1, <3>1, <3>2
  <2>7. NetEnds'
    <3> SUFFICES ASSUME NEW i \in 1..(l + 1)
                 PROVE  Apart(net[i].nal, nal, i, l + 1)'
      BY <2>0, <2>1 DEF NetEnds
    <3>1. CASE i <= l
      <4>1. Apart(net[i].nal, nal, i, l) /\ net'[i] = net[i] /\ net[i].nal # NoNal
        BY <1>1, <2>0, <2>1, <3>1 DEF Line, NetEnds
      <4>2. MarkIn(i, l) => MarkIn(i, l + 1)'
        BY <2>3
      <4>3. p.m => MarkIn(i, l + 1)'
        BY <2>4
      <4> QED BY <1>3, <4>1, <4>2, <4>3 DEF Apart
    <3>2. CASE i = l + 1
      BY <1>3, <2>0, <2>1, <2>4, <3>2 DEF Apart
    <3> QED BY <2>1, <3>1, <3>2
  <2>8. BufEnds'
    <3> SUFFICES ASSUME NEW i \in 1..Len(buf)
                 PROVE  Apart(buf[i].nal, nal, 1, l + 1)'
      BY <2>0, <2>1 DEF BufEnds
    <3>1. Apart(buf[i].nal, nal, 1, l) /\ buf[i].nal # NoNal
      BY <1>2, <2>0 DEF Line, BufEnds
    <3>2. 1 \in 1..(l + 1)
      BY <2>1
    <3>3. (MarkIn(1, l) => MarkIn(1, l + 1)') /\ (p.m => MarkIn(1, l + 1)')
      BY <2>3, <2>4, <3>2
    <3> QED BY <1>3, <3>1, <3>2, <3>3 DEF Apart
  <2> QED BY <2>5, <2>6, <2>7, <2>8 DEF Line
<1> QED BY <1>4, <1>5 DEF Send

(* A marked packet at the head ends the frame: all before it is its own    *)
(* unit or had no marker.                                                  *)
LEMMA HeadEndsFrame ==
  ASSUME net \in Seq(Packets), net # <<>>, Line, NEW i \in 1..Len(buf)
  PROVE  buf[i].nal = net[1].nal \/ NoMarker(buf[i].nal)
<1>1. 1 \in 1..Len(net)
  OBVIOUS
<1>2. Apart(buf[i].nal, net[1].nal, 1, 1 - 1)
  BY <1>1 DEF Line, BufApart
<1>3. ~MarkIn(1, 1 - 1)
  BY DEF MarkIn
<1> QED BY <1>2, <1>3 DEF Apart

(* Taking the head of the line keeps the rest of it apart.                 *)
LEMMA TakeKeepsLine ==
  ASSUME net \in Seq(Packets), net # <<>>, Line, Collected, net' = Tail(net), nal' = nal, lost' = lost,
         \/ buf' = <<>>
         \/ ~net[1].m /\ \E c \in ChunkSet : c.nal = net[1].nal /\ buf' = Append(buf, c)
  PROVE  Line'
<1>0. PICK l \in Nat : Len(net) = l + 1
  OBVIOUS
<1>1. Len(net') = l /\ \A i \in 1..l : net'[i] = net[i + 1]
  BY <1>0
<1>2. \A v : NoMarker(v)' = NoMarker(v)
  BY DEF NoMarker
<1>3. \A i, j \in 1..l : MarkIn(i + 1, j + 1) => MarkIn(i, j)'
  <2> SUFFICES ASSUME NEW i \in 1..l, NEW j \in 1..l, NEW k \in (i + 1)..(j + 1), net[k].m
               PROVE  \E n \in i..j : net'[n].m
    BY DEF MarkIn
  <2>1. k - 1 \in i..j /\ k - 1 \in 1..l /\ (k - 1) + 1 = k
    OBVIOUS
  <2> QED BY <1>1, <2>1
<1>4. NetApart'
  <2> SUFFICES ASSUME NEW j \in 1..l, NEW i \in 1..(j - 1)
               PROVE  Apart(net[i].nal, net[j].nal, i, j - 1)'
    BY <1>1 DEF NetApart
  <2>1. Apart(net[i + 1].nal, net[j + 1].nal, i + 1, (j + 1) - 1)
    BY <1>0 DEF Line, NetApart
  <2>2. MarkIn(i + 1, (j + 1) - 1) => MarkIn(i, j - 1)'
    <3>1. j - 1 \in 1..l /\ (j - 1) + 1 = (j + 1) - 1 /\ i \in 1..l
      OBVIOUS
    <3> QED BY <1>3, <3>1
  <2>3. net'[i] = net[i + 1] /\ net'[j] = net[j + 1]
    BY <1>1
  <2> QED BY <1>2, <2>1, <2>2, <2>3 DEF Apart
<1>5. NetEnds'
  <2> SUFFICES ASSUME NEW i \in 1..l PROVE Apart(net[i].nal, nal, i, l)'
    BY <1>1 DEF NetEnds
  <2>1. Apart(net[i + 1].nal, nal, i + 1, l + 1)
    BY <1>0 DEF Line, NetEnds
  <2>2. MarkIn(i + 1, l + 1) => MarkIn(i, l)'
    BY <1>3
  <2>3. net'[i] = net[i + 1]
    BY <1>1
  <2> QED BY <1>2, <2>1, <2>2, <2>3 DEF Apart
<1>6. CASE buf' = <<>>
  BY <1>4, <1>5, <1>6 DEF Line, BufApart, BufEnds
<1>7. ASSUME ~net[1].m, NEW c \in ChunkSet, c.nal = net[1].nal, buf' = Append(buf, c)
      PROVE  Line'
  <2>0. PICK b \in Nat : b = Len(buf)
    BY DEF Collected
  <2>1. /\ Len(buf') = b + 1 /\ buf'[b + 1] = c /\ \A i \in 1..b : buf'[i] = buf[i]
    BY <1>7, <2>0 DEF Collected
  <2>2. \A j \in 1..l : MarkIn(1, j + 1) => MarkIn(1, j)'
    <3>1. \A j \in 1..l : MarkIn(1, j + 1) => MarkIn(1 + 1, j + 1)
      BY <1>7 DEF MarkIn
    <3> QED BY <1>3, <3>1
  <2>3. \A i \in 1..b, j \in 1..l : Apart(buf[i].nal, net[j + 1].nal, 1, (j + 1) - 1)
    BY <1>0, <2>0 DEF Line, BufApart
  <2>4. \A j \in 1..l : Apart(net[1].nal, net[j + 1].nal, 1, (j + 1) - 1)
    BY <1>0 DEF Line, NetApart
  <2>5. ASSUME NEW i \in 1..(b + 1), NEW j \in 1..l
        PROVE  Apart(buf[i].nal, net[j].nal, 1, j - 1)'
    <3>1. PICK v : v = buf'[i].nal /\ Apart(v, net[j + 1].nal, 1, (j + 1) - 1)
      BY <1>7, <2>1, <2>3, <2>4
    <3>2. MarkIn(1, (j + 1) - 1) => MarkIn(1, j - 1)'
      <4>1. CASE j = 1
        <5>1. (j + 1) - 1 = 1 /\ ~MarkIn(1, 1)
          BY <1>7, <4>1 DEF MarkIn
        <5> QED BY <5>1
      <4>2. CASE j > 1
        <5>1. j - 1 \in 1..l /\ (j + 1) - 1 = (j - 1) + 1
          BY <4>2
        <5> QED BY <2>2, <5>1
      <4> QED BY <4>1, <4>2
    <3>3. net'[j] = net[j + 1]
      BY <1>1
    <3> QED BY <1>2, <3>1, <3>2, <3>3 DEF Apart
  <2>6. ASSUME NEW i \in 1..(b + 1) PROVE Apart(buf[i].nal, nal, 1, l)'
    <3>1. PICK v : v = buf'[i].nal /\ Apart(v, nal, 1, l + 1)
      <4>1. CASE i \in 1..b
        BY <1>0, <2>0, <2>1, <4>1 DEF Line, BufEnds
      <4>2. CASE i = b + 1
        BY <1>0, <1>7, <2>1, <4>2 DEF Line, NetEnds
      <4> QED BY <4>1, <4>2
    <3>2. MarkIn(1, l + 1) => MarkIn(1, l)'
      <4>1. CASE l = 0
        BY <1>7, <4>1 DEF MarkIn
      <4>2. CASE l > 0
        BY <2>2, <4>2
      <4> QED BY <4>1, <4>2
    <3> QED BY <1>2, <3>1, <3>2 DEF Apart
  <2>7. BufApart' /\ BufEnds'
    BY <1>1, <2>1, <2>5, <2>6 DEF BufApart, BufEnds
  <2> QED BY <1>4, <1>5, <2>7 DEF Line
<1> QED BY <1>6, <1>7

(* Frames already written stay as they are.                                *)
LEMMA FramesStay ==
  ASSUME UnitPerFrame, out' = out, lost \subseteq lost'
  PROVE  UnitPerFrame'
  BY DEF UnitPerFrame

(* A packet sent must fit; whether it is lost changes no other one.        *)
LEMMA SendKeepsFit ==
  ASSUME net \in Seq(Packets), PacketsFit, NEW p \in Packets, Fit(p), Send(p)
  PROVE  PacketsFit' /\ lost \subseteq lost'
<1>1. CASE net' = Append(net, p)
  <2>1. Len(net') = Len(net) + 1 /\ Len(net) \in Nat
    BY <1>1
  <2>2. ASSUME NEW i \in 1..(Len(net) + 1) PROVE Fit(net'[i])
    <3>1. CASE i \in 1..Len(net)
      BY <1>1, <3>1 DEF PacketsFit
    <3>2. CASE i = Len(net) + 1
      BY <1>1, <3>2
    <3> QED BY <2>1, <3>1, <3>2
  <2>3. PacketsFit'
    BY <2>1, <2>2 DEF PacketsFit, Fit
  <2> QED BY <2>3 DEF Send
<1>2. CASE net' = net
  BY <1>2 DEF PacketsFit, Fit, Send
<1> QED BY <1>1, <1>2 DEF Send

(* A whole NAL unit is marked unless it is a parameter set; nothing is     *)
(* being fragmented before it or after it.                                 *)
LEMMA SingleKeepsFrames ==
  ASSUME BoundsInv, FrameInv, NEW t \in Types, NEW z \in SizesOf(t), SendSingle(t, z)
  PROVE  FrameInv'
<1> DEFINE p == [nal |-> NextNal(t, z), type |-> t, s |-> FALSE, e |-> FALSE,
                 m |-> SingleMarker(t), from |-> 0, to |-> z]
<1>1. /\ nal = NoNal /\ nal' = NoNal /\ t # AUD /\ count < MaxNals
      /\ UNCHANGED <<off, buf, out>> /\ Send(p)
  BY DEF SendSingle, Skipped, rxVars
<1>2. p \in Packets
  <2>1. z \in AllSizes /\ z \in Nat /\ t \in 1..28
    BY SizesNat
  <2>2. count + 1 \in 1..MaxNals
    BY <1>1, SizesNat DEF BoundsInv, RangesOK
  <2>3. NextNal(t, z) \in Nals
    BY <2>1, <2>2 DEF NextNal, Nals
  <2>4. SingleMarker(t) \in BOOLEAN
    BY DEF SingleMarker
  <2> QED BY <2>1, <2>3, <2>4 DEF Packets
<1>3. /\ p.nal.type = t /\ p.nal.size = z /\ p.to = z /\ p.type = t
      /\ p.m <=> t \notin {SPS, PPS}
  BY <1>1 DEF NextNal, SingleMarker
<1>4. Fit(p)
  BY <1>3, SizesNat DEF Fit
<1>5. p.m \/ NoMarker(p.nal)
  BY <1>3 DEF NoMarker
<1> HIDE DEF p
<1>6. net \in Seq(Packets)
  BY DEF BoundsInv, RangesOK
<1>7. Line'
  BY <1>1, <1>2, <1>5, <1>6, SendKeepsLine DEF FrameInv
<1>8. PacketsFit' /\ lost \subseteq lost'
  BY <1>2, <1>1, <1>4, <1>6, SendKeepsFit DEF FrameInv
<1>9. Loop' /\ Collected'
  BY <1>1 DEF Loop, FrameInv, Collected
<1> QED BY <1>1, <1>7, <1>8, <1>9, FramesStay DEF FrameInv

(* The first fragment starts nothing in the line: it is of a new unit.     *)
LEMMA StartKeepsFrames ==
  ASSUME BoundsInv, FrameInv, NEW t \in Types, NEW z \in SizesOf(t), StartFragments(t, z)
  PROVE  FrameInv'
<1>1. /\ nal = NoNal /\ nal' = NextNal(t, z) /\ off' = 0 /\ UNCHANGED <<net, lost, buf, out>>
      /\ Fragmented(z)
  BY DEF StartFragments, rxVars
<1>2. net \in Seq(Packets)
  BY DEF BoundsInv, RangesOK
<1>3. Loop'
  <2>1. t \notin {SPS, PPS}
    BY <1>1, SizesNat DEF SizesOf, ParamSize, Fragmented
  <2> QED BY <1>1, <2>1 DEF Loop, NextNal
<1>4. \A v, w, i, j : Apart(v, w, i, j)' = Apart(v, w, i, j)
  BY <1>1 DEF Apart, NoMarker, MarkIn
<1>5. NetApart' /\ BufApart'
  BY <1>1, <1>4 DEF NetApart, BufApart, FrameInv, Line
<1>6. NetEnds'
  <2> SUFFICES ASSUME NEW i \in 1..Len(net) PROVE Apart(net[i].nal, nal, i, Len(net))'
    BY <1>1 DEF NetEnds
  <2>1. Apart(net[i].nal, NoNal, i, Len(net)) /\ net[i].nal # NoNal
    BY <1>1, <1>2, PacketsAndChunks DEF FrameInv, Line, NetEnds
  <2>2. NoMarker(net[i].nal)' = NoMarker(net[i].nal) /\ MarkIn(i, Len(net))' = MarkIn(i, Len(net))
    BY <1>1 DEF NoMarker, MarkIn
  <2> QED BY <2>1, <2>2 DEF Apart
<1>7. BufEnds'
  <2> SUFFICES ASSUME NEW i \in 1..Len(buf) PROVE Apart(buf[i].nal, nal, 1, Len(net))'
    BY <1>1 DEF BufEnds
  <2>1. Apart(buf[i].nal, NoNal, 1, Len(net)) /\ buf[i].nal # NoNal
    BY <1>1, PacketsAndChunks DEF FrameInv, Line, BufEnds, Collected
  <2>2. NoMarker(buf[i].nal)' = NoMarker(buf[i].nal) /\ MarkIn(1, Len(net))' = MarkIn(1, Len(net))
    BY <1>1 DEF NoMarker, MarkIn
  <2> QED BY <2>1, <2>2 DEF Apart
<1>8. PacketsFit' /\ Collected' /\ UnitPerFrame'
  BY <1>1 DEF FrameInv, PacketsFit, Fit, Collected, UnitPerFrame
<1> QED BY <1>3, <1>5, <1>6, <1>7, <1>8 DEF FrameInv, Line

(* Where the fragments of a unit end: after a full one there may be more;  *)
(* the last one is shorter, and marked, or its unit is one of those whose  *)
(* last fragment is full.                                                  *)
LEMMA FragmentEnds ==
  ASSUME BoundsInv, Loop, nal # NoNal
  PROVE  /\ FuLen > Left => From + PayloadLen = nal.size
         /\ MoreToSend => \E k \in Nat : From + PayloadLen = 1 + k * FuLen
         /\ ~MoreToSend => FuLen > Left \/ LastFragmentFull(nal.size)
<1>1. /\ nal.size \in Nat /\ off \in Nat /\ off < nal.size /\ FuLen \in Nat /\ FuLen >= 2
      /\ nal.size > FuLen + 2
  <2>1. nal \in Nals /\ off \in 0..(nal.size - 1)
    BY DEF BoundsInv, RangesOK
  <2>2. nal.size \in Nat
    BY <2>1, SizesNat DEF Nals
  <2> QED BY <2>1, <2>2, SizesNat DEF BoundsInv, LargeOnly, Fragmented
<1>2. Left = nal.size - off /\ (FuLen > Left => off # 0)
  BY <1>1 DEF Left
<1>3. FuLen > Left => From + PayloadLen = nal.size
  BY <1>1, <1>2 DEF From, PayloadLen
<1>4. ASSUME ~(FuLen > Left)
      PROVE  \E k \in Nat : From + PayloadLen = 1 + k * FuLen
  <2>1. PayloadLen = FuLen
    BY <1>1, <1>2, <1>4 DEF PayloadLen
  <2>2. PICK k \in Nat : From = 1 + k * FuLen
    <3>1. CASE off = 0
      <4>1. From = 1 + 0 * FuLen
        BY <1>1, <3>1 DEF From
      <4> QED BY <4>1
    <3>2. CASE off # 0
      BY <3>2 DEF Loop, From
    <3> QED BY <3>1, <3>2
  <2>3. k * FuLen \in Nat /\ k * FuLen + FuLen = (k + 1) * FuLen
    BY <1>1, FullFragments
  <2>4. From + PayloadLen = 1 + (k + 1) * FuLen /\ k + 1 \in Nat
    BY <1>1, <2>1, <2>2, <2>3
  <2> QED BY <2>4
<1>5. MoreToSend => ~(FuLen > Left)
  BY <1>1, <1>3 DEF MoreToSend
<1>6. ASSUME ~MoreToSend, ~(FuLen > Left) PROVE LastFragmentFull(nal.size)
  <2>1. From + PayloadLen = nal.size
    BY <1>1, <1>6, FragmentFits DEF MoreToSend, BoundsInv
  <2>2. PICK k \in Nat : nal.size = 1 + k * FuLen
    BY <1>4, <1>6, <2>1
  <2>3. k * FuLen \in Nat /\ (k * FuLen) % FuLen = 0
    BY <1>1, FullFragments
  <2>4. nal.size - 1 = k * FuLen
    BY <2>2, <2>3
  <2> QED BY <1>1, <2>3, <2>4 DEF LastFragmentFull, Fragmented
<1> QED BY <1>3, <1>4, <1>5, <1>6

(* A turn of the loop over the fragments.                                  *)
LEMMA FragmentKeepsFrames ==
  ASSUME BoundsInv, FrameInv, Fragment
  PROVE  FrameInv'
<1> DEFINE p == [nal |-> nal, type |-> FU_A, s |-> off = 0,
                 e |-> off # 0 /\ PayloadLen = Left, m |-> FuLen > Left,
                 from |-> From, to |-> From + PayloadLen]
<1>1. /\ nal # NoNal /\ Send(p) /\ UNCHANGED <<buf, out>>
      /\ IF MoreToSend THEN off' = From + PayloadLen /\ nal' = nal
                       ELSE off' = 0 /\ nal' = NoNal
  BY DEF Fragment, rxVars
<1>2. /\ p.nal = nal /\ p.to = From + PayloadLen /\ p.type = FU_A
      /\ p.m <=> FuLen > Left
  OBVIOUS
<1>3. p \in Packets
  <2>1. nal \in Nals /\ From \in Nat /\ PayloadLen \in 1..FuLen
    BY <1>1, FragmentFits DEF BoundsInv
  <2>2. From + PayloadLen \in Nat
    BY <2>1, SizesNat
  <2> QED BY <2>1, <2>2 DEF Packets, FU_A
<1> HIDE DEF p
<1>4. /\ FuLen > Left => From + PayloadLen = nal.size
      /\ MoreToSend => \E k \in Nat : From + PayloadLen = 1 + k * FuLen
      /\ ~MoreToSend => FuLen > Left \/ LastFragmentFull(nal.size)
  BY <1>1, FragmentEnds DEF FrameInv
<1>5. nal.type \notin {SPS, PPS}
  BY <1>1 DEF FrameInv, Loop
<1>6. Fit(p)
  BY <1>2, <1>4, <1>5 DEF Fit
<1>7. nal' = p.nal \/ p.m \/ NoMarker(p.nal)
  BY <1>1, <1>2, <1>4 DEF NoMarker
<1>8. net \in Seq(Packets)
  BY DEF BoundsInv, RangesOK
<1>9. Line'
  BY <1>1, <1>2, <1>3, <1>7, <1>8, SendKeepsLine DEF FrameInv
<1>10. PacketsFit' /\ lost \subseteq lost'
  BY <1>1, <1>3, <1>6, <1>8, SendKeepsFit DEF FrameInv
<1>11. Loop' /\ Collected'
  BY <1>1, <1>4, <1>5 DEF Loop, FrameInv, Collected
<1> QED BY <1>1, <1>9, <1>10, <1>11, FramesStay DEF FrameInv

(* What the depacketiser makes of a packet is a piece of the same unit     *)
(* that ends where the packet does.                                        *)
LEMMA ChunkOfPacket ==
  ASSUME NEW p \in Packets, Fit(p), NEW c \in Chunks(p)
  PROVE  c \in ChunkSet /\ c.nal = p.nal /\ c.to = p.to
<1>1. p.nal \in Nals /\ p.from \in Nat /\ p.to \in Nat /\ p.s \in BOOLEAN
  BY DEF Packets
<1>2. \A from \in Nat, code \in BOOLEAN :
        Chunk(p, from, code) \in ChunkSet /\ Chunk(p, from, code).nal = p.nal
        /\ Chunk(p, from, code).to = p.to
  BY <1>1 DEF Chunk, ChunkSet
<1>3. CASE p.type \in 1..10
  <2>1. p.type # FU_A /\ ~(p.type \in 11..23)
    BY <1>3 DEF FU_A
  <2>2. Chunks(p) = {Chunk(p, 0, TRUE)}
    BY <1>3, <2>1 DEF Chunks
  <2>3. c = Chunk(p, 0, TRUE)
    BY <2>2
  <2> QED BY <1>2, <2>3
<1>4. CASE p.type = FU_A
  <2>1. c = Chunk(p, IF p.s THEN 0 ELSE p.from, p.s)
    BY <1>4 DEF Chunks, FU_A
  <2>2. (IF p.s THEN 0 ELSE p.from) \in Nat
    BY <1>1
  <2> QED BY <1>1, <1>2, <2>1, <2>2
<1>5. CASE p.type \in 11..23
  <2>1. ~(p.type \in 1..10) /\ p.type # FU_A
    BY <1>5 DEF FU_A
  <2>2. Chunks(p) = {Chunk(p, 2, code) : code \in BOOLEAN}
    BY <1>5, <2>1 DEF Chunks
  <2>3. PICK code \in BOOLEAN : c = Chunk(p, 2, code)
    BY <2>2
  <2> QED BY <1>2, <2>3
<1>6. p.type \in 1..10 \/ p.type = FU_A \/ p.type \in 11..23
  BY DEF Fit
<1> QED BY <1>3, <1>4, <1>5, <1>6

(* The client takes a packet; a marked one makes a frame of what there is. *)
LEMMA GetDataKeepsFrames ==
  ASSUME BoundsInv, FrameInv, GetData
  PROVE  FrameInv'
<1>1. net \in Seq(Packets) /\ net # <<>> /\ Head(net) = net[1] /\ net[1] \in Packets /\ Fit(net[1])
  <2>1. net \in Seq(Packets) /\ net # <<>>
    BY DEF BoundsInv, RangesOK, GetData
  <2>2. 1 \in 1..Len(net) /\ Head(net) = net[1]
    BY <2>1
  <2> QED BY <2>1, <2>2 DEF FrameInv, PacketsFit
<1>2. net' = Tail(net) /\ UNCHANGED <<nal, off, lost>>
  BY DEF GetData, txVars
<1>3. PICK c \in Chunks(net[1]) :
        IF net[1].m
          THEN out' = Append(out, [whole |-> TRUE, chunks |-> Append(buf, c)]) /\ buf' = <<>>
          ELSE buf' = Append(buf, c) /\ out' = out
  BY <1>1 DEF GetData
<1>4. c \in ChunkSet /\ c.nal = net[1].nal /\ c.to = net[1].to
  BY <1>1, ChunkOfPacket
<1>5. Line'
  BY <1>1, <1>2, <1>3, <1>4, TakeKeepsLine DEF FrameInv
<1>6. PacketsFit'
  <2>1. Len(net') = Len(net) - 1 /\ Len(net) \in Nat
        /\ \A i \in 1..(Len(net) - 1) : net'[i] = net[i + 1] /\ i + 1 \in 1..Len(net)
    BY <1>1, <1>2
  <2> QED BY <2>1 DEF FrameInv, PacketsFit, Fit
<1>7. Loop'
  BY <1>2 DEF FrameInv, Loop
<1> DEFINE cs == Append(buf, c)
           l == Len(buf)
<1>8. buf \in Seq(ChunkSet) /\ out \in Seq(Frames) /\ l \in Nat
  BY DEF FrameInv, Collected
<1>9. /\ cs \in Seq(ChunkSet) /\ Len(cs) = l + 1 /\ cs[l + 1] = c
      /\ \A k \in 1..l : cs[k] = buf[k]
  BY <1>4, <1>8
<1> HIDE DEF cs, l
<1>10. CASE net[1].m
  <2> DEFINE f == [whole |-> TRUE, chunks |-> cs]
  <2>1. f \in Frames
    BY <1>9 DEF Frames
  <2>2. out' = Append(out, f) /\ buf' = <<>>
    BY <1>3, <1>10 DEF cs
  <2>3. f.chunks = cs
    OBVIOUS
  <2> HIDE DEF f
  <2>4. Collected'
    BY <1>8, <2>1, <2>2 DEF Collected
  <2>5. net[1].nal.type \notin {SPS, PPS} /\ net[1].to = net[1].nal.size
    BY <1>1, <1>10 DEF Fit
  <2>6. ASSUME NEW k \in 1..(l + 1)
        PROVE  cs[k].nal = c.nal \/ NoMarker(cs[k].nal)
    <3>1. CASE k \in 1..l
      <4>1. buf[k].nal = net[1].nal \/ NoMarker(buf[k].nal)
        BY <1>1, <3>1, HeadEndsFrame DEF FrameInv, l
      <4> QED BY <1>4, <1>9, <3>1, <4>1
    <3>2. CASE k = l + 1
      BY <1>9, <3>2
    <3> QED BY <1>8, <3>1, <3>2
  <2>7. /\ Len(out') = Len(out) + 1 /\ Len(out) \in Nat /\ out'[Len(out) + 1] = f
        /\ \A i \in 1..Len(out) : out'[i] = out[i]
    BY <1>8, <2>2
  <2>8. UnitPerFrame'
    <3> SUFFICES ASSUME NEW i \in 1..(Len(out) + 1)
                 PROVE  LET g == out'[i].chunks
                        IN out'[i].whole =>
                             /\ g[Len(g)].nal.type \notin {SPS, PPS}
                             /\ g[Len(g)].to = g[Len(g)].nal.size
                             /\ \A k \in 1..Len(g) :
                                  \/ g[k].nal.type \in {SPS, PPS}
                                  \/ g[k].nal = g[Len(g)].nal
                                  \/ <<g[k].nal.n, TRUE>> \in lost'
                                  \/ LastFragmentFull(g[k].nal.size)
      BY <2>7 DEF UnitPerFrame, LastFragmentFull, Fragmented
    <3>1. CASE i \in 1..Len(out)
      BY <1>2, <2>7, <3>1 DEF FrameInv, UnitPerFrame
    <3>2. CASE i = Len(out) + 1
      <4>1. out'[i].chunks = cs /\ Len(cs) = l + 1 /\ cs[l + 1] = c
        BY <1>9, <2>3, <2>7, <3>2
      <4>2. cs[Len(cs)] = c /\ c.nal.type \notin {SPS, PPS} /\ c.to = c.nal.size
        BY <1>4, <2>5, <4>1
      <4>3. \A k \in 1..Len(cs) : \/ cs[k].nal.type \in {SPS, PPS}
                                  \/ cs[k].nal = c.nal
                                  \/ <<cs[k].nal.n, TRUE>> \in lost'
                                  \/ LastFragmentFull(cs[k].nal.size)
        BY <1>2, <2>6, <4>1 DEF NoMarker
      <4> QED BY <4>1, <4>2, <4>3
    <3>3. i \in 1..Len(out) \/ i = Len(out) + 1
      BY <2>7
    <3> QED BY <3>1, <3>2, <3>3, Zenon
  <2> QED BY <1>5, <1>6, <1>7, <2>4, <2>8 DEF FrameInv
<1>11. CASE ~net[1].m
  <2>1. out' = out /\ buf' = cs
    BY <1>3, <1>11 DEF cs
  <2>2. Collected'
    BY <1>8, <1>9, <2>1 DEF Collected
  <2>3. UnitPerFrame'
    BY <1>2, <2>1, FramesStay DEF FrameInv
  <2> QED BY <1>5, <1>6, <1>7, <2>2, <2>3 DEF FrameInv
<1> QED BY <1>10, <1>11

(* Steps that empty the line's front or leave it as it is.                 *)
LEMMA OthersKeepFrames ==
  ASSUME BoundsInv, FrameInv, UNCHANGED <<nal, off, net, lost>>,
         \/ UNCHANGED <<buf, out>>
         \/ buf' = <<>> /\ out' = out
         \/ buf' = <<>> /\ out' = Append(out, [whole |-> FALSE, chunks |-> buf])
  PROVE  FrameInv'
<1>1. NetApart' /\ NetEnds' /\ PacketsFit' /\ Loop'
  BY DEF FrameInv, Line, NetApart, NetEnds, Apart, NoMarker, MarkIn, PacketsFit, Fit, Loop
<1>2. CASE UNCHANGED <<buf, out>>
  BY <1>1, <1>2 DEF FrameInv, Line, BufApart, BufEnds, Apart, NoMarker, MarkIn, Collected, UnitPerFrame
<1>3. ASSUME buf' = <<>> PROVE Line'
  BY <1>1, <1>3 DEF Line, BufApart, BufEnds
<1>4. CASE buf' = <<>> /\ out' = out
  BY <1>1, <1>3, <1>4, FramesStay DEF FrameInv, Collected
<1>5. CASE buf' = <<>> /\ out' = Append(out, [whole |-> FALSE, chunks |-> buf])
  <2> DEFINE f == [whole |-> FALSE, chunks |-> buf]
  <2>1. f \in Frames /\ ~f.whole /\ out \in Seq(Frames)
    BY DEF FrameInv, Collected, Frames
  <2>2. out' = Append(out, f)
    BY <1>5
  <2> HIDE DEF f
  <2>3. /\ Len(out') = Len(out) + 1 /\ Len(out) \in Nat /\ out'[Len(out) + 1] = f
        /\ \A i \in 1..Len(out) : out'[i] = out[i]
    BY <2>1, <2>2
  <2>4. Collected'
    BY <1>5, <2>1, <2>2 DEF Collected
  <2>5. \A i \in 1..Len(out') : (i \in 1..Len(out) /\ out'[i] = out[i]) \/ ~out'[i].whole
    BY <2>1, <2>3
  <2>6. UnitPerFrame'
    BY <2>5 DEF FrameInv, UnitPerFrame
  <2> QED BY <1>1, <1>3, <1>5, <2>4, <2>6 DEF FrameInv
<1> QED BY <1>2, <1>4, <1>5

(* The line of pieces and the frames, invariant.                           *)
THEOREM FramesInvariance == Spec => []FrameInv
<1>1. Init => FrameInv
  <2> SUFFICES ASSUME Init PROVE FrameInv
    OBVIOUS
  <2>1. /\ nal = NoNal /\ net = <<>> /\ buf = <<>> /\ out = <<>>
        /\ Len(net) = 0 /\ Len(buf) = 0 /\ Len(out) = 0
    BY DEF Init
  <2>2. Line /\ PacketsFit /\ Loop /\ UnitPerFrame
    BY <2>1 DEF Line, NetApart, BufApart, NetEnds, BufEnds, PacketsFit, Loop, UnitPerFrame
  <2>3. Collected
    BY <2>1 DEF Collected
  <2> QED BY <2>2, <2>3 DEF FrameInv
<1>2. BoundsInv /\ FrameInv /\ [Next]_vars => FrameInv'
  <2> SUFFICES ASSUME BoundsInv, FrameInv, [Next]_vars PROVE FrameInv'
    OBVIOUS
  <2>1. CASE Tx
    <3>1. ASSUME NEW t \in Types, SkipNal(t) PROVE FrameInv'
      BY <3>1, OthersKeepFrames DEF SkipNal, rxVars
    <3> QED BY <2>1, <3>1, SingleKeepsFrames, StartKeepsFrames, FragmentKeepsFrames DEF Tx
  <2>2. CASE StartFrame \/ ReadTimeout \/ StopSeen \/ StopStreaming \/ Consumer
    <3>1. UNCHANGED <<nal, off, net, lost>>
      BY <2>2 DEF StartFrame, ReadTimeout, StopSeen, StopStreaming, Consumer, txVars
    <3>2. \/ UNCHANGED <<buf, out>>
          \/ buf' = <<>> /\ out' = out
          \/ buf' = <<>> /\ out' = Append(out, [whole |-> FALSE, chunks |-> buf])
      BY <2>2 DEF StartFrame, ReadTimeout, StopSeen, StopStreaming, Consumer
    <3> QED BY <3>1, <3>2, OthersKeepFrames
  <2>3. CASE UNCHANGED vars
    BY <2>3, OthersKeepFrames DEF vars, txVars, rxVars
  <2> QED BY <2>1, <2>2, <2>3, GetDataKeepsFrames DEF Next, Rx
<1> QED BY <1>1, <1>2, BoundsInvariance, PTL DEF Spec

(* Every frame that the client completes holds one coded unit, with the    *)
(* parameter sets in front of it, unless a marked packet was lost or the   *)
(* unit before ends in a full fragment and so was sent without a marker:   *)
(* whatever the sizes, the fragment length and the packets lost.           *)
THEOREM OneUnitPerFrame == Spec => []UnitPerFrame
  BY FramesInvariance, PTL DEF FrameInv

-----------------------------------------------------------------------------
(***************************************************************************)
(* Concatenation.  FlattenSeq is recursive; that it takes a last sequence  *)
(* apart is an induction, here over sets of numbers.                       *)
(***************************************************************************)
Below == {p \in Nat \X Nat : p[1] < p[2]}

(* A set of numbers has a least one.                                       *)
LEMMA Least ==
  ASSUME NEW T \in SUBSET Nat, T # {}
  PROVE  \E x \in T : \A y \in T : x <= y
<1>1. IsWellFoundedOn(Below, Nat)
  BY NatLessThanWellFounded DEF OpToRel, Below
<1>2. PICK x \in T : \A y \in T : ~(<<y, x>> \in Below)
  BY <1>1, WFMin, Zenon
<1>3. \A y \in T : y < x => <<y, x>> \in Below
  BY DEF Below
<1>4. \A y \in T : x <= y
  <2> TAKE y \in T
  <2>1. x \in Nat /\ y \in Nat /\ ~(y < x)
    BY <1>2, <1>3
  <2> QED BY <2>1
<1> QED BY <1>4

(* A set with 0 and every successor holds all numbers.                     *)
LEMMA AllNumbers ==
  ASSUME NEW T \in SUBSET Nat, 0 \in T, \A n \in T : n + 1 \in T
  PROVE  \A n \in Nat : n \in T
<1> SUFFICES ASSUME Nat \ T # {} PROVE FALSE
  OBVIOUS
<1>1. PICK x \in Nat \ T : \A y \in Nat \ T : x <= y
  BY Least, Zenon
<1>2. x # 0 /\ x \in Nat
  BY <1>1
<1>3. x - 1 \in Nat /\ (x - 1) + 1 = x /\ ~(x <= x - 1)
  BY <1>2
<1>4. x - 1 \in T
  BY <1>1, <1>3
<1> QED BY <1>1, <1>3, <1>4

(* g concatenates the first n members of s, as FlattenSeq defines it.      *)
Flat(g, s, n) == g = [i \in 1..n |-> IF i = 1 THEN s[i] ELSE g[i - 1] \o s[i]]

LEMMA FlatAt ==
  ASSUME NEW g, NEW s, NEW n, Flat(g, s, n), NEW i \in 1..n
  PROVE  g[i] = IF i = 1 THEN s[i] ELSE g[i - 1] \o s[i]
<1> DEFINE f == [j \in 1..n |-> IF j = 1 THEN s[j] ELSE g[j - 1] \o s[j]]
<1>1. f[i] = IF i = 1 THEN s[i] ELSE g[i - 1] \o s[i]
  OBVIOUS
<1>2. g = f
  BY DEF Flat
<1> HIDE DEF f
<1> QED BY <1>1, <1>2, Zenon

(* There is such a function, and all agree where they overlap.             *)
LEMMA FlatExists ==
  ASSUME NEW s
  PROVE  \A n \in Nat : \E g : Flat(g, s, n)
<1> DEFINE T == {n \in Nat : \E g : Flat(g, s, n)}
<1>1. 0 \in T
  <2>1. Flat(<<>>, s, 0)
    BY DEF Flat
  <2> QED BY <2>1
<1>2. ASSUME NEW n \in T PROVE n + 1 \in T
  <2>1. PICK g : Flat(g, s, n)
    OBVIOUS
  <2> DEFINE h == [i \in 1..(n + 1) |-> IF i = 1 THEN s[i] ELSE g[i - 1] \o s[i]]
  <2>2. \A i \in 1..(n + 1) : h[i] = IF i = 1 THEN s[i] ELSE g[i - 1] \o s[i]
    OBVIOUS
  <2>3. \A i \in 1..(n + 1) : i # 1 => i - 1 \in 1..n /\ i - 1 \in 1..(n + 1)
    OBVIOUS
  <2>4. \A i \in 1..n : i \in 1..(n + 1) /\ g[i] = IF i = 1 THEN s[i] ELSE g[i - 1] \o s[i]
    BY <2>1, FlatAt
  <2>5. DOMAIN h = 1..(n + 1) /\ h = [i \in 1..(n + 1) |-> h[i]]
    OBVIOUS
  <2> HIDE DEF h
  <2>6. \A i \in 1..n : h[i] = g[i]
    BY <2>2, <2>4
  <2>7. \A i \in 1..(n + 1) : h[i] = IF i = 1 THEN s[i] ELSE h[i - 1] \o s[i]
    BY <2>2, <2>3, <2>6
  <2>8. Flat(h, s, n + 1)
    <3> DEFINE k == [i \in 1..(n + 1) |-> IF i = 1 THEN s[i] ELSE h[i - 1] \o s[i]]
    <3>1. DOMAIN k = 1..(n + 1) /\ \A i \in 1..(n + 1) : k[i] = IF i = 1 THEN s[i] ELSE h[i - 1] \o s[i]
      OBVIOUS
    <3>2. k = [i \in 1..(n + 1) |-> k[i]]
      OBVIOUS
    <3>3. h = k
      <4> HIDE DEF k
      <4>1. \A i \in 1..(n + 1) : h[i] = k[i]
        BY <2>7, <3>1
      <4> QED BY <2>5, <3>2, <4>1
    <3> QED BY <3>3 DEF Flat
  <2>9. n + 1 \in Nat
    OBVIOUS
  <2> QED BY <2>8, <2>9
<1>3. \A n \in Nat : n \in T
  <2> HIDE DEF T
  <2>1. T \in SUBSET Nat
    BY DEF T
  <2> QED BY <1>1, <1>2, <2>1, AllNumbers
<1> QED BY <1>3

LEMMA FlatUnique ==
  ASSUME NEW s, NEW t, NEW n \in Nat, NEW m \in Nat, n <= m, NEW g, NEW h, Flat(g, s, n), Flat(h, t, m),
         \A i \in 1..n : s[i] = t[i]
  PROVE  \A i \in 1..n : g[i] = h[i]
<1> DEFINE T == {i \in Nat : i \in 1..n => g[i] = h[i]}
<1>1. ASSUME NEW i \in T PROVE i + 1 \in T
  <2> SUFFICES ASSUME i + 1 \in 1..n PROVE g[i + 1] = h[i + 1]
    OBVIOUS
  <2>1. /\ g[i + 1] = IF i + 1 = 1 THEN s[i + 1] ELSE g[(i + 1) - 1] \o s[i + 1]
        /\ h[i + 1] = IF i + 1 = 1 THEN t[i + 1] ELSE h[(i + 1) - 1] \o t[i + 1]
    <3>1. i + 1 \in 1..m
      OBVIOUS
    <3> QED BY <3>1, FlatAt
  <2>2. (i + 1) - 1 = i /\ s[i + 1] = t[i + 1] /\ (i + 1 # 1 => g[i] = h[i])
    OBVIOUS
  <2> QED BY <2>1, <2>2
<1>2. 0 \in T
  OBVIOUS
<1>3. \A i \in Nat : i \in T
  <2> HIDE DEF T
  <2>1. T \in SUBSET Nat
    BY DEF T
  <2> QED BY <1>1, <1>2, <2>1, AllNumbers
<1> QED BY <1>3

(* So FlattenSeq is the last value of one.                                 *)
LEMMA FlattenIs ==
  ASSUME NEW s, NEW n \in Nat \ {0}, Len(s) = n
  PROVE  \E g : Flat(g, s, n) /\ FlattenSeq(s) = g[n]
<1>1. \E g : Flat(g, s, n)
  BY FlatExists
<1> DEFINE f == CHOOSE g : g = [i \in 1..n |-> IF i = 1 THEN s[i] ELSE g[i - 1] \o s[i]]
<1>2. Flat(f, s, n)
  BY <1>1 DEF Flat
<1>3. FlattenSeq(s) = f[n]
  BY DEF FlattenSeq
<1> QED BY <1>2, <1>3

LEMMA FlattenEmpty == FlattenSeq(<<>>) = <<>>
  BY DEF FlattenSeq

(* A sequence with one member more.                                        *)
LEMMA FlattenLonger ==
  ASSUME NEW r, NEW t, NEW n \in Nat \ {0}, NEW m \in Nat, m = n + 1,
         Len(r) = n, Len(t) = m, \A i \in 1..n : r[i] = t[i]
  PROVE  FlattenSeq(t) = FlattenSeq(r) \o t[m]
<1>1. PICK g : Flat(g, r, n) /\ FlattenSeq(r) = g[n]
  BY FlattenIs
<1>2. PICK h : Flat(h, t, m) /\ FlattenSeq(t) = h[m]
  <2>1. m \in Nat \ {0}
    OBVIOUS
  <2> QED BY <2>1, FlattenIs
<1>3. n <= m /\ n \in Nat /\ m \in Nat /\ n \in 1..n /\ m \in 1..m /\ m - 1 = n /\ m # 1
  OBVIOUS
<1>4. h[m] = h[n] \o t[m]
  <2>1. h[m] = IF m = 1 THEN t[m] ELSE h[m - 1] \o t[m]
    <3>1. m \in 1..m
      OBVIOUS
    <3> QED BY ONLY <1>2, <3>1, FlatAt
  <2> QED BY ONLY <1>3, <2>1
<1>5. \A i \in 1..n : r[i] = t[i]
  OBVIOUS
<1>6. \A i \in 1..n : g[i] = h[i]
  BY ONLY <1>1, <1>2, <1>3, <1>5, FlatUnique
<1>7. g[n] = h[n]
  BY ONLY <1>3, <1>6
<1> QED BY ONLY <1>1, <1>2, <1>4, <1>7

LEMMA FlattenOne ==
  ASSUME NEW x
  PROVE  FlattenSeq(<<x>>) = x
<1>1. PICK t : t = <<x>>
  OBVIOUS
<1>2. PICK n \in Nat \ {0} : n = 1
  OBVIOUS
<1>3. Len(t) = n /\ t[n] = x /\ n \in 1..n /\ n = 1
  BY <1>1, <1>2
<1>4. PICK h : Flat(h, t, n) /\ FlattenSeq(t) = h[n]
  BY <1>3, FlattenIs
<1>5. h[n] = IF n = 1 THEN t[n] ELSE h[n - 1] \o t[n]
  BY <1>3, <1>4, FlatAt
<1> QED BY <1>1, <1>3, <1>4, <1>5

LEMMA FlattenAppend ==
  ASSUME NEW S, NEW s \in Seq(Seq(S)), NEW x \in Seq(S)
  PROVE  FlattenSeq(Append(s, x)) = FlattenSeq(s) \o x
<1>1. CASE Len(s) = 0
  <2>1. s = <<>>
    BY <1>1
  <2>2. Append(s, x) = <<x>> /\ FlattenSeq(<<x>>) = x
    <3>1. Append(s, x) = <<x>>
      BY <2>1
    <3> QED BY <3>1, FlattenOne
  <2>3. <<>> \o x = x
    OBVIOUS
  <2> QED BY <2>1, <2>2, <2>3, FlattenEmpty
<1>2. CASE Len(s) # 0
  <2>1. PICK n \in Nat \ {0} : n = Len(s)
    BY <1>2
  <2>2. PICK m \in Nat : m = n + 1
    OBVIOUS
  <2>3. PICK t : t = Append(s, x)
    OBVIOUS
  <2>4. Len(t) = m /\ t[m] = x /\ \A i \in 1..n : s[i] = t[i]
    BY <2>1, <2>2, <2>3
  <2>5. FlattenSeq(t) = FlattenSeq(s) \o t[m]
    BY <2>1, <2>2, <2>4, FlattenLonger
  <2> QED BY <2>3, <2>4, <2>5
<1> QED BY <1>1, <1>2

-----------------------------------------------------------------------------
(***************************************************************************)
(* The byte stream.  What the client received and the packets on their way *)
(* to it are one stream: taking a packet from the network moves the border *)
(* between the two and changes nothing else.  It is orderly up to its tip, *)
(* and the tip is where the packetiser is.                                 *)
(***************************************************************************)

(* No type that the depacketiser does not know: of 11..23 it drops the     *)
(* first two bytes.                                                        *)
Plain == Types \cap 11..23 = {}

(* The chunk that a packet becomes.                                        *)
Piece(p) == Chunk(p, IF p.s THEN 0 ELSE p.from, p.type # FU_A \/ p.s)

Written == FlattenSeq([i \in 1..Len(out) |-> out[i].chunks])
Pieces == [i \in 1..Len(net) |-> Piece(net[i])]
Stream == Received \o Pieces

Spoiled(v, ls) == \E m \in BOOLEAN : <<v.n, m>> \in ls
Whole(a, ls) == a.to = a.nal.size \/ Spoiled(a.nal, ls)
Starts(b, ls) == b.from = 0 \/ Spoiled(b.nal, ls)

Follows(a, b, ls) ==
  IF b.nal = a.nal
    THEN b.from = a.to \/ Spoiled(b.nal, ls)
    ELSE Starts(b, ls) /\ Whole(a, ls) /\ a.nal.n < b.nal.n

Orderly(r, ls) ==
  \A i \in 1..Len(r) :
    /\ r[i].code <=> r[i].from = 0
    /\ i = 1 => Starts(r[i], ls)
    /\ i > 1 => Follows(r[i - 1], r[i], ls)

(* The last piece is of the unit being fragmented, v, and ends at its next *)
(* fragment; or v is new, and what was before it is complete.  The units   *)
(* are numbered, c of them so far.                                         *)
InUnit(r, v) == Len(r) > 0 /\ r[Len(r)].nal = v
Done(r, n, ls) == Len(r) > 0 => Whole(r[Len(r)], ls) /\ r[Len(r)].nal.n <= n
Tip(r, v, o, c, ls) ==
  /\ v = NoNal => Done(r, c, ls)
  /\ v # NoNal => v.n = c
  /\ v # NoNal /\ InUnit(r, v) => o # 0 /\ (r[Len(r)].to = o \/ Spoiled(v, ls))
  /\ v # NoNal /\ ~InUnit(r, v) => (o = 0 \/ Spoiled(v, ls)) /\ Done(r, c - 1, ls)

(* Packets are of the types that the depacketiser knows.                   *)
Known(p) ==
  /\ p.type \in (1..10) \cup {FU_A}
  /\ p.type # FU_A => p.from = 0 /\ ~p.s
PacketsKnown == \A i \in 1..Len(net) : Known(net[i])

StreamInv ==
  /\ Written \in Seq(ChunkSet)
  /\ rpc = "full" => buf = <<>>
  /\ PacketsKnown
  /\ Orderly(Stream, lost)
  /\ Tip(Stream, nal, off, count, lost)

(* Sequences put together in another order.                                *)
LEMMA ConcatAppend ==
  ASSUME NEW S, NEW r \in Seq(S), NEW t \in Seq(S), NEW x \in S
  PROVE  r \o Append(t, x) = Append(r \o t, x)
  OBVIOUS

LEMMA ConcatShift ==
  ASSUME NEW S, NEW r \in Seq(S), NEW t \in Seq(S), t # <<>>
  PROVE  Append(r, Head(t)) \o Tail(t) = r \o t
  OBVIOUS

LEMMA ConcatEmpty ==
  ASSUME NEW S, NEW r \in Seq(S)
  PROVE  r \o <<>> = r
  OBVIOUS

(* A piece whose packet is lost excuses more, never less.                  *)
LEMMA MoreLost ==
  ASSUME NEW ks, NEW ls, ks \subseteq ls
  PROVE  /\ \A v : Spoiled(v, ks) => Spoiled(v, ls)
         /\ \A r : Orderly(r, ks) => Orderly(r, ls)
         /\ \A r, n : Done(r, n, ks) => Done(r, n, ls)
         /\ \A r, v, o, c : Tip(r, v, o, c, ks) => Tip(r, v, o, c, ls)
<1>1. \A v : Spoiled(v, ks) => Spoiled(v, ls)
  BY DEF Spoiled
<1>2. \A a : Whole(a, ks) => Whole(a, ls)
  BY <1>1 DEF Whole
<1>3. \A b : Starts(b, ks) => Starts(b, ls)
  BY <1>1 DEF Starts
<1>4. \A a, b : Follows(a, b, ks) => Follows(a, b, ls)
  BY <1>1, <1>2, <1>3 DEF Follows
<1>5. \A r : Orderly(r, ks) => Orderly(r, ls)
  BY <1>3, <1>4 DEF Orderly
<1>6. \A r, n : Done(r, n, ks) => Done(r, n, ls)
  BY <1>2 DEF Done
<1>7. \A r, v, o, c : Tip(r, v, o, c, ks) => Tip(r, v, o, c, ls)
  BY <1>1, <1>6 DEF Tip
<1> QED BY <1>1, <1>5, <1>6, <1>7

(* One piece more.                                                         *)
LEMMA OrderlyAppend ==
  ASSUME NEW r \in Seq(ChunkSet), NEW b \in ChunkSet, NEW ls, Orderly(r, ls),
         b.code <=> b.from = 0,
         Len(r) = 0 => Starts(b, ls),
         Len(r) > 0 => Follows(r[Len(r)], b, ls)
  PROVE  Orderly(Append(r, b), ls)
<1>1. PICK t : t = Append(r, b)
  OBVIOUS
<1>2. PICK n \in Nat : n = Len(r)
  OBVIOUS
<1>3. Len(t) = n + 1 /\ t[n + 1] = b /\ \A i \in 1..n : t[i] = r[i]
  BY <1>1, <1>2
<1>4. ASSUME NEW i \in 1..(n + 1)
      PROVE  /\ t[i].code <=> t[i].from = 0
             /\ i = 1 => Starts(t[i], ls)
             /\ i > 1 => Follows(t[i - 1], t[i], ls)
  <2>1. CASE i \in 1..n
    <3>1. i > 1 => i - 1 \in 1..n
      BY <2>1
    <3> QED BY <1>2, <1>3, <2>1, <3>1 DEF Orderly
  <2>2. CASE i = n + 1
    <3>1. i > 1 => i - 1 = n /\ n \in 1..n /\ n > 0
      BY <2>2
    <3>2. i = 1 => n = 0
      BY <2>2
    <3> QED BY <1>2, <1>3, <2>2, <3>1, <3>2
  <2> QED BY <2>1, <2>2
<1> QED BY <1>1, <1>3, <1>4 DEF Orderly

(* What the client has is the front of the stream.                         *)
LEMMA OrderlyFront ==
  ASSUME NEW r \in Seq(ChunkSet), NEW t \in Seq(ChunkSet), NEW ls, Orderly(r \o t, ls)
  PROVE  Orderly(r, ls)
<1>1. PICK u : u = r \o t
  OBVIOUS
<1>2. \A i \in 1..Len(r) : i \in 1..Len(u) /\ u[i] = r[i]
  BY <1>1
<1>3. \A i \in 1..Len(r) : i > 1 => i - 1 \in 1..Len(r)
  OBVIOUS
<1> QED BY <1>1, <1>2, <1>3 DEF Orderly

(* What becomes of a packet.                                               *)
LEMMA PieceOfPacket ==
  ASSUME NEW p \in Packets
  PROVE  /\ Piece(p) \in ChunkSet /\ Piece(p).nal = p.nal /\ Piece(p).to = p.to
         /\ Piece(p).from = IF p.s THEN 0 ELSE p.from
         /\ Piece(p).code <=> p.type # FU_A \/ p.s
<1>1. p.nal \in Nals /\ p.from \in Nat /\ p.to \in Nat /\ p.s \in BOOLEAN
  BY DEF Packets
<1> DEFINE code == p.type # FU_A \/ p.s
<1>2. code \in BOOLEAN
  OBVIOUS
<1>3. (IF p.s THEN 0 ELSE p.from) \in Nat
  BY <1>1
<1> QED BY <1>1, <1>2, <1>3 DEF Piece, Chunk, ChunkSet

LEMMA PiecesOfNet ==
  ASSUME net \in Seq(Packets)
  PROVE  Pieces \in Seq(ChunkSet) /\ Len(Pieces) = Len(net)
<1>1. \A i \in 1..Len(net) : net[i] \in Packets
  OBVIOUS
<1>2. \A i \in 1..Len(net) : Piece(net[i]) \in ChunkSet
  BY <1>1, PieceOfPacket
<1> QED BY <1>2 DEF Pieces

(* A packet sent is a piece at the end of the stream.                      *)
LEMMA StreamAppend ==
  ASSUME net \in Seq(Packets), Received \in Seq(ChunkSet), NEW p \in Packets,
         net' = Append(net, p), UNCHANGED <<out, buf>>
  PROVE  Stream' = Append(Stream, Piece(p))
<1>1. Piece(p) \in ChunkSet /\ Pieces \in Seq(ChunkSet)
  BY PieceOfPacket, PiecesOfNet
<1>2. Pieces' = Append(Pieces, Piece(p))
  <2>1. /\ Len(net') = Len(net) + 1 /\ Len(net) \in Nat /\ net'[Len(net) + 1] = p
        /\ \A i \in 1..Len(net) : net'[i] = net[i]
    OBVIOUS
  <2>2. Pieces' = [i \in 1..(Len(net) + 1) |-> Piece(net'[i])]
    BY <2>1 DEF Pieces
  <2>3. Append(Pieces, Piece(p)) = [i \in 1..(Len(net) + 1) |->
                                      IF i = Len(net) + 1 THEN Piece(p) ELSE Piece(net[i])]
    BY <2>1 DEF Pieces
  <2> QED BY <2>1, <2>2, <2>3
<1>3. Received' = Received
  BY DEF Received
<1> QED BY <1>1, <1>2, <1>3, ConcatAppend DEF Stream

(* A packet taken leaves the stream as it is.                              *)
LEMMA StreamTake ==
  ASSUME net \in Seq(Packets), net # <<>>, Received \in Seq(ChunkSet),
         net' = Tail(net), Received' = Append(Received, Piece(Head(net)))
  PROVE  Stream' = Stream
<1>1. Pieces \in Seq(ChunkSet) /\ Len(Pieces) = Len(net) /\ Pieces # <<>>
  <2>1. Len(net) # 0
    OBVIOUS
  <2> QED BY <2>1, PiecesOfNet
<1>2. Head(Pieces) = Piece(Head(net))
  <2>1. 1 \in 1..Len(net) /\ Head(net) = net[1]
    OBVIOUS
  <2>2. Pieces[1] = Piece(net[1])
    BY <2>1 DEF Pieces
  <2> QED BY <1>1, <2>1, <2>2
<1>3. Pieces' = Tail(Pieces)
  <2>1. /\ Len(net') = Len(net) - 1 /\ Len(net) \in Nat
        /\ \A i \in 1..(Len(net) - 1) : net'[i] = net[i + 1] /\ i + 1 \in 1..Len(net)
    OBVIOUS
  <2>2. Pieces' = [i \in 1..(Len(net) - 1) |-> Piece(net[i + 1])]
    BY <2>1 DEF Pieces
  <2>3. Tail(Pieces) = [i \in 1..(Len(net) - 1) |-> Pieces[i + 1]]
    <3>1. PICK t : t = Tail(Pieces)
      OBVIOUS
    <3>2. /\ t \in Seq(ChunkSet) /\ Len(t) = Len(net) - 1
          /\ \A i \in 1..(Len(net) - 1) : t[i] = Pieces[i + 1]
      BY <1>1, <2>1, <3>1
    <3>3. t = [i \in 1..Len(t) |-> t[i]]
      BY <3>2
    <3> QED BY <3>1, <3>2, <3>3
  <2>4. \A i \in 1..(Len(net) - 1) : Pieces[i + 1] = Piece(net[i + 1])
    BY <2>1 DEF Pieces
  <2> QED BY <2>2, <2>3, <2>4
<1> QED BY <1>1, <1>2, <1>3, ConcatShift DEF Stream

(* A frame written takes the chunks out of the buffer.                     *)
LEMMA FrameWritten ==
  ASSUME Collected, Written \in Seq(ChunkSet), NEW f \in Frames, out' = Append(out, f)
  PROVE  Written' = Written \o f.chunks /\ Written' \in Seq(ChunkSet)
<1>1. out \in Seq(Frames)
  BY DEF Collected
<1>2. f.chunks \in Seq(ChunkSet) /\ \A i \in 1..Len(out) : out[i].chunks \in Seq(ChunkSet)
  <2>1. \A g \in Frames : g.chunks \in Seq(ChunkSet)
    BY DEF Frames
  <2> QED BY <1>1, <2>1
<1> DEFINE cs == [i \in 1..Len(out) |-> out[i].chunks]
<1>3. cs \in Seq(Seq(ChunkSet))
  BY <1>1, <1>2
<1>4. [i \in 1..Len(out') |-> out'[i].chunks] = Append(cs, f.chunks)
  <2>1. /\ Len(out') = Len(out) + 1 /\ Len(out) \in Nat /\ out'[Len(out) + 1] = f
        /\ \A i \in 1..Len(out) : out'[i] = out[i]
    BY <1>1
  <2>2. Append(cs, f.chunks) = [i \in 1..(Len(out) + 1) |->
                                  IF i = Len(out) + 1 THEN f.chunks ELSE out[i].chunks]
    BY <1>1, <2>1
  <2> QED BY <2>1, <2>2
<1>5. Written' = FlattenSeq(Append(cs, f.chunks)) /\ Written = FlattenSeq(cs)
  BY <1>4 DEF Written
<1> HIDE DEF cs
<1>6. Written' = Written \o f.chunks
  BY <1>2, <1>3, <1>5, FlattenAppend
<1> QED BY <1>2, <1>6

(* Sending: a piece that continues the stream, lost or not, brings the tip *)
(* to where the packetiser goes.                                           *)
LEMMA SendKeepsStream ==
  ASSUME net \in Seq(Packets), Collected, StreamInv, NEW p \in Packets, Known(p),
         Send(p), UNCHANGED <<out, buf, rpc>>,
         Piece(p).code <=> Piece(p).from = 0,
         Len(Stream) = 0 => Starts(Piece(p), lost),
         Len(Stream) > 0 => Follows(Stream[Len(Stream)], Piece(p), lost),
         net' = Append(net, p) => Tip(Append(Stream, Piece(p)), nal', off', count', lost),
         <<p.nal.n, p.m>> \in lost' => Tip(Stream, nal', off', count', lost')
  PROVE  StreamInv'
<1>1. Written \in Seq(ChunkSet) /\ buf \in Seq(ChunkSet)
  BY DEF StreamInv, Collected
<1>2. Received \in Seq(ChunkSet)
  BY <1>1 DEF Received, Written
<1>3. Written' \in Seq(ChunkSet) /\ (rpc' = "full" => buf' = <<>>)
  BY <1>1 DEF StreamInv, Written
<1>4. ASSUME net' = net, lost' = lost \cup {<<p.nal.n, p.m>>} PROVE StreamInv'
  <2>1. Stream' = Stream
    BY <1>4 DEF Stream, Received, Pieces
  <2>2. Orderly(Stream, lost')
    BY <1>4, MoreLost DEF StreamInv
  <2>3. PacketsKnown'
    BY <1>4 DEF StreamInv, PacketsKnown
  <2>4. Tip(Stream, nal', off', count', lost')
    BY <1>4
  <2> QED BY <1>3, <2>1, <2>2, <2>3, <2>4 DEF StreamInv
<1>5. ASSUME net' = Append(net, p), lost' = lost PROVE StreamInv'
  <2>1. Stream' = Append(Stream, Piece(p))
    BY <1>2, <1>5, StreamAppend
  <2>2. Piece(p) \in ChunkSet /\ Stream \in Seq(ChunkSet)
    <3>1. Pieces \in Seq(ChunkSet)
      BY PiecesOfNet
    <3> QED BY <1>2, <3>1, PieceOfPacket DEF Stream
  <2>3. Orderly(Append(Stream, Piece(p)), lost)
    BY <2>2, OrderlyAppend DEF StreamInv
  <2>4. PacketsKnown'
    <3>1. /\ Len(net') = Len(net) + 1 /\ Len(net) \in Nat /\ net'[Len(net) + 1] = p
          /\ \A i \in 1..Len(net) : net'[i] = net[i]
      BY <1>5
    <3> QED BY <3>1 DEF StreamInv, PacketsKnown
  <2>5. Tip(Append(Stream, Piece(p)), nal', off', count', lost)
    BY <1>5
  <2> QED BY <1>3, <1>5, <2>1, <2>3, <2>4, <2>5 DEF StreamInv
<1> QED BY <1>4, <1>5 DEF Send

(* The last piece of the stream.                                           *)
LEMMA LastPiece ==
  ASSUME net \in Seq(Packets), Collected, StreamInv
  PROVE  /\ Stream \in Seq(ChunkSet) /\ Len(Stream) \in Nat /\ Received \in Seq(ChunkSet)
         /\ Len(Stream) > 0 => /\ Stream[Len(Stream)].nal \in Nals
                               /\ Stream[Len(Stream)].nal.n \in Nat
<1>1. Received \in Seq(ChunkSet)
  BY DEF StreamInv, Collected, Received, Written
<1>2. Stream \in Seq(ChunkSet)
  BY <1>1, PiecesOfNet DEF Stream
<1>3. Len(Stream) > 0 => Stream[Len(Stream)] \in ChunkSet
  BY <1>2
<1>4. \A c \in ChunkSet : c.nal \in Nals
  BY DEF ChunkSet
<1>5. \A v \in Nals : v.n \in Nat
  BY SizesNat DEF Nals
<1> QED BY <1>1, <1>2, <1>3, <1>4, <1>5

(* The end of a sequence that got longer.                                  *)
LEMMA LastOfAppend ==
  ASSUME NEW r \in Seq(ChunkSet), NEW b \in ChunkSet
  PROVE  /\ Len(Append(r, b)) > 0
         /\ Append(r, b)[Len(Append(r, b))] = b
  OBVIOUS

LEMMA SingleKeepsStream ==
  ASSUME Plain, BoundsInv, Collected, StreamInv,
         NEW t \in Types, NEW z \in SizesOf(t), SendSingle(t, z)
  PROVE  StreamInv'
<1> DEFINE p == [nal |-> NextNal(t, z), type |-> t, s |-> FALSE, e |-> FALSE,
                 m |-> SingleMarker(t), from |-> 0, to |-> z]
<1>1. /\ nal = NoNal /\ nal' = NoNal /\ count < MaxNals /\ count' = count + 1
      /\ UNCHANGED <<off, buf, out, rpc>> /\ Send(p)
  BY DEF SendSingle, rxVars
<1>2. net \in Seq(Packets) /\ count \in Nat
  BY SizesNat DEF BoundsInv, RangesOK
<1>3. p \in Packets
  <2>1. z \in AllSizes /\ z \in Nat /\ t \in 1..28
    BY SizesNat
  <2>2. count + 1 \in 1..MaxNals
    BY <1>1, <1>2, SizesNat
  <2>3. NextNal(t, z) \in Nals
    BY <2>1, <2>2 DEF NextNal, Nals
  <2>4. SingleMarker(t) \in BOOLEAN
    BY DEF SingleMarker
  <2> QED BY <2>1, <2>3, <2>4 DEF Packets
<1>4. t \in 1..10 /\ t # FU_A
  BY SizesNat DEF Plain, FU_A
<1>5. /\ p.type = t /\ p.from = 0 /\ ~p.s /\ p.to = z
      /\ p.nal.n = count + 1 /\ p.nal.size = z
  BY DEF NextNal
<1> HIDE DEF p
<1>6. Known(p)
  BY <1>4, <1>5 DEF Known
<1> DEFINE b == Piece(p)
<1>7. b \in ChunkSet /\ b.nal = p.nal /\ b.to = b.nal.size /\ b.from = 0 /\ b.code
      /\ b.nal.n = count + 1
  BY <1>3, <1>4, <1>5, PieceOfPacket
<1> HIDE DEF b
<1>8. Done(Stream, count, lost)
  BY <1>1 DEF StreamInv, Tip
<1>9. Len(Stream) > 0 => Follows(Stream[Len(Stream)], b, lost)
  <2> SUFFICES ASSUME Len(Stream) > 0 PROVE Follows(Stream[Len(Stream)], b, lost)
    OBVIOUS
  <2>1. Whole(Stream[Len(Stream)], lost) /\ Stream[Len(Stream)].nal.n < b.nal.n
    BY <1>2, <1>7, <1>8, LastPiece DEF Done
  <2>2. b.nal # Stream[Len(Stream)].nal
    BY <1>2, <1>7, <2>1, LastPiece
  <2>3. Starts(b, lost)
    BY <1>7 DEF Starts
  <2> QED BY <2>1, <2>2, <2>3 DEF Follows
<1>10. Tip(Append(Stream, b), nal', off', count', lost)
  <2>1. Done(Append(Stream, b), count + 1, lost)
    BY <1>2, <1>7, LastPiece, LastOfAppend DEF Done, Whole
  <2> QED BY <1>1, <2>1 DEF Tip
<1>11. lost \subseteq lost' => Tip(Stream, nal', off', count', lost')
  <2> SUFFICES ASSUME lost \subseteq lost' PROVE Done(Stream, count + 1, lost')
    BY <1>1 DEF Tip
  <2>1. Done(Stream, count, lost')
    BY <1>8, MoreLost
  <2> QED BY <1>2, <2>1, LastPiece DEF Done
<1>12. lost \subseteq lost'
  BY <1>1 DEF Send
<1>13. (b.code <=> b.from = 0) /\ (Len(Stream) = 0 => Starts(b, lost))
  BY <1>7 DEF Starts
<1> QED BY <1>1, <1>2, <1>3, <1>6, <1>9, <1>10, <1>11, <1>12, <1>13, SendKeepsStream DEF b

(* A new unit to fragment: what was before it is complete.                 *)
LEMMA StartKeepsStream ==
  ASSUME BoundsInv, Collected, StreamInv,
         NEW t \in Types, NEW z \in SizesOf(t), StartFragments(t, z)
  PROVE  StreamInv'
<1>1. /\ nal = NoNal /\ nal' = NextNal(t, z) /\ off' = 0 /\ count' = count + 1
      /\ UNCHANGED <<net, lost, buf, out, rpc>>
  BY DEF StartFragments, rxVars
<1>2. net \in Seq(Packets) /\ count \in Nat
  BY SizesNat DEF BoundsInv, RangesOK
<1>3. Stream' = Stream /\ Written' = Written
  BY <1>1 DEF Stream, Received, Pieces, Written
<1>4. nal'.n = count + 1
  BY <1>1 DEF NextNal
<1>5. nal' # NoNal
  <2>1. NoNal.n = 0
    BY DEF NoNal
  <2> QED BY <1>2, <1>4, <2>1
<1>6. Done(Stream, count, lost)
  BY <1>1 DEF StreamInv, Tip
<1>7. ~InUnit(Stream, nal')
  <2> SUFFICES ASSUME Len(Stream) > 0, Stream[Len(Stream)].nal = nal' PROVE FALSE
    BY DEF InUnit
  <2>1. Stream[Len(Stream)].nal.n <= count
    BY <1>6 DEF Done
  <2> QED BY <1>2, <1>4, <2>1
<1>8. (count + 1) - 1 = count
  BY <1>2
<1>9. Tip(Stream, nal', off', count', lost)
  BY <1>1, <1>4, <1>5, <1>6, <1>7, <1>8 DEF Tip
<1> QED BY <1>1, <1>3, <1>9 DEF StreamInv, PacketsKnown

(* A fragment begins where the one before it ended; the first one, which   *)
(* becomes a chunk with the header put back, at 0.                         *)
LEMMA FragmentKeepsStream ==
  ASSUME BoundsInv, Collected, StreamInv, Fragment
  PROVE  StreamInv'
<1> DEFINE p == [nal |-> nal, type |-> FU_A, s |-> off = 0,
                 e |-> off # 0 /\ PayloadLen = Left, m |-> FuLen > Left,
                 from |-> From, to |-> From + PayloadLen]
<1>1. /\ nal # NoNal /\ Send(p) /\ UNCHANGED <<buf, out, rpc, count>>
      /\ IF MoreToSend THEN off' = From + PayloadLen /\ nal' = nal
                       ELSE off' = 0 /\ nal' = NoNal
  BY DEF Fragment, rxVars
<1>2. net \in Seq(Packets) /\ count \in Nat /\ nal \in Nals /\ off \in Nat
  <2>1. nal \in Nals /\ off \in 0..(nal.size - 1)
    BY <1>1 DEF BoundsInv, RangesOK
  <2> QED BY <2>1, SizesNat DEF BoundsInv, RangesOK
<1>3. /\ From \in Nat /\ PayloadLen \in Nat /\ PayloadLen > 0 /\ nal.size \in Nat
      /\ From + PayloadLen <= nal.size
  BY <1>1, FragmentFits, SizesNat DEF BoundsInv
<1>4. p \in Packets
  BY <1>2, <1>3 DEF Packets, FU_A
<1>5. /\ p.type = FU_A /\ (p.s <=> off = 0) /\ p.from = From /\ p.to = From + PayloadLen
      /\ p.nal = nal /\ p.m \in BOOLEAN
  <2>1. /\ p.type = FU_A /\ p.from = From /\ p.to = From + PayloadLen /\ p.nal = nal
    OBVIOUS
  <2>2. p.s = (off = 0)
    OBVIOUS
  <2>3. p.m \in BOOLEAN
    BY <1>4 DEF Packets
  <2> QED BY <2>1, <2>2, <2>3
<1> HIDE DEF p
<1>6. Known(p)
  BY <1>5 DEF Known
<1> DEFINE b == Piece(p)
<1>7. b \in ChunkSet /\ b.nal = nal /\ b.from = off /\ (b.code <=> b.from = 0) /\ b.to = From + PayloadLen
  <2>1. b \in ChunkSet /\ b.nal = nal /\ b.to = From + PayloadLen
    BY <1>4, <1>5, PieceOfPacket
  <2>2. b.from = off
    <3>1. b.from = IF p.s THEN 0 ELSE p.from
      BY <1>4, PieceOfPacket
    <3> QED BY <1>5, <3>1 DEF From
  <2>3. b.code <=> b.from = 0
    <3>1. b.code <=> p.type # FU_A \/ p.s
      BY <1>4, PieceOfPacket
    <3> QED BY <1>5, <2>2, <3>1
  <2> QED BY <2>1, <2>2, <2>3
<1> HIDE DEF b
<1>8. Tip(Stream, nal, off, count, lost)
  BY DEF StreamInv
<1>9. nal.n = count
  BY <1>1, <1>8 DEF Tip
<1>10. PICK r \in Seq(ChunkSet) : r = Stream
  BY <1>2, LastPiece
<1>11. Len(r) = 0 => Starts(b, lost)
  <2> SUFFICES ASSUME Len(r) = 0 PROVE Starts(b, lost)
    OBVIOUS
  <2>1. ~InUnit(r, nal)
    BY DEF InUnit
  <2> QED BY <1>1, <1>7, <1>8, <1>10, <2>1 DEF Tip, Starts
<1>12. Len(r) > 0 => Follows(r[Len(r)], b, lost)
  <2> SUFFICES ASSUME Len(r) > 0 PROVE Follows(r[Len(r)], b, lost)
    OBVIOUS
  <2>1. CASE r[Len(r)].nal = nal
    BY <1>1, <1>7, <1>8, <1>10, <2>1 DEF Tip, InUnit, Follows
  <2>2. CASE r[Len(r)].nal # nal
    <3>1. (off = 0 \/ Spoiled(nal, lost)) /\ Done(r, count - 1, lost)
      BY <1>1, <1>8, <1>10, <2>2 DEF Tip, InUnit
    <3>2. Whole(r[Len(r)], lost) /\ r[Len(r)].nal.n <= count - 1
      BY <3>1 DEF Done
    <3>3. r[Len(r)].nal.n \in Nat
      BY <1>2, <1>10, LastPiece
    <3>4. r[Len(r)].nal.n < b.nal.n
      BY <1>2, <1>7, <1>9, <3>2, <3>3
    <3> QED BY <1>7, <2>2, <3>1, <3>2, <3>4 DEF Follows, Starts
  <2> QED BY <2>1, <2>2
<1>13. Tip(Append(r, b), nal', off', count', lost)
  <2>1. /\ Len(Append(r, b)) > 0
        /\ Append(r, b)[Len(Append(r, b))] = b
    BY <1>7, LastOfAppend
  <2>2. CASE MoreToSend
    <3>1. off' = From + PayloadLen /\ off' # 0 /\ nal' = nal /\ count' = count
      BY <1>1, <1>3, <2>2
    <3>2. InUnit(Append(r, b), nal)
      BY <1>7, <2>1 DEF InUnit
    <3> QED BY <1>1, <1>7, <1>9, <2>1, <3>1, <3>2 DEF Tip
  <2>3. CASE ~MoreToSend
    <3>1. nal' = NoNal /\ count' = count
      BY <1>1, <2>3
    <3>2. b.to = b.nal.size
      BY <1>3, <1>7, <2>3 DEF MoreToSend
    <3>3. Done(Append(r, b), count, lost)
      BY <1>2, <1>7, <1>9, <2>1, <3>2 DEF Done, Whole
    <3> QED BY <3>1, <3>3 DEF Tip
  <2> QED BY <2>2, <2>3
<1>14. ASSUME <<p.nal.n, p.m>> \in lost' PROVE Tip(r, nal', off', count', lost')
  <2>1. Spoiled(nal, lost')
    BY <1>5, <1>14 DEF Spoiled
  <2>2. lost \subseteq lost'
    BY <1>1 DEF Send
  <2>3. /\ InUnit(r, nal) => Done(r, count, lost')
        /\ ~InUnit(r, nal) => Done(r, count - 1, lost')
    <3>1. CASE InUnit(r, nal)
      BY <1>2, <1>9, <2>1, <3>1 DEF InUnit, Done, Whole
    <3>2. CASE ~InUnit(r, nal)
      <4>1. Done(r, count - 1, lost)
        BY <1>1, <1>8, <1>10, <3>2 DEF Tip
      <4> QED BY <2>2, <3>2, <4>1, MoreLost
    <3> QED BY <3>1, <3>2
  <2>4. CASE MoreToSend
    <3>1. off' = From + PayloadLen /\ off' # 0 /\ nal' = nal /\ count' = count
      BY <1>1, <1>3, <2>4
    <3> QED BY <1>1, <1>9, <2>1, <2>3, <3>1 DEF Tip
  <2>5. CASE ~MoreToSend
    <3>1. nal' = NoNal /\ count' = count
      BY <1>1, <2>5
    <3>2. Len(r) > 0 => r[Len(r)].nal.n \in Nat
      BY <1>2, <1>10, LastPiece
    <3>3. Done(r, count, lost')
      BY <1>2, <2>3, <3>2 DEF Done
    <3> QED BY <3>1, <3>3 DEF Tip
  <2> QED BY <2>4, <2>5
<1> QED BY <1>1, <1>2, <1>4, <1>6, <1>7, <1>10, <1>11, <1>12, <1>13, <1>14, SendKeepsStream DEF b

(* A packet of a known type becomes its piece, whatever the client does.   *)
LEMMA ChunkIsPiece ==
  ASSUME NEW p \in Packets, Known(p), NEW c \in Chunks(p)
  PROVE  c = Piece(p)
<1>1. p.s \in BOOLEAN
  BY DEF Packets
<1>2. CASE p.type = FU_A
  <2>1. c = Chunk(p, IF p.s THEN 0 ELSE p.from, p.s)
    BY <1>2 DEF Chunks, FU_A
  <2>2. (p.type # FU_A \/ p.s) = p.s
    BY <1>1, <1>2
  <2> QED BY <2>1, <2>2 DEF Piece
<1>3. CASE p.type \in 1..10
  <2>1. p.type # FU_A /\ ~(p.type \in 11..23)
    BY <1>3 DEF FU_A
  <2>2. Chunks(p) = {Chunk(p, 0, TRUE)}
    BY <1>3, <2>1 DEF Chunks
  <2>3. (p.type # FU_A \/ p.s) = TRUE /\ (IF p.s THEN 0 ELSE p.from) = 0
    BY <2>1 DEF Known
  <2> QED BY <2>2, <2>3 DEF Piece
<1> QED BY <1>2, <1>3 DEF Known

LEMMA GetDataKeepsStream ==
  ASSUME BoundsInv, Collected, StreamInv, GetData
  PROVE  StreamInv'
<1>1. net \in Seq(Packets) /\ net # <<>> /\ Head(net) = net[1] /\ net[1] \in Packets /\ Known(net[1])
  <2>1. net \in Seq(Packets) /\ net # <<>>
    BY DEF BoundsInv, RangesOK, GetData
  <2>2. 1 \in 1..Len(net) /\ Head(net) = net[1]
    BY <2>1
  <2> QED BY <2>1, <2>2 DEF StreamInv, PacketsKnown
<1>2. net' = Tail(net) /\ UNCHANGED <<nal, off, count, lost>>
  BY DEF GetData, txVars
<1> DEFINE c == Piece(net[1])
<1>3. /\ net[1].m => /\ out' = Append(out, [whole |-> TRUE, chunks |-> Append(buf, c)])
                     /\ buf' = <<>>
      /\ ~net[1].m => buf' = Append(buf, c) /\ UNCHANGED <<out, rpc>>
      /\ rpc = "read"
  <2>1. PICK d \in Chunks(net[1]) :
          /\ net[1].m => /\ out' = Append(out, [whole |-> TRUE, chunks |-> Append(buf, d)])
                         /\ buf' = <<>>
          /\ ~net[1].m => buf' = Append(buf, d) /\ UNCHANGED <<out, rpc>>
    BY <1>1 DEF GetData
  <2>2. d = c
    BY <1>1, <2>1, ChunkIsPiece
  <2> QED BY <2>1, <2>2 DEF GetData
<1>4. c \in ChunkSet
  BY <1>1, PieceOfPacket
<1> HIDE DEF c
<1>5. buf \in Seq(ChunkSet) /\ Written \in Seq(ChunkSet) /\ Append(buf, c) \in Seq(ChunkSet)
  BY <1>4 DEF Collected, StreamInv
<1>6. Received = Written \o buf /\ Received' = Written' \o buf'
  BY DEF Received, Written
<1>7. Written \o Append(buf, c) = Append(Received, c)
  BY <1>4, <1>5, <1>6, ConcatAppend
<1>8. /\ Received' = Append(Received, c) /\ Written' \in Seq(ChunkSet)
      /\ rpc' = "full" => buf' = <<>>
  <2>1. CASE net[1].m
    <3> DEFINE f == [whole |-> TRUE, chunks |-> Append(buf, c)]
    <3>1. f \in Frames /\ f.chunks = Append(buf, c)
      BY <1>5 DEF Frames
    <3>2. out' = Append(out, f) /\ buf' = <<>>
      BY <1>3, <2>1
    <3> HIDE DEF f
    <3>3. Written' = Written \o Append(buf, c) /\ Written' \in Seq(ChunkSet)
      BY <1>5, <3>1, <3>2, FrameWritten
    <3>4. Written' \o <<>> = Written'
      BY <3>3, ConcatEmpty
    <3> QED BY <1>6, <1>7, <3>2, <3>3, <3>4
  <2>2. CASE ~net[1].m
    <3>1. Written' = Written
      BY <1>3, <2>2 DEF Written
    <3> QED BY <1>3, <1>5, <1>6, <1>7, <2>2, <3>1
  <2> QED BY <2>1, <2>2
<1>9. Received \in Seq(ChunkSet)
  BY <1>5, <1>6
<1>10. Stream' = Stream
  BY <1>1, <1>2, <1>8, <1>9, StreamTake DEF c
<1>11. PacketsKnown'
  <2>1. Len(net') = Len(net) - 1 /\ Len(net) \in Nat
        /\ \A i \in 1..(Len(net) - 1) : net'[i] = net[i + 1] /\ i + 1 \in 1..Len(net)
    BY <1>1, <1>2
  <2> QED BY <2>1 DEF StreamInv, PacketsKnown
<1> QED BY <1>2, <1>8, <1>10, <1>11 DEF StreamInv

(* Steps that send and take nothing.                                       *)
LEMMA OthersKeepStream ==
  ASSUME BoundsInv, Collected, StreamInv, UNCHANGED <<net, lost>>,
         Received' = Received, Written' \in Seq(ChunkSet), rpc' = "full" => buf' = <<>>,
         Tip(Stream, nal', off', count', lost)
  PROVE  StreamInv'
<1>1. Stream' = Stream
  BY DEF Stream, Pieces
<1> QED BY <1>1 DEF StreamInv, PacketsKnown

LEMMA RxKeepsStream ==
  ASSUME BoundsInv, Collected, StreamInv, UNCHANGED <<net, lost, nal, off, count>>,
         StartFrame \/ ReadTimeout \/ StopSeen \/ StopStreaming \/ Consumer \/ UNCHANGED vars
  PROVE  StreamInv'
<1>1. /\ buf \in Seq(ChunkSet) /\ Written \in Seq(ChunkSet)
      /\ Received = Written \o buf /\ Received' = Written' \o buf'
  BY DEF StreamInv, Collected, Received, Written
<1>2. Tip(Stream, nal', off', count', lost)
  BY DEF StreamInv
<1>3. CASE StopSeen
  <2> DEFINE f == [whole |-> FALSE, chunks |-> buf]
  <2>1. f \in Frames /\ f.chunks = buf
    BY <1>1 DEF Frames
  <2>2. out' = Append(out, f) /\ buf' = <<>> /\ rpc' = "ended"
    BY <1>3 DEF StopSeen
  <2> HIDE DEF f
  <2>3. Written' = Written \o buf /\ Written' \in Seq(ChunkSet)
    BY <1>1, <2>1, <2>2, FrameWritten
  <2>4. Written' \o <<>> = Written'
    BY <2>3, ConcatEmpty
  <2> QED BY <1>1, <1>2, <2>2, <2>3, <2>4, OthersKeepStream
<1>4. CASE ~StopSeen
  <2>1. /\ out' = out /\ (buf' = buf \/ (rpc = "full" /\ buf' = <<>>))
        /\ rpc' = "full" => rpc = "full"
    BY <1>4 DEF StartFrame, ReadTimeout, StopStreaming, Consumer, vars, rxVars
  <2>2. buf' = buf /\ Written' = Written /\ (rpc' = "full" => buf' = <<>>)
    BY <2>1 DEF StreamInv, Written
  <2> QED BY <1>1, <1>2, <2>2, OthersKeepStream
<1> QED BY <1>3, <1>4

(* Of a stream of types that the depacketiser knows, the client gets back  *)
(* the byte stream that was packetised: whatever the sizes, the fragment   *)
(* length and the packets lost, a packet lost spoils only its own unit.    *)
THEOREM ByteStream ==
  ASSUME Plain
  PROVE  Spec => []StreamIntact
<1>1. Init => StreamInv
  <2> SUFFICES ASSUME Init PROVE StreamInv
    OBVIOUS
  <2>1. /\ nal = NoNal /\ net = <<>> /\ buf = <<>> /\ out = <<>>
        /\ Len(net) = 0 /\ Len(out) = 0
    BY DEF Init
  <2>2. [i \in 1..Len(out) |-> out[i].chunks] = <<>>
    BY <2>1
  <2>3. Written = <<>> /\ Received = <<>>
    BY <2>1, <2>2, FlattenEmpty DEF Written, Received
  <2>4. Pieces = <<>>
    BY <2>1 DEF Pieces
  <2>5. Stream = <<>> /\ Len(Stream) = 0
    BY <2>3, <2>4 DEF Stream
  <2> QED BY <2>1, <2>3, <2>5 DEF StreamInv, PacketsKnown, Orderly, Tip, Done
<1>2. BoundsInv /\ FrameInv /\ StreamInv /\ [Next]_vars => StreamInv'
  <2> SUFFICES ASSUME BoundsInv, FrameInv, StreamInv, [Next]_vars PROVE StreamInv'
    OBVIOUS
  <2>0. Collected
    BY DEF FrameInv
  <2>1. CASE Tx
    <3>1. ASSUME NEW t \in Types, SkipNal(t) PROVE StreamInv'
      <4>1. /\ nal = NoNal /\ count' = count + 1
            /\ UNCHANGED <<nal, off, net, lost, buf, out, rpc>>
        BY <3>1 DEF SkipNal, rxVars
      <4>2. net \in Seq(Packets) /\ count \in Nat
        BY SizesNat DEF BoundsInv, RangesOK
      <4>3. Done(Stream, count, lost)
        BY <4>1 DEF StreamInv, Tip
      <4>4. Done(Stream, count + 1, lost)
        BY <2>0, <4>2, <4>3, LastPiece DEF Done
      <4>5. Tip(Stream, nal', off', count', lost)
        BY <4>1, <4>4 DEF Tip
      <4>6. Received' = Received /\ Written' = Written /\ (rpc' = "full" => buf' = <<>>)
        BY <4>1 DEF Received, Written, StreamInv
      <4>7. Written' \in Seq(ChunkSet)
        BY <4>6 DEF StreamInv
      <4> QED BY <2>0, <4>1, <4>5, <4>6, <4>7, OthersKeepStream
    <3> QED BY <2>0, <2>1, <3>1, SingleKeepsStream, StartKeepsStream, FragmentKeepsStream DEF Tx
  <2>2. CASE GetData
    BY <2>0, <2>2, GetDataKeepsStream
  <2>3. CASE StartFrame \/ ReadTimeout \/ StopSeen \/ StopStreaming \/ Consumer \/ UNCHANGED vars
    <3>1. UNCHANGED <<net, lost, nal, off, count>>
      BY <2>3 DEF StartFrame, ReadTimeout, StopSeen, StopStreaming, Consumer, txVars, vars
    <3> QED BY <2>0, <2>3, <3>1, RxKeepsStream
  <2> QED BY <2>1, <2>2, <2>3 DEF Next, Rx
<1>3. BoundsInv /\ FrameInv /\ StreamInv => StreamIntact
  <2> SUFFICES ASSUME BoundsInv, FrameInv, StreamInv PROVE StreamIntact
    OBVIOUS
  <2>1. net \in Seq(Packets) /\ Collected
    BY DEF BoundsInv, RangesOK, FrameInv
  <2>2. Orderly(Received, lost)
    <3>1. Received \in Seq(ChunkSet) /\ Pieces \in Seq(ChunkSet)
      BY <2>1, LastPiece, PiecesOfNet
    <3> QED BY <3>1, OrderlyFront DEF StreamInv, Stream
  <2>3. Received \in Seq(ChunkSet)
    BY <2>1, LastPiece
  <2>4. PICK r : r = Received
    OBVIOUS
  <2>5. ASSUME NEW i \in 1..Len(r)
        PROVE  /\ r[i].code <=> r[i].from = 0
               /\ IF i > 1 /\ r[i].nal = r[i - 1].nal
                    THEN r[i].from = r[i - 1].to \/ Spoiled(r[i].nal, lost)
                    ELSE /\ r[i].from = 0 \/ Spoiled(r[i].nal, lost)
                         /\ i > 1 => /\ \/ r[i - 1].to = r[i - 1].nal.size
                                       \/ Spoiled(r[i - 1].nal, lost)
                                    /\ r[i - 1].nal.n < r[i].nal.n
    <3>1. /\ r[i].code <=> r[i].from = 0
          /\ i = 1 => Starts(r[i], lost)
          /\ i > 1 => Follows(r[i - 1], r[i], lost)
      BY <2>2, <2>4 DEF Orderly
    <3>2. CASE i = 1
      BY <3>1, <3>2 DEF Starts
    <3>3. CASE i > 1
      BY <3>1, <3>3 DEF Follows, Starts, Whole
    <3>4. i = 1 \/ i > 1
      OBVIOUS
    <3> QED BY <3>2, <3>3, <3>4
  <2> QED BY <2>4, <2>5 DEF StreamIntact, Spoiled
<1>4. Spec => []FrameInv
  BY FramesInvariance
<1> QED BY <1>1, <1>2, <1>3, <1>4, BoundsInvariance, PTL DEF Spec
=============================================================================
