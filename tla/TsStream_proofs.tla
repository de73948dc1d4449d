--------------------------- MODULE TsStream_proofs --------------------------
(***************************************************************************)
(* The way of a frame, for access units of every size and time stamps that *)
(* go forward and back in any way, GOPs and frames of every size: Mux      *)
(* makes whole packets and the clock keeps up with them; every segment of  *)
(* video starts so that it can be played; and the player gets back the     *)
(* units that were sent, whole and in their order.                         *)
(***************************************************************************)
EXTENDS TsStream, SequenceTheorems, WellFoundedInduction, TLAPS

(* What is left of the unit and what was copied add up, and every packet   *)
(* so far is whole.  While something is left both pointers are on a word.  *)
LoopInv ==
  pc = "packets" =>
    /\ unit.size = src + left
    /\ pos = TS_PACKET_SIZE * Len(buf)
    /\ tsSize = pos + left
    /\ left > 0 => src % 4 = 0

(* The clock follows the units even while it is not sent. *)
ClockInv ==
  /\ pcr - prevPcr \in 0 .. PCR_PERIOD - 1
  /\ pc = "packets" => pcr = ClockOf(unit.pts)

Inv == TypeOK /\ LoopInv /\ ClockInv

(* The header that Mux reserves is the header that is written. *)
LEMMA PesHeaderLength ==
  ASSUME NEW kind \in Kinds
  PROVE  /\ PesReserved(kind) = PesWritten(kind)
         /\ PesWritten(kind) \in {16, 20}
<1>1. CASE kind = "video"
  BY <1>1 DEF PesReserved, PesWritten, ToWord
<1>2. CASE kind = "audio"
  BY <1>2 DEF PesReserved, PesWritten, ToWord
<1> QED BY <1>1, <1>2 DEF Kinds

LEMMA ClockOfNat == ASSUME NEW p \in Nat PROVE ClockOf(p) \in Nat
  BY DEF ClockOf, PcrPtsDelay

(* One packet: it is filled, with no padding because both pointers are on  *)
(* a word, or padded so that it ends with the unit.                        *)
LEMMA OnePacket ==
  ASSUME Inv, pc = "packets", left > 0,
         NEW pes, pes = IF NewPes THEN PesWritten(unit.kind) ELSE 0
  PROVE  /\ pes \in {0, 16, 20}
         /\ PadNum \in 0 .. TS_PACKET_SIZE
         /\ src % 4 = 0 /\ (pos + HeaderLength) % 4 = 0
         /\ PadSource = 0
         /\ LET rest == Space - PadNum - pes
            IN  /\ rest \in 1 .. left
                /\ rest < left => rest = Space - pes
<1>0. /\ unit.kind \in Kinds /\ left \in Nat /\ src \in Nat /\ pos \in Nat
      /\ Len(buf) \in Nat
  BY DEF Inv, TypeOK, Units
<1>1. Reserved = pes /\ pes \in {0, 16, 20}
  BY <1>0, PesHeaderLength DEF Reserved
<1>2. src % 4 = 0 /\ pos = 188 * Len(buf)
  BY DEF Inv, LoopInv, TS_PACKET_SIZE
<1>3. (pos + HeaderLength) % 4 = 0
  BY <1>0, <1>2 DEF HeaderLength
<1>4. ToWord(src) = 0 /\ BuffPad = 0
  BY <1>2, <1>3 DEF ToWord, BuffPad
<1>5. PadSource = 0 /\ ~Aligned
  BY <1>4 DEF PadSource, Aligned
<1>6. PadNum = IF left >= 184 - pes THEN 0 ELSE 184 - pes - left
  BY <1>1, <1>4, <1>5 DEF PadNum, Fills, Space, TS_PACKET_SIZE, HeaderLength
<1>7. CASE left >= 184 - pes
  <2>1. PadNum = 0
    BY <1>6, <1>7
  <2>2. Space - PadNum - pes = 184 - pes /\ Space - pes = 184 - pes
    BY <1>1, <2>1 DEF Space, TS_PACKET_SIZE, HeaderLength
  <2>3. 184 - pes \in 1 .. left
    BY <1>0, <1>1, <1>7
  <2>4. PadNum \in 0 .. TS_PACKET_SIZE
    BY <2>1 DEF TS_PACKET_SIZE
  <2> QED BY <1>1, <1>2, <1>3, <1>5, <2>2, <2>3, <2>4
<1>8. CASE left < 184 - pes
  <2>2. pes \in 0 .. 20
    BY <1>1
  <2>1. PadNum = 184 - pes - left
    BY <1>0, <1>6, <1>8, <2>2
  <2>3. left \in 1 .. left /\ ~(left < left)
    BY <1>0
  <2>4. PadNum \in 0 .. TS_PACKET_SIZE
    <3>1. \A p \in 0 .. 20, l \in Nat : l < 184 - p => 184 - p - l \in 0 .. 188
      OBVIOUS
    <3>2. 184 - pes - left \in 0 .. 188
      BY ONLY <1>0, <1>8, <2>2, <3>1, Zenon
    <3> QED BY <2>1, <3>2 DEF TS_PACKET_SIZE
  <2>5. Space - PadNum - pes = left
    <3>1. \A p, l \in Int : 184 - (184 - p - l) - p = l
      OBVIOUS
    <3>2. Space = 184
      BY DEF Space, TS_PACKET_SIZE, HeaderLength
    <3> QED BY <1>0, <2>1, <2>2, <3>1, <3>2
  <2> QED BY <1>1, <1>2, <1>3, <1>5, <2>3, <2>4, <2>5
<1> QED BY <1>0, <1>1, <1>7, <1>8

LEMMA InitInv == Init => Inv
<1> SUFFICES ASSUME Init PROVE Inv
  OBVIOUS
<1>1. unit \in Units
  BY DEF Init, NoUnit, Units, Kinds
<1>2. TypeOK
  <2>1. <<>> \in Seq(Packets)
    OBVIOUS
  <2> QED BY <1>1, <2>1 DEF Init, TypeOK
<1> QED BY <1>2 DEF Init, Inv, LoopInv, ClockInv, PCR_PERIOD

LEMMA CallInv == Inv /\ Call => Inv'
<1> SUFFICES ASSUME Inv, Call PROVE Inv'
  OBVIOUS
<1>a. PICK kind \in Kinds, size \in Sizes, sps \in BOOLEAN :
        \E pts \in NextPts(kind) : Enter(kind, size, pts, sps)
  BY DEF Call
<1>b. PICK pts \in NextPts(kind) : Enter(kind, size, pts, sps)
  BY <1>a
<1> DEFINE c == ClockOf(pts)
<1>1. /\ pc' = "packets"
      /\ unit' = [n |-> unit.n + 1, kind |-> kind, size |-> size,
                  pts |-> pts, sps |-> sps]
      /\ left' = size /\ src' = 0
      /\ buf' = Clock(c) \o Tables(kind)
      /\ pos' = TS_PACKET_SIZE * Len(buf')
      /\ tsSize' = size + pos'
      /\ init' = FALSE
      /\ pcr' = c
      /\ pcrStart' = IF ClockReset(c) THEN c ELSE pcrStart
      /\ prevPcr' = IF ClockDue(c) THEN c ELSE prevPcr
      /\ audioPts' = IF kind = "audio" THEN pts ELSE audioPts
      /\ psiSent' = IF TablesDue(kind) THEN audioPts ELSE psiSent
  BY <1>b DEF Enter
<1>2. unit.n \in Nat /\ unit.pts \in Nat
  BY DEF Inv, TypeOK, Units
<1>3. pts \in Nat /\ size \in Nat
  <2>1. \A d \in PtsSteps : unit.pts + d \in Nat
    BY <1>2, TsMuxAssumption
  <2>2. \A d \in PtsLags : d <= unit.pts => unit.pts - d \in Nat
    BY <1>2, TsMuxAssumption
  <2>3. pts \in Nat
    BY <2>1, <2>2 DEF NextPts
  <2> QED BY <2>3, TsMuxAssumption
<1>4. c \in Nat
  BY <1>3, ClockOfNat
<1>5. unit' \in Units
  BY <1>1, <1>2, <1>3 DEF Units
<1>6. buf' \in Seq(Packets)
  <2>1. \A q \in {"pcr", "pat", "pmt"} : \A p \in Nat : System(q, p) \in Packets
    BY DEF System, Packets, TS_PACKET_SIZE
  <2>2. Clock(c) \in Seq(Packets)
    BY <1>4, <2>1 DEF Clock
  <2>3. Tables(kind) \in Seq(Packets)
    BY <2>1 DEF Tables
  <2> QED BY <1>1, <2>2, <2>3
<1>7. Len(buf') \in Nat
  BY <1>6
<1>8. TypeOK'
  <2>1. left' \in Nat /\ src' \in Nat /\ pos' \in Nat /\ tsSize' \in Nat
    BY <1>1, <1>3, <1>7 DEF TS_PACKET_SIZE
  <2>2. /\ pcr' \in Nat /\ pcrStart' \in Nat /\ prevPcr' \in Nat
        /\ audioPts' \in Nat /\ psiSent' \in Nat
    BY <1>1, <1>3, <1>4 DEF Inv, TypeOK
  <2> QED BY <1>1, <1>5, <1>6, <2>1, <2>2 DEF TypeOK
<1>9. LoopInv'
  BY <1>1, <1>3, <1>7 DEF LoopInv, TS_PACKET_SIZE
<1>10. ClockInv'
  <2>1. pcr' = ClockOf(unit'.pts)
    BY <1>1
  <2>2. CASE ClockDue(c)
    <3>1. prevPcr' = c /\ pcr' = c
      BY <1>1, <2>2
    <3>2. pcr' - prevPcr' \in 0 .. PCR_PERIOD - 1
      <4> HIDE DEF c
      <4> QED BY <1>4, <3>1 DEF PCR_PERIOD
    <3> QED BY <2>1, <3>2 DEF ClockInv
  <2>3. CASE ~ClockDue(c)
    <3>1. prevPcr \in Nat /\ pcr \in Nat
      BY DEF Inv, TypeOK
    <3>8. PCR_PERIOD \in Nat
      BY DEF PCR_PERIOD
    <3>6. pcr - prevPcr \in 0 .. PCR_PERIOD - 1
      BY DEF Inv, ClockInv
    <3>7. \A n, o, q \in Nat : n - o \in 0 .. q - 1 => o <= n
      OBVIOUS
    <3>2. prevPcr <= pcr
      BY ONLY <3>1, <3>6, <3>7, <3>8, Zenon
    <3>3. ~(c < pcr) /\ ~(c - prevPcr >= PCR_PERIOD)
      BY <2>3 DEF ClockDue, ClockReset
    <3>4. prevPcr' = prevPcr /\ pcr' = c
      BY <1>1, <2>3
    <3>5. pcr' - prevPcr' \in 0 .. PCR_PERIOD - 1
      <4>1. PCR_PERIOD \in Nat
        BY DEF PCR_PERIOD
      <4>2. \A n, o, p, q \in Nat : ~(n < o) /\ p <= o /\ ~(n - p >= q) => n - p \in 0 .. q - 1
        OBVIOUS
      <4> HIDE DEF c
      <4>3. c - prevPcr \in 0 .. PCR_PERIOD - 1
        BY ONLY <1>4, <3>1, <3>2, <3>3, <4>1, <4>2, Zenon
      <4> QED BY <3>4, <4>3
    <3> QED BY <2>1, <3>5 DEF ClockInv
  <2> QED BY <2>2, <2>3
<1> QED BY <1>8, <1>9, <1>10 DEF Inv

(* What AddPacket adds: the next bytes of the unit, in a packet that is    *)
(* full unless it is the last.                                             *)
Added(p) ==
  /\ p.pid = unit.kind /\ p.unit = unit.n /\ p.start = NewPes
  /\ p.from = src /\ p.pts = unit.pts
  /\ src # 0 => p.pes = 0
  /\ DataLen(p) \in 1 .. left
  /\ DataLen(p) < left => DataLen(p) = Space - p.pes
  /\ buf' = Append(buf, p)
  /\ pos' = pos + TS_PACKET_SIZE
  /\ src' = src + DataLen(p)
  /\ left' = left - DataLen(p)
  /\ tsSize' = tsSize + TS_PACKET_SIZE - DataLen(p)
  /\ UNCHANGED <<pc, unit, clock>>

LEMMA AddPacketIs ==
  ASSUME Inv, AddPacket
  PROVE  \E p \in Packets : Added(p)
<1> DEFINE pes  == IF NewPes THEN PesWritten(unit.kind) ELSE 0
           rest == Space - PadNum - pes
           p    == [pid |-> unit.kind, unit |-> unit.n, start |-> NewPes,
                    from |-> src, pad |-> PadNum, pes |-> pes,
                    pts |-> unit.pts]
<1>1. pc = "packets" /\ left > 0 /\ left \in Nat /\ src \in Nat /\ pos \in Nat
  BY DEF AddPacket, Inv, TypeOK
<1>2. /\ pes \in {0, 16, 20} /\ PadNum \in 0 .. TS_PACKET_SIZE
      /\ src % 4 = 0 /\ (pos + HeaderLength) % 4 = 0
      /\ PadSource = 0
      /\ rest \in 1 .. left
      /\ rest < left => rest = Space - pes
  <2> HIDE DEF pes
  <2>1. pes = IF NewPes THEN PesWritten(unit.kind) ELSE 0
    BY DEF pes
  <2> QED BY <1>1, <2>1, OnePacket
<1> HIDE DEF pes
<1>3. /\ buf' = Append(buf, p)
      /\ pos' = pos + TS_PACKET_SIZE
      /\ src' = src + rest
      /\ left' = left - rest
      /\ tsSize' = tsSize + TS_PACKET_SIZE - rest
      /\ UNCHANGED <<pc, unit, clock>>
  <2> DEFINE at   == pos + HeaderLength + PadNum + pes
             lead == IF src % 4 # 0 \/ at % 4 # 0 THEN PadSource ELSE 0
             rst  == Space - PadNum - pes - lead
             cpd  == lead + (IF rst > 0 THEN rst ELSE 0)
  <2>1. /\ buf' = Append(buf, p)
        /\ pos' = at + cpd
        /\ src' = src + cpd
        /\ left' = left - lead - rst
        /\ tsSize' = tsSize + HeaderLength + PadNum + pes
        /\ UNCHANGED <<pc, unit, clock>>
    BY DEF AddPacket, pes
  <2>2. lead = 0
    BY <1>2
  <2> HIDE DEF lead
  <2>3. rst = rest /\ cpd = rest
    BY <1>2, <2>2 DEF Space, TS_PACKET_SIZE, HeaderLength
  <2> HIDE DEF cpd, rst
  <2>6. PadNum \in Int /\ pes \in Int
    BY <1>2
  <2>7. \A q, n, e \in Int : /\ (q + 4 + n + e) + ((188 - 4) - n - e) = q + 188
                            /\ 4 + n + e = 188 - ((188 - 4) - n - e)
    OBVIOUS
  <2>4. at + rest = pos + TS_PACKET_SIZE /\ HeaderLength + PadNum + pes = TS_PACKET_SIZE - rest
    BY <1>1, <2>6, <2>7 DEF Space, TS_PACKET_SIZE, HeaderLength
  <2>5. tsSize \in Nat
    BY DEF Inv, TypeOK
  <2> QED
    BY <1>1, <1>2, <2>1, <2>2, <2>3, <2>4, <2>5 DEF TS_PACKET_SIZE, HeaderLength
<1>4. p \in Packets
  BY <1>1, <1>2 DEF Inv, TypeOK, Units, Packets, NewPes
<1>5. DataLen(p) = rest
  BY DEF DataLen
<1>6. /\ p.pid = unit.kind /\ p.unit = unit.n /\ p.start = NewPes
      /\ p.from = src /\ p.pts = unit.pts /\ p.pes = pes
  OBVIOUS
<1>7. src # 0 => pes = 0
  BY DEF pes, NewPes
<1> HIDE DEF p, rest
<1> QED BY <1>2, <1>3, <1>4, <1>5, <1>6, <1>7 DEF Added

LEMMA AddPacketInv == Inv /\ AddPacket => Inv'
<1> SUFFICES ASSUME Inv, AddPacket PROVE Inv'
  OBVIOUS
<1>a. PICK p \in Packets : Added(p)
  BY AddPacketIs
<1>b. PICK rest \in 1 .. left : rest = DataLen(p)
  BY <1>a DEF Added
<1>c. PICK pes \in {0, 16, 20} : pes = p.pes
  BY DEF Packets
<1>1. pc = "packets" /\ left > 0 /\ left \in Nat /\ src \in Nat /\ pos \in Nat
  BY DEF AddPacket, Inv, TypeOK
<1>2. /\ src % 4 = 0
      /\ rest < left => rest = Space - pes
  BY <1>1, <1>a, <1>b, <1>c DEF Added, Inv, LoopInv
<1>3. /\ buf' = Append(buf, p)
      /\ pos' = pos + TS_PACKET_SIZE
      /\ src' = src + rest
      /\ left' = left - rest
      /\ tsSize' = tsSize + TS_PACKET_SIZE - rest
      /\ UNCHANGED <<pc, unit, clock>>
  BY <1>a, <1>b DEF Added
<1>d. rest <= 188 /\ DataLen(p) \in Int
  <2>1. p.pad \in 0 .. 188
    BY DEF Packets, TS_PACKET_SIZE
  <2> QED BY <1>b, <1>c, <2>1 DEF DataLen, Space, TS_PACKET_SIZE, HeaderLength
<1>4. TypeOK'
  <2>2. buf' \in Seq(Packets)
    BY <1>3 DEF Inv, TypeOK
  <2>3. left' \in Nat /\ src' \in Nat /\ pos' \in Nat /\ tsSize' \in Nat
    <3>1. tsSize \in Nat
      BY DEF Inv, TypeOK
    <3>2. \A l \in Nat : \A r \in 1 .. l : l - r \in Nat /\ r \in Nat
      OBVIOUS
    <3>7. \A r, z \in Nat : r <= 188 => z + 188 - r \in Nat
      OBVIOUS
    <3>3. rest <= 188
      BY <1>d
    <3>5. left \in Nat /\ src \in Nat /\ rest \in 1 .. left
      BY <1>1, <1>2
    <3>4. left - rest \in Nat /\ rest \in Nat
      BY ONLY <3>2, <3>5
    <3>8. tsSize + 188 - rest \in Nat
      BY ONLY <3>1, <3>3, <3>4, <3>7
    <3>6. pos + 188 \in Nat /\ src + rest \in Nat
      BY <1>1, <3>4
    <3> QED BY <1>3, <3>4, <3>6, <3>8 DEF TS_PACKET_SIZE
  <2> QED BY <1>3, <2>2, <2>3 DEF Inv, TypeOK, clock
<1>5. LoopInv'
  <2>1. Len(buf') = Len(buf) + 1 /\ Len(buf) \in Nat
    BY <1>3 DEF Inv, TypeOK
  <2>2. /\ unit.size = src + left /\ pos = TS_PACKET_SIZE * Len(buf)
        /\ tsSize = pos + left
    BY <1>1 DEF Inv, LoopInv
  <2>3. /\ unit'.size = src' + left' /\ pos' = TS_PACKET_SIZE * Len(buf')
        /\ tsSize' = pos' + left'
    BY <1>1, <1>2, <1>3, <2>1, <2>2 DEF TS_PACKET_SIZE
  <2>4. ASSUME left' > 0 PROVE src' % 4 = 0
    <3>2. rest < left
      <4>1. \A l, r \in Int : l - r > 0 => r < l
        OBVIOUS
      <4>2. left \in Int /\ rest \in Int /\ left - rest > 0
        BY <1>1, <1>2, <1>3, <2>4
      <4> QED BY <4>1, <4>2
    <3>3. rest = Space - pes
      BY <1>2, <3>2
    <3>1. rest = 184 - pes
      BY <3>3 DEF Space, TS_PACKET_SIZE, HeaderLength
    <3>4. \A s \in Nat : s % 4 = 0 => /\ (s + 184) % 4 = 0 /\ (s + (184 - 16)) % 4 = 0
                                     /\ (s + (184 - 20)) % 4 = 0
      OBVIOUS
    <3>5. (src + (184 - pes)) % 4 = 0
      <4>1. pes = 0 => 184 - pes = 184
        OBVIOUS
      <4> QED BY <1>1, <1>2, <3>4, <4>1
    <3> QED BY <1>3, <3>1, <3>5
  <2> QED BY <2>3, <2>4 DEF LoopInv
<1>6. ClockInv'
  BY <1>3 DEF Inv, ClockInv, clock, ClockOf
<1> QED BY <1>4, <1>5, <1>6 DEF Inv

LEMMA StepInv == Inv /\ [Next]_vars => Inv'
<1> SUFFICES ASSUME Inv, [Next]_vars PROVE Inv'
  OBVIOUS
<1>1. CASE Call
  BY <1>1, CallInv
<1>2. CASE AddPacket
  BY <1>2, AddPacketInv
<1>3. CASE Return
  BY <1>3 DEF Return, Inv, TypeOK, LoopInv, ClockInv, clock
<1>4. CASE UNCHANGED vars
  BY <1>4 DEF vars, clock, Inv, TypeOK, LoopInv, ClockInv, ClockOf
<1>5. CASE Overrun
  BY <1>5 DEF Overrun, Inv, TypeOK, LoopInv, ClockInv, clock
<1> QED BY <1>1, <1>2, <1>3, <1>4, <1>5 DEF Next

(* The inductive invariant holds in every reachable state. *)
THEOREM Invariance == Spec => []Inv
  BY InitInv, StepInv, PTL DEF Spec

(* No length in Mux ever goes below zero, whatever the size of the unit. *)
THEOREM MuxTypes == Spec => []TypeOK
<1>1. Inv => TypeOK
  BY DEF Inv
<1> QED BY <1>1, Invariance, PTL

(* Mux hands on whole packets with the whole unit in them, whatever the    *)
(* size of the unit.                                                       *)
THEOREM PacketsWhole == Spec => []WholePackets
<1>1. Inv => WholePackets
  BY DEF Inv, TypeOK, LoopInv, WholePackets
<1> QED BY <1>1, Invariance, PTL

(* The clock that was sent last is never a period behind the units, nor    *)
(* ahead of them, however their time stamps jump.                          *)
THEOREM ClockKeepsUp == Spec => []ClockFollows
<1>1. Inv => ClockFollows
  BY DEF Inv, ClockInv, ClockFollows
<1> QED BY <1>1, Invariance, PTL

(* What the buffer holds beyond clock and tables is payload, but for the   *)
(* header of the unit.                                                     *)
Dense ==
  pc = "packets" /\ left > 0 => src + 20 >= Space * (Len(buf) - 3)

LEMMA DenseInit == Init => Dense /\ TakesUnits
BY DEF Init, Dense, TakesUnits

LEMMA DenseStep == Inv /\ Dense /\ [Next]_vars => Dense'
<1> SUFFICES ASSUME Inv, Dense, [Next]_vars PROVE Dense'
  OBVIOUS
<1>1. CASE Call
  <2>0. PICK kind \in Kinds, size \in Sizes, sps \in BOOLEAN :
          \E pts \in NextPts(kind) : Enter(kind, size, pts, sps)
    BY <1>1 DEF Call
  <2>1. PICK pts \in NextPts(kind) : Enter(kind, size, pts, sps)
    BY <2>0
  <2>2. src' = 0 /\ buf' = Clock(ClockOf(pts)) \o Tables(kind)
    BY <2>1 DEF Enter
  <2>3. Len(buf') \in 0 .. 3
    BY <2>2 DEF Clock, Tables
  <2> QED BY <2>2, <2>3 DEF Dense, Space, TS_PACKET_SIZE, HeaderLength
<1>2. CASE AddPacket
  <2>1. PICK p \in Packets : Added(p)
    BY <1>2, AddPacketIs
  <2>2. pc = "packets" /\ left > 0 /\ left \in Nat /\ src \in Nat /\ Len(buf) \in Nat
    BY <1>2 DEF AddPacket, Inv, TypeOK
  <2>3. Len(buf') = Len(buf) + 1
    BY <2>1 DEF Added, Inv, TypeOK
  <2>4. src + 20 >= 184 * (Len(buf) - 3)
    BY <2>2 DEF Dense, Space, TS_PACKET_SIZE, HeaderLength
  <2>5. ASSUME left' > 0 PROVE src' + 20 >= 184 * (Len(buf') - 3)
    <3>1. DataLen(p) \in 1 .. left /\ left' = left - DataLen(p) /\ src' = src + DataLen(p)
      BY <2>1 DEF Added
    <3>2. DataLen(p) < left
      BY <2>2, <2>5, <3>1
    <3>3. CASE src = 0
      <4>1. DataLen(p) >= 164
        BY <2>1, <3>2 DEF Added, Space, TS_PACKET_SIZE, HeaderLength, Packets
      <4> QED BY <2>2, <2>3, <2>4, <3>1, <3>3, <4>1
    <3>4. CASE src # 0
      <4>1. DataLen(p) = 184
        BY <2>1, <3>2, <3>4 DEF Added, Space, TS_PACKET_SIZE, HeaderLength
      <4> QED BY <2>2, <2>3, <2>4, <3>1, <4>1
    <3> QED BY <3>3, <3>4
  <2> QED BY <2>5 DEF Dense, Space, TS_PACKET_SIZE, HeaderLength
<1>3. CASE Overrun \/ Return
  BY <1>3 DEF Overrun, Return, Dense
<1>4. CASE UNCHANGED vars
  BY <1>4 DEF vars, Dense
<1> QED BY <1>1, <1>2, <1>3, <1>4 DEF Next

LEMMA TakesStep == Inv /\ Dense /\ TakesUnits /\ [Next]_vars => TakesUnits'
<1> SUFFICES ASSUME Inv, Dense, TakesUnits, [Next]_vars PROVE TakesUnits'
  OBVIOUS
<1>1. CASE Call \/ AddPacket \/ Return
  <2>1. pc' # "overrun"
    BY <1>1 DEF Call, Enter, AddPacket, Return
  <2> QED BY <2>1 DEF TakesUnits
<1>2. CASE Overrun
  <2> DEFINE l == Len(buf)
             room == BufferSize \div 188
  <2>1. /\ pc = "packets" /\ left > 0 /\ left \in Nat /\ src \in Nat /\ l \in Nat
        /\ unit.size = src + left /\ pos = 188 * l
        /\ pos + 188 > BufferSize /\ unit' = unit
    <3>1. pc = "packets" /\ left > 0 /\ unit' = unit /\ ~(pos + 188 <= BufferSize)
      BY <1>2 DEF Overrun, HasRoom, TS_PACKET_SIZE
    <3>2. left \in Nat /\ src \in Nat /\ pos \in Nat /\ l \in Nat
      BY DEF Inv, TypeOK
    <3>3. unit.size = src + left /\ pos = 188 * l
      BY <3>1 DEF Inv, LoopInv, TS_PACKET_SIZE
    <3> QED BY <3>1, <3>2, <3>3, TsMuxAssumption
  <2>2. src + 20 >= 184 * (l - 3)
    BY <2>1 DEF Dense, Space, TS_PACKET_SIZE, HeaderLength
  <2> HIDE DEF l
  <2>3. room \in Nat /\ 188 * room <= BufferSize
    <3>1. \A b \in Nat : b \div 188 \in Nat /\ 188 * (b \div 188) <= b
      OBVIOUS
    <3> QED BY <3>1, TsMuxAssumption
  <2> HIDE DEF room
  <2>4. room <= l
    BY <2>1, <2>3, TsMuxAssumption
  <2>5. unit.size > (room - 3) * 184 - 20
    <3>1. \A n, m, c, e \in Int : n <= m /\ c + 20 >= 184 * (m - 3) /\ e > 0
                                    => c + e > (n - 3) * 184 - 20
      OBVIOUS
    <3>2. src + left > (room - 3) * 184 - 20
      BY <2>1, <2>2, <2>3, <2>4, <3>1
    <3> QED BY <2>1, <3>2
  <2>6. (BufferSize \div TS_PACKET_SIZE - 3) * Space - 20 = (room - 3) * 184 - 20
    BY DEF room, Space, TS_PACKET_SIZE, HeaderLength
  <2>7. unit'.size > (room - 3) * 184 - 20
    BY <2>1, <2>5
  <2> QED BY <2>6, <2>7 DEF TakesUnits
<1>3. CASE UNCHANGED vars
  BY <1>3 DEF vars, TakesUnits
<1> QED BY <1>1, <1>2, <1>3 DEF Next

(* A unit that fits into the buffer after clock and tables never overruns  *)
(* it, whatever the size of the buffer and of the units before.            *)
THEOREM BufferTakesUnits == Spec => []TakesUnits
<1>1. Init => Inv /\ Dense /\ TakesUnits
  BY InitInv, DenseInit
<1>2. (Inv /\ Dense /\ TakesUnits) /\ [Next]_vars => (Inv /\ Dense /\ TakesUnits)'
  BY StepInv, DenseStep, TakesStep
<1> QED BY <1>1, <1>2, PTL DEF Spec

-----------------------------------------------------------------------------
(***************************************************************************)
(* Folds.  FoldLeft goes by sets of indices: the largest of a set comes    *)
(* last.  That it yields anything is an induction over the length.         *)
(***************************************************************************)
Below == {p \in Nat \X Nat : p[1] < p[2]}

(* A set with 0 and every successor holds all numbers.                     *)
LEMMA AllNumbers ==
  ASSUME NEW T \in SUBSET Nat, 0 \in T, \A n \in T : n + 1 \in T
  PROVE  \A n \in Nat : n \in T
<1> SUFFICES ASSUME Nat \ T # {} PROVE FALSE
  OBVIOUS
<1>1. IsWellFoundedOn(Below, Nat)
  BY NatLessThanWellFounded DEF OpToRel, Below
<1>2. PICK x \in Nat \ T : \A y \in Nat \ T : ~(<<y, x>> \in Below)
  BY <1>1, WFMin, Zenon
<1>3. x # 0 /\ x \in Nat
  BY <1>2
<1>4. x - 1 \in Nat /\ (x - 1) + 1 = x /\ <<x - 1, x>> \in Below
  BY <1>3 DEF Below
<1>5. x - 1 \in T
  BY <1>2, <1>4
<1> QED BY <1>2, <1>4, <1>5

(* A set of the first numbers has a largest one, and less without it.      *)
LEMMA Largest ==
  ASSUME NEW n \in Nat, NEW s \in SUBSET (1 .. n), s # {}
  PROVE  /\ Max(s) \in s
         /\ \A y \in s : y <= Max(s)
<1> DEFINE Has(m) == \A r \in SUBSET (1 .. m) : r # {} => \E x \in r : \A y \in r : x >= y
           T == {m \in Nat : Has(m)}
<1>1. 0 \in T
  <2>1. 1 .. 0 = {}
    OBVIOUS
  <2>2. \A r \in SUBSET (1 .. 0) : r = {}
    BY <2>1
  <2>3. Has(0)
    BY <2>2
  <2> QED BY <2>3
<1>2. ASSUME NEW m \in T PROVE m + 1 \in T
  <2>1. m \in Nat /\ m + 1 \in Nat /\ Has(m)
    OBVIOUS
  <2>2. ASSUME NEW r \in SUBSET (1 .. m + 1), r # {} PROVE \E x \in r : \A y \in r : x >= y
    <3>1. CASE m + 1 \in r
      <4>1. \A y \in r : m + 1 >= y
        BY <2>1
      <4> QED BY <3>1, <4>1
    <3>2. CASE m + 1 \notin r
      <4>1. \A y \in r : y \in 1 .. m
        BY <2>1, <3>2
      <4>2. r \in SUBSET (1 .. m)
        BY <4>1
      <4> QED BY <2>1, <2>2, <4>2
    <3> QED BY <3>1, <3>2
  <2>3. Has(m + 1)
    BY <2>2
  <2> HIDE DEF Has
  <2> QED BY <2>1, <2>3
<1>3. n \in T
  <2> HIDE DEF Has, T
  <2>1. T \in SUBSET Nat
    BY DEF T
  <2> QED BY <1>1, <1>2, <2>1, AllNumbers
<1>4. PICK x \in s : \A y \in s : x >= y
  BY <1>3
<1>5. Max(s) \in s /\ \A y \in s : Max(s) >= y
  BY <1>4 DEF Max
<1>6. \A y \in s : y \in Int
  OBVIOUS
<1> QED BY <1>5, <1>6

LEMMA LastOfFirst ==
  ASSUME NEW n \in Nat, NEW i \in 1 .. n
  PROVE  /\ 1 .. i \in SUBSET (1 .. n) /\ 1 .. i # {}
         /\ Max(1 .. i) = i
         /\ (1 .. i) \ {Max(1 .. i)} = 1 .. (i - 1)
<1>1. 1 .. i \in SUBSET (1 .. n) /\ i \in 1 .. i
  OBVIOUS
<1>2. PICK x : x = Max(1 .. i)
  OBVIOUS
<1>3. x \in 1 .. i /\ \A y \in 1 .. i : y <= x
  BY <1>1, <1>2, Largest
<1>4. x = i
  BY <1>1, <1>3
<1> QED BY <1>1, <1>2, <1>4

(* What a fold makes of the set s, if g does the same of what is left.     *)
Folded(g, st, b, s) ==
  IF s = {} THEN b ELSE st[<<Max(s), g[s \ {Max(s)}]>>]

Steps(n, V) == [(1 .. n) \X V -> V]
Folds(n, V, b, st) ==
  \E g \in [SUBSET (1 .. n) -> V] :
    \A s \in SUBSET (1 .. n) : g[s] = Folded(g, st, b, s)

LEMMA FoldExists ==
  ASSUME NEW n \in Nat, NEW V, NEW b \in V, NEW st \in Steps(n, V)
  PROVE  Folds(n, V, b, st)
<1> DEFINE Is(g, m) == \A s \in SUBSET (1 .. m) : g[s] = Folded(g, st, b, s)
           Has(m) == \E g \in [SUBSET (1 .. m) -> V] : Is(g, m)
           T == {m \in Nat : m <= n => Has(m)}
<1>1. 0 \in T
  <2> DEFINE g == [s \in SUBSET (1 .. 0) |-> b]
  <2>1. g \in [SUBSET (1 .. 0) -> V]
    OBVIOUS
  <2>4. 1 .. 0 = {}
    OBVIOUS
  <2>2. ASSUME NEW s \in SUBSET (1 .. 0) PROVE s = {} /\ g[s] = b
    BY <2>4
  <2> HIDE DEF g
  <2>3. Is(g, 0)
    BY <2>2 DEF Folded
  <2> HIDE DEF Is
  <2> QED BY <2>1, <2>3
<1>2. ASSUME NEW m \in T PROVE m + 1 \in T
  <2> HIDE DEF Is, Has
  <2>1. /\ m \in Nat /\ m + 1 \in Nat
        /\ m <= n => Has(m)
    OBVIOUS
  <2> SUFFICES ASSUME m + 1 <= n PROVE Has(m + 1)
    BY <2>1
  <2>9. m <= n
    BY <2>1
  <2>2. PICK g \in [SUBSET (1 .. m) -> V] : Is(g, m)
    BY <2>1, <2>9 DEF Has
  <2> DEFINE h == [s \in SUBSET (1 .. m + 1) |-> Folded(g, st, b, s)]
  <2>3. \A s \in SUBSET (1 .. m + 1) : h[s] = Folded(g, st, b, s)
    OBVIOUS
  <2>4. ASSUME NEW s \in SUBSET (1 .. m + 1), s # {}
        PROVE  Max(s) \in 1 .. n /\ s \ {Max(s)} \in SUBSET (1 .. m)
    <3>1. PICK x : x = Max(s)
      OBVIOUS
    <3>2. x \in s /\ \A y \in s : y <= x
      BY <2>1, <2>4, <3>1, Largest
    <3>3. x \in 1 .. n /\ \A y \in s \ {x} : y \in 1 .. m
      BY <2>1, <3>2
    <3> QED BY <3>1, <3>3
  <2>5. ASSUME NEW s \in SUBSET (1 .. m + 1) PROVE Folded(g, st, b, s) \in V
    <3>1. CASE s = {}
      BY <3>1 DEF Folded
    <3>2. CASE s # {}
      <4>1. g[s \ {Max(s)}] \in V
        BY <2>4, <3>2
      <4> QED BY <2>4, <3>2, <4>1 DEF Folded, Steps
    <3> QED BY <3>1, <3>2
  <2>6. h \in [SUBSET (1 .. m + 1) -> V]
    BY <2>5
  <2> HIDE DEF h
  <2>7. ASSUME NEW s \in SUBSET (1 .. m + 1) PROVE h[s] = Folded(h, st, b, s)
    <3>1. CASE s = {}
      BY <2>3, <3>1 DEF Folded
    <3>2. CASE s # {}
      <4>1. PICK r : r = s \ {Max(s)}
        OBVIOUS
      <4>2. r \in SUBSET (1 .. m) /\ r \in SUBSET (1 .. m + 1)
        BY <2>1, <2>4, <3>2, <4>1
      <4>3. h[r] = g[r]
        BY <2>2, <2>3, <4>2 DEF Is
      <4> QED BY <2>3, <3>2, <4>1, <4>3 DEF Folded
    <3> QED BY <3>1, <3>2
  <2>8. Is(h, m + 1)
    BY <2>7 DEF Is
  <2> QED BY <2>6, <2>8 DEF Has
<1>3. n \in T
  <2> HIDE DEF T
  <2>1. T \in SUBSET Nat
    BY DEF T
  <2>2. \A m \in T : m + 1 \in T
    BY <1>2
  <2> QED BY <1>1, <2>1, <2>2, AllNumbers
<1> HIDE DEF Is
<1>4. Has(n)
  <2> HIDE DEF Has
  <2> QED BY <1>3
<1> QED BY <1>4 DEF Is, Folds

Pieces == [unit : Nat, from : Nat, len : Nat]

(* Used adds the lengths up from the first piece on.                       *)
LEMMA UsedIs ==
  ASSUME NEW d \in Seq(Pieces)
  PROVE  \E p \in [0 .. Len(d) -> Nat] :
           /\ p[0] = 0
           /\ \A i \in 1 .. Len(d) : p[i] = p[i - 1] + d[i].len
           /\ Used(d) = p[Len(d)]
<1>1. PICK n \in Nat : n = Len(d) /\ DOMAIN d = 1 .. n
  BY LenProperties
<1>2. \A i \in 1 .. n : d[i].len \in Nat
  <2>1. \A i \in 1 .. n : d[i] \in Pieces
    BY <1>1, ElementOfSeq
  <2>2. \A x \in Pieces : x.len \in Nat
    BY DEF Pieces
  <2> QED BY <2>1, <2>2
<1> DEFINE st == [x \in (1 .. n) \X Nat |-> x[2] + d[x[1]].len]
           Is(g) == g = [s \in SUBSET (1 .. n) |->
                           IF s = {} THEN 0 ELSE g[s \ {Max(s)}] + d[Max(s)].len]
<1>3. st \in [(1 .. n) \X Nat -> Nat]
  BY <1>2
<1>4. ASSUME NEW i \in 1 .. n, NEW v \in Nat PROVE st[<<i, v>>] = v + d[i].len
  <2>1. PICK x \in (1 .. n) \X Nat : x = <<i, v>>
    OBVIOUS
  <2>2. st[x] = x[2] + d[x[1]].len
    OBVIOUS
  <2> QED BY <2>1, <2>2
<1> HIDE DEF st
<1>5. PICK g \in [SUBSET (1 .. n) -> Nat] :
        \A s \in SUBSET (1 .. n) : g[s] = Folded(g, st, 0, s)
  <2>1. 0 \in Nat /\ st \in Steps(n, Nat)
    BY <1>3 DEF Steps
  <2>2. Folds(n, Nat, 0, st)
    BY <2>1, FoldExists
  <2> QED BY <2>2 DEF Folds
<1>6. Is(g)
  <2> DEFINE h == [s \in SUBSET (1 .. n) |->
                     IF s = {} THEN 0 ELSE g[s \ {Max(s)}] + d[Max(s)].len]
  <2>1. \A s \in SUBSET (1 .. n) :
          h[s] = IF s = {} THEN 0 ELSE g[s \ {Max(s)}] + d[Max(s)].len
    OBVIOUS
  <2>2. h = [s \in SUBSET (1 .. n) |-> h[s]]
    BY Zenon
  <2> HIDE DEF h
  <2>3. ASSUME NEW s \in SUBSET (1 .. n) PROVE g[s] = h[s]
    <3>1. CASE s = {}
      BY <1>5, <2>1, <3>1 DEF Folded
    <3>2. CASE s # {}
      <4>1. PICK x \in 1 .. n : x = Max(s)
        BY <3>2, Largest
      <4>2. g[s \ {x}] \in Nat
        OBVIOUS
      <4>3. g[s] = st[<<x, g[s \ {x}]>>]
        BY <1>5, <3>2, <4>1 DEF Folded
      <4> QED BY <1>4, <2>1, <3>2, <4>1, <4>2, <4>3
    <3> QED BY <3>1, <3>2
  <2>4. g = [s \in SUBSET (1 .. n) |-> g[s]]
    OBVIOUS
  <2>5. g = h
    BY <2>2, <2>3, <2>4, Zenon
  <2> QED BY <2>5 DEF h
<1> DEFINE k == CHOOSE k : Is(k)
<1>7. Is(k)
  <2> HIDE DEF Is
  <2> QED BY <1>6
<1>8. Used(d) = k[DOMAIN d]
  BY <1>1 DEF Used, FoldLeft, MapThenFoldSet
<1>9. k[1 .. 0] = 0
  <2> HIDE DEF k
  <2>1. 1 .. 0 = {} /\ {} \in SUBSET (1 .. n)
    OBVIOUS
  <2> QED BY <1>7, <2>1
<1>10. \A i \in 1 .. n : k[1 .. i] = k[1 .. (i - 1)] + d[i].len
  <2> HIDE DEF k
  <2> TAKE i \in 1 .. n
  <2>1. PICK s : s = 1 .. i
    OBVIOUS
  <2>2. s \in SUBSET (1 .. n) /\ s # {} /\ Max(s) = i /\ s \ {Max(s)} = 1 .. (i - 1)
    BY <2>1, LastOfFirst
  <2>3. k[s] = IF s = {} THEN 0 ELSE k[s \ {Max(s)}] + d[Max(s)].len
    BY <1>7, <2>2
  <2> QED BY <2>1, <2>2, <2>3
<1> HIDE DEF k
<1> DEFINE p == [i \in 0 .. n |-> k[1 .. i]]
           T == {i \in Nat : i <= n => k[1 .. i] \in Nat}
<1>11. \A i \in Nat : i \in T
  <2>1. 0 \in T
    BY <1>9
  <2>2. ASSUME NEW i \in T PROVE i + 1 \in T
    <3>1. i \in Nat /\ i + 1 \in Nat
      OBVIOUS
    <3> SUFFICES ASSUME i + 1 <= n PROVE k[1 .. (i + 1)] \in Nat
      BY <3>1
    <3>2. k[1 .. i] \in Nat
      BY <3>1
    <3>3. PICK j \in 1 .. n : j = i + 1
      BY <3>1
    <3>4. k[1 .. j] = k[1 .. (j - 1)] + d[j].len /\ j - 1 = i
      BY <1>10, <3>1, <3>3
    <3> QED BY <1>2, <3>2, <3>3, <3>4
  <2> HIDE DEF T
  <2>3. T \in SUBSET Nat
    BY DEF T
  <2>4. \A i \in T : i + 1 \in T
    BY <2>2
  <2> QED BY <2>1, <2>3, <2>4, AllNumbers
<1>12. p \in [0 .. n -> Nat]
  <2>1. \A i \in 0 .. n : i \in Nat /\ i <= n
    OBVIOUS
  <2> QED BY <1>11, <2>1
<1>13. p[0] = 0 /\ \A i \in 1 .. n : p[i] = p[i - 1] + d[i].len
  <2>1. \A i \in 0 .. n : p[i] = k[1 .. i]
    OBVIOUS
  <2>2. \A i \in 1 .. n : i \in 0 .. n /\ i - 1 \in 0 .. n
    OBVIOUS
  <2> HIDE DEF p
  <2>3. p[0] = k[1 .. 0]
    BY <2>1
  <2> QED BY <1>9, <1>10, <2>1, <2>2, <2>3
<1>14. Used(d) = p[n]
  BY <1>1, <1>8
<1> HIDE DEF p
<1> QED BY <1>1, <1>12, <1>13, <1>14

LEMMA UsedEmpty == Used(<<>>) = 0
<1>1. <<>> \in Seq(Pieces) /\ Len(<<>>) = 0
  BY EmptySeq
<1> QED BY <1>1, UsedIs

LEMMA UsedAppend ==
  ASSUME NEW d \in Seq(Pieces), NEW x \in Pieces
  PROVE  Used(d) \in Nat /\ Used(Append(d, x)) = Used(d) + x.len
<1>1. PICK e : e = Append(d, x)
  OBVIOUS
<1>2. PICK n \in Nat : n = Len(d)
  OBVIOUS
<1>3. e \in Seq(Pieces) /\ Len(e) = n + 1 /\ e[n + 1] = x /\ \A i \in 1 .. n : e[i] = d[i]
  BY <1>1, <1>2, AppendProperties
<1>4. PICK p \in [0 .. n -> Nat] :
        p[0] = 0 /\ (\A i \in 1 .. n : p[i] = p[i - 1] + d[i].len) /\ Used(d) = p[n]
  BY <1>2, UsedIs
<1>5. PICK q \in [0 .. n + 1 -> Nat] :
        /\ q[0] = 0 /\ (\A i \in 1 .. n + 1 : q[i] = q[i - 1] + e[i].len)
        /\ Used(e) = q[n + 1]
  BY <1>3, UsedIs
<1> DEFINE T == {i \in Nat : i <= n => p[i] = q[i]}
<1>6. \A i \in Nat : i \in T
  <2>1. 0 \in T
    BY <1>4, <1>5
  <2>2. ASSUME NEW i \in T PROVE i + 1 \in T
    <3>1. i \in Nat /\ i + 1 \in Nat
      OBVIOUS
    <3> SUFFICES ASSUME i + 1 <= n PROVE p[i + 1] = q[i + 1]
      BY <3>1
    <3>2. p[i] = q[i]
      BY <3>1
    <3>3. PICK j : j = i + 1
      OBVIOUS
    <3>4. j \in 1 .. n /\ j \in 1 .. n + 1 /\ j - 1 = i
      BY <3>1, <3>3
    <3>5. p[j] = p[i] + d[j].len /\ q[j] = q[i] + e[j].len /\ e[j] = d[j]
      BY <1>3, <1>4, <1>5, <3>4
    <3> QED BY <3>2, <3>3, <3>5
  <2> HIDE DEF T
  <2>3. T \in SUBSET Nat
    BY DEF T
  <2>4. \A i \in T : i + 1 \in T
    BY <2>2
  <2> QED BY <2>1, <2>3, <2>4, AllNumbers
<1>7. p[n] = q[n] /\ p[n] \in Nat
  BY <1>6
<1>8. q[n + 1] = q[n] + x.len
  <2>1. PICK j : j = n + 1
    OBVIOUS
  <2>2. j \in 1 .. n + 1 /\ j - 1 = n /\ e[j] = x
    BY <1>3, <2>1
  <2> QED BY <1>5, <2>1, <2>2
<1> QED BY <1>1, <1>4, <1>5, <1>7, <1>8

(* Room for one more packet.                                               *)
Room(s) == TS_PACKET_SIZE * Len(s) + TS_PACKET_SIZE < GopSize
Under(s) == TS_PACKET_SIZE * Len(s) < GopSize

LEMMA JoinedTwice ==
  ASSUME NEW s \in Seq(Packets), NEW t \in Seq(Packets), NEW w \in Seq(Packets)
  PROVE  (s \o t) \o w = s \o (t \o w)
<1> DEFINE S == Packets
<1>1. s \in Seq(S) /\ t \in Seq(S) /\ w \in Seq(S)
  OBVIOUS
<1> HIDE DEF S
<1> QED BY <1>1, ConcatAssociative

(* A buffer that holds the first packets of a write holds one more of them *)
(* after the next AddData.                                                 *)
LEMMA FilledTo ==
  ASSUME NEW g \in Seq(Packets), NEW w \in Seq(Packets), NEW j \in 1 .. Len(w)
  PROVE  Append(g \o SubSeq(w, 1, j - 1), w[j]) = g \o SubSeq(w, 1, j)
<1> DEFINE S == Packets
<1>1. g \in Seq(S) /\ w \in Seq(S)
  OBVIOUS
<1> HIDE DEF S
<1>2. /\ Len(w) \in Nat /\ 1 \in 1 .. Len(w)
      /\ \A i \in 1 .. Len(w) : w[i] \in S
  BY <1>1, ElementOfSeq, LenProperties
<1>3. SubSeq(w, 1, j) = SubSeq(w, 1, j - 1) \o <<w[j]>>
  BY <1>1, <1>2, SubSeqRecursiveSecond
<1>4. PICK a : a = SubSeq(w, 1, j - 1)
  OBVIOUS
<1>5. a \in Seq(S) /\ w[j] \in S /\ <<w[j]>> \in Seq(S)
  BY <1>1, <1>2, <1>4, SubSeqProperties
<1>6. PICK e \in Seq(S) : e = <<w[j]>>
  BY <1>5
<1>7. a \o e \in Seq(S) /\ g \o a \in Seq(S)
  BY <1>1, <1>5, <1>6, ConcatProperties
<1>8. Append(g \o a, w[j]) = (g \o a) \o e
  BY <1>5, <1>6, <1>7, AppendIsConcat
<1>9. (g \o a) \o e = g \o (a \o e)
  <2>1. a \in Seq(Packets) /\ e \in Seq(Packets)
    BY <1>5, <1>6 DEF S
  <2> QED BY <2>1, JoinedTwice
<1> QED BY <1>3, <1>4, <1>6, <1>8, <1>9

LEMMA AddDataType ==
  ASSUME NEW g \in Seq(Packets), NEW p \in Packets
  PROVE  AddData(g, p) \in Seq(Packets)
BY DEF AddData

(* The fold over AddData, packet by packet.                                *)
LEMMA AddDataIs ==
  ASSUME NEW g \in Seq(Packets), NEW w \in Seq(Packets)
  PROVE  \E p \in [0 .. Len(w) -> Seq(Packets)] :
           /\ p[0] = g
           /\ \A i \in 1 .. Len(w) : p[i] = AddData(p[i - 1], w[i])
           /\ FoldLeft(AddData, g, w) = p[Len(w)]
<1>1. PICK n \in Nat : n = Len(w) /\ DOMAIN w = 1 .. n
  BY LenProperties
<1>2. \A i \in 1 .. n : w[i] \in Packets
  BY <1>1, ElementOfSeq
<1> DEFINE V == Seq(Packets)
           st == [x \in (1 .. n) \X V |-> AddData(x[2], w[x[1]])]
           Is(f) == f = [s \in SUBSET (1 .. n) |->
                           IF s = {} THEN g ELSE AddData(f[s \ {Max(s)}], w[Max(s)])]
<1>3. st \in Steps(n, V) /\ \A i \in 1 .. n, v \in V : st[<<i, v>>] = AddData(v, w[i])
  <2> HIDE DEF V
  <2>1. \A v \in V, i \in 1 .. n : AddData(v, w[i]) \in V
    BY <1>2, AddDataType DEF V
  <2>2. ASSUME NEW i \in 1 .. n, NEW v \in V PROVE st[<<i, v>>] = AddData(v, w[i])
    <3>1. PICK x \in (1 .. n) \X V : x = <<i, v>>
      OBVIOUS
    <3>2. st[x] = AddData(x[2], w[x[1]])
      OBVIOUS
    <3> QED BY <3>1, <3>2
  <2>3. st \in [(1 .. n) \X V -> V]
    BY <2>1
  <2> HIDE DEF st
  <2> QED BY <2>2, <2>3 DEF Steps
<1> HIDE DEF st, V
<1>5. PICK f \in [SUBSET (1 .. n) -> V] :
        \A s \in SUBSET (1 .. n) : f[s] = Folded(f, st, g, s)
  <2>1. g \in V
    BY DEF V
  <2>2. Folds(n, V, g, st)
    BY <1>3, <2>1, FoldExists
  <2> QED BY <2>2 DEF Folds
<1>6. Is(f)
  <2> DEFINE h == [s \in SUBSET (1 .. n) |->
                     IF s = {} THEN g ELSE AddData(f[s \ {Max(s)}], w[Max(s)])]
  <2>1. \A s \in SUBSET (1 .. n) :
          h[s] = IF s = {} THEN g ELSE AddData(f[s \ {Max(s)}], w[Max(s)])
    OBVIOUS
  <2>2. h = [s \in SUBSET (1 .. n) |-> h[s]]
    BY Zenon
  <2> HIDE DEF h
  <2>3. ASSUME NEW s \in SUBSET (1 .. n) PROVE f[s] = h[s]
    <3>1. CASE s = {}
      BY <1>5, <2>1, <3>1 DEF Folded
    <3>2. CASE s # {}
      <4>1. PICK x \in 1 .. n : x = Max(s)
        BY <3>2, Largest
      <4>2. f[s \ {x}] \in V
        OBVIOUS
      <4>3. f[s] = st[<<x, f[s \ {x}]>>]
        BY <1>5, <3>2, <4>1 DEF Folded
      <4> QED BY <1>3, <2>1, <3>2, <4>1, <4>2, <4>3
    <3> QED BY <3>1, <3>2
  <2>4. f = [s \in SUBSET (1 .. n) |-> f[s]]
    OBVIOUS
  <2>5. f = h
    BY <2>2, <2>3, <2>4, Zenon
  <2> QED BY <2>5 DEF h
<1> DEFINE k == CHOOSE k : Is(k)
<1>7. Is(k)
  <2> HIDE DEF Is
  <2> QED BY <1>6
<1>8. FoldLeft(AddData, g, w) = k[DOMAIN w]
  BY <1>1 DEF FoldLeft, MapThenFoldSet
<1> HIDE DEF k
<1>9. k[1 .. 0] = g
  <2>1. 1 .. 0 = {} /\ {} \in SUBSET (1 .. n)
    OBVIOUS
  <2> QED BY <1>7, <2>1
<1>10. ASSUME NEW i \in 1 .. n PROVE k[1 .. i] = AddData(k[1 .. (i - 1)], w[i])
  <2>1. PICK s : s = 1 .. i
    OBVIOUS
  <2>2. s \in SUBSET (1 .. n) /\ s # {} /\ Max(s) = i /\ s \ {Max(s)} = 1 .. (i - 1)
    BY <2>1, LastOfFirst
  <2>3. k[s] = IF s = {} THEN g ELSE AddData(k[s \ {Max(s)}], w[Max(s)])
    BY <1>7, <2>2
  <2> QED BY <2>1, <2>2, <2>3
<1> HIDE DEF Is
<1> DEFINE p == [i \in 0 .. n |-> k[1 .. i]]
           T == {i \in Nat : i <= n => k[1 .. i] \in Seq(Packets)}
<1>11. \A i \in Nat : i \in T
  <2>1. 0 \in T
    BY <1>9
  <2>2. ASSUME NEW i \in T PROVE i + 1 \in T
    <3>1. i \in Nat /\ i + 1 \in Nat
      OBVIOUS
    <3> SUFFICES ASSUME i + 1 <= n PROVE k[1 .. (i + 1)] \in Seq(Packets)
      BY <3>1
    <3>2. k[1 .. i] \in Seq(Packets)
      BY <3>1
    <3>3. PICK j \in 1 .. n : j = i + 1
      BY <3>1
    <3>4. k[1 .. j] = AddData(k[1 .. (j - 1)], w[j]) /\ j - 1 = i
      BY <1>10, <3>1, <3>3
    <3> QED BY <1>2, <3>2, <3>3, <3>4, AddDataType
  <2> HIDE DEF T
  <2>3. T \in SUBSET Nat
    BY DEF T
  <2>4. \A i \in T : i + 1 \in T
    BY <2>2
  <2> QED BY <2>1, <2>3, <2>4, AllNumbers
<1>12. p \in [0 .. n -> Seq(Packets)]
  <2>1. \A i \in 0 .. n : i \in Nat /\ i <= n
    OBVIOUS
  <2> QED BY <1>11, <2>1
<1>13. p[0] = g /\ \A i \in 1 .. n : p[i] = AddData(p[i - 1], w[i])
  <2>1. \A i \in 0 .. n : p[i] = k[1 .. i]
    OBVIOUS
  <2>2. \A i \in 1 .. n : i \in 0 .. n /\ i - 1 \in 0 .. n
    OBVIOUS
  <2> HIDE DEF p
  <2>3. p[0] = k[1 .. 0]
    BY <2>1
  <2> QED BY <1>9, <1>10, <2>1, <2>2, <2>3
<1>14. FoldLeft(AddData, g, w) = p[n]
  BY <1>1, <1>8
<1> HIDE DEF p
<1> QED BY <1>1, <1>12, <1>13, <1>14

(* Packets go into a GOP up to one that does not fit, and none after it.   *)
LEMMA Fill ==
  ASSUME NEW g \in Seq(Packets), NEW w \in Seq(Packets)
  PROVE  \E m \in 0 .. Len(w) :
           /\ FoldLeft(AddData, g, w) = g \o SubSeq(w, 1, m)
           /\ m < Len(w) => ~Room(g \o SubSeq(w, 1, m))
           /\ m > 0 => Room(g) /\ Under(g \o SubSeq(w, 1, m))
<1>1. PICK n \in Nat : n = Len(w)
  BY LenProperties
<1>2. PICK p \in [0 .. n -> Seq(Packets)] :
        /\ p[0] = g
        /\ \A i \in 1 .. n : p[i] = AddData(p[i - 1], w[i])
        /\ FoldLeft(AddData, g, w) = p[n]
  BY <1>1, AddDataIs
<1> DEFINE Part(i, m) ==
             /\ p[i] = g \o SubSeq(w, 1, m) /\ (m < i => ~Room(p[i]))
             /\ m > 0 => Room(g) /\ Under(p[i])
           T == {i \in Nat : i <= n => \E m \in 0 .. i : Part(i, m)}
<1>3. 0 \in T
  <2>1. SubSeq(w, 1, 0) = <<>> /\ g \o <<>> = g
    BY SubSeqEmpty, ConcatEmptySeq
  <2>2. Part(0, 0)
    BY <1>2, <2>1
  <2> HIDE DEF Part
  <2> QED BY <2>2
<1>4. ASSUME NEW i \in T PROVE i + 1 \in T
  <2>1. i \in Nat /\ i + 1 \in Nat
    OBVIOUS
  <2> SUFFICES ASSUME i + 1 <= n PROVE \E m \in 0 .. i + 1 : Part(i + 1, m)
    BY <2>1
  <2>2. i <= n
    BY <2>1
  <2>3. PICK m \in 0 .. i : Part(i, m)
    BY <2>1, <2>2
  <2>4. PICK j \in 1 .. n : j = i + 1
    BY <2>1
  <2>5. p[j] = AddData(p[i], w[j])
    BY <1>2, <2>1, <2>4
  <2>6. CASE Room(p[i])
    <3>1. m = i
      BY <2>3, <2>6
    <3>2. p[j] = Append(p[i], w[j])
      BY <2>5, <2>6 DEF AddData, Room
    <3>3. p[i] = g \o SubSeq(w, 1, j - 1)
      BY <2>1, <2>3, <2>4, <3>1
    <3>4. p[j] = g \o SubSeq(w, 1, j)
      <4>1. j \in 1 .. Len(w)
        BY <1>1
      <4>2. Append(g \o SubSeq(w, 1, j - 1), w[j]) = g \o SubSeq(w, 1, j)
        BY <4>1, FilledTo
      <4> QED BY <3>2, <3>3, <4>2
    <3>6. Room(g)
      <4>1. CASE i = 0
        BY <1>2, <2>6, <4>1
      <4>2. CASE i # 0
        BY <2>1, <2>3, <3>1, <4>2
      <4> QED BY <4>1, <4>2
    <3>7. Under(p[j])
      <4>1. PICK q \in Seq(Packets) : q = p[i]
        BY <1>2, <2>1, <2>2
      <4>2. Len(q) \in Nat /\ Len(Append(q, w[j])) = Len(q) + 1
        OBVIOUS
      <4>3. Room(q) /\ p[j] = Append(q, w[j])
        BY <2>6, <3>2, <4>1
      <4> QED BY <4>2, <4>3 DEF Room, Under, TS_PACKET_SIZE
    <3>5. Part(j, j) /\ j \in 0 .. j
      BY <2>1, <2>4, <3>4, <3>6, <3>7
    <3> HIDE DEF Part
    <3> QED BY <2>4, <3>5
  <2>7. CASE ~Room(p[i])
    <3>1. p[j] = p[i]
      BY <2>5, <2>7 DEF AddData, Room
    <3>2. Part(j, m) /\ m \in 0 .. j
      BY <2>1, <2>3, <2>4, <2>7, <3>1
    <3> HIDE DEF Part
    <3> QED BY <2>4, <3>2
  <2> QED BY <2>6, <2>7
<1>5. n \in T
  <2> HIDE DEF T
  <2>1. T \in SUBSET Nat
    BY DEF T
  <2>2. \A i \in T : i + 1 \in T
    BY <1>4
  <2> QED BY <1>3, <2>1, <2>2, AllNumbers
<1>6. PICK m \in 0 .. n : Part(n, m)
  <2> HIDE DEF Part
  <2>1. n <= n
    OBVIOUS
  <2> QED BY <1>5, <2>1
<1> QED BY <1>1, <1>2, <1>6

(* FlattenSeq puts the sequences of a sequence behind one another.         *)
Flattened(S, s, n) ==
  \E p \in [1 .. n -> Seq(S)] :
    /\ p[1] = s[1]
    /\ \A i \in 2 .. n : p[i] = p[i - 1] \o s[i]
    /\ FlattenSeq(s) = p[n]

LEMMA FlattenIs ==
  ASSUME NEW S, NEW s \in Seq(Seq(S)), s # <<>>
  PROVE  Flattened(S, s, Len(s))
<1>1. PICK n \in Nat : n = Len(s) /\ n # 0
  BY EmptySeq
<1>2. \A i \in 1 .. n : s[i] \in Seq(S)
  BY <1>1, ElementOfSeq
<1> DEFINE V == Seq(S)
           st == [x \in (1 .. n) \X V |-> IF x[1] = 1 THEN s[1] ELSE x[2] \o s[x[1]]]
           Is(f) == f = [i \in 1 .. n |-> IF i = 1 THEN s[i] ELSE f[i - 1] \o s[i]]
<1>3. /\ st \in Steps(n, V)
      /\ \A i \in 1 .. n, v \in V : st[<<i, v>>] = IF i = 1 THEN s[1] ELSE v \o s[i]
  <2> HIDE DEF V
  <2>1. \A v \in V, i \in 1 .. n : s[1] \in V /\ v \o s[i] \in V
    BY <1>2, ConcatProperties DEF V
  <2>2. ASSUME NEW i \in 1 .. n, NEW v \in V
        PROVE  st[<<i, v>>] = IF i = 1 THEN s[1] ELSE v \o s[i]
    <3>1. PICK x \in (1 .. n) \X V : x = <<i, v>>
      OBVIOUS
    <3>2. st[x] = IF x[1] = 1 THEN s[1] ELSE x[2] \o s[x[1]]
      OBVIOUS
    <3> QED BY <3>1, <3>2
  <2>3. st \in [(1 .. n) \X V -> V]
    BY <2>1
  <2> HIDE DEF st
  <2> QED BY <2>2, <2>3 DEF Steps
<1> HIDE DEF st, V
<1>4. PICK g \in [SUBSET (1 .. n) -> V] :
        \A r \in SUBSET (1 .. n) : g[r] = Folded(g, st, s[1], r)
  <2>1. s[1] \in V
    BY <1>1, <1>2 DEF V
  <2>2. Folds(n, V, s[1], st)
    BY <1>3, <2>1, FoldExists
  <2> QED BY <2>2 DEF Folds
<1> DEFINE p == [i \in 1 .. n |-> g[1 .. i]]
<1>5. p \in [1 .. n -> Seq(S)]
  BY DEF V
<1>6. ASSUME NEW i \in 1 .. n
      PROVE  p[i] = IF i = 1 THEN s[i] ELSE p[i - 1] \o s[i]
  <2>1. PICK r : r = 1 .. i
    OBVIOUS
  <2>2. r \in SUBSET (1 .. n) /\ r # {} /\ Max(r) = i /\ r \ {Max(r)} = 1 .. (i - 1)
    BY <2>1, LastOfFirst
  <2>3. g[r] = st[<<i, g[1 .. (i - 1)]>>] /\ g[1 .. (i - 1)] \in V
    BY <1>4, <2>2 DEF Folded
  <2>4. g[r] = IF i = 1 THEN s[1] ELSE g[1 .. (i - 1)] \o s[i]
    BY <1>3, <2>3
  <2>5. i # 1 => i - 1 \in 1 .. n
    OBVIOUS
  <2> QED BY <2>1, <2>4, <2>5
<1>7. Is(p)
  <2> DEFINE h == [i \in 1 .. n |-> IF i = 1 THEN s[i] ELSE p[i - 1] \o s[i]]
  <2>2. \A i \in 1 .. n : h[i] = IF i = 1 THEN s[i] ELSE p[i - 1] \o s[i]
    OBVIOUS
  <2>3. h = [i \in 1 .. n |-> h[i]]
    OBVIOUS
  <2> HIDE DEF h
  <2>4. p = [i \in 1 .. n |-> p[i]]
    BY <1>5
  <2> HIDE DEF p
  <2>5. \A i \in 1 .. n : p[i] = h[i]
    BY <1>6, <2>2
  <2>6. p = h
    BY <2>3, <2>4, <2>5, Zenon
  <2> QED BY <2>6 DEF h
<1> HIDE DEF p
<1> DEFINE k == CHOOSE k : Is(k)
<1>8. Is(k)
  <2> HIDE DEF Is
  <2> QED BY <1>7
<1>9. FlattenSeq(s) = k[n]
  BY <1>1 DEF FlattenSeq
<1> HIDE DEF k
<1>10. ASSUME NEW i \in 1 .. n PROVE k[i] = IF i = 1 THEN s[i] ELSE k[i - 1] \o s[i]
  BY <1>8
<1> DEFINE T == {i \in Nat : i \in 1 .. n => k[i] = p[i]}
<1>11. \A i \in Nat : i \in T
  <2>1. 0 \in T
    OBVIOUS
  <2>2. ASSUME NEW i \in T PROVE i + 1 \in T
    <3>1. i \in Nat /\ i + 1 \in Nat
      OBVIOUS
    <3> SUFFICES ASSUME i + 1 \in 1 .. n PROVE k[i + 1] = p[i + 1]
      BY <3>1
    <3>2. PICK j \in 1 .. n : j = i + 1
      BY <3>1
    <3>3. j # 1 => k[j - 1] = p[j - 1]
      BY <3>1, <3>2
    <3> QED BY <1>6, <1>10, <3>2, <3>3
  <2> HIDE DEF T
  <2>3. T \in SUBSET Nat
    BY DEF T
  <2>4. \A i \in T : i + 1 \in T
    BY <2>2
  <2> QED BY <2>1, <2>3, <2>4, AllNumbers
<1>12. k[n] = p[n]
  BY <1>1, <1>11
<1>13. p[1] = s[1]
  BY <1>1, <1>6
<1>14. \A i \in 2 .. n : p[i] = p[i - 1] \o s[i]
  <2> TAKE i \in 2 .. n
  <2>1. i \in 1 .. n /\ i # 1
    OBVIOUS
  <2> QED BY <1>6, <2>1
<1> QED BY <1>1, <1>5, <1>9, <1>12, <1>13, <1>14 DEF Flattened

LEMMA FlattenEmpty == FlattenSeq(<<>>) = <<>>
BY DEF FlattenSeq

LEMMA FlattenAppend ==
  ASSUME NEW S, NEW s \in Seq(Seq(S)), NEW x \in Seq(S)
  PROVE  /\ FlattenSeq(s) \in Seq(S)
         /\ FlattenSeq(Append(s, x)) = FlattenSeq(s) \o x
<1>1. PICK e : e = Append(s, x)
  OBVIOUS
<1>2. PICK n \in Nat : n = Len(s)
  OBVIOUS
<1>3. /\ e \in Seq(Seq(S)) /\ e # <<>> /\ Len(e) = n + 1 /\ e[n + 1] = x
      /\ \A i \in 1 .. n : e[i] = s[i]
  BY <1>1, <1>2, AppendProperties
<1>4. PICK q \in [1 .. n + 1 -> Seq(S)] :
        /\ q[1] = e[1]
        /\ \A i \in 2 .. n + 1 : q[i] = q[i - 1] \o e[i]
        /\ FlattenSeq(e) = q[n + 1]
  <2>1. Flattened(S, e, n + 1)
    BY <1>3, FlattenIs
  <2> QED BY <2>1 DEF Flattened
<1>5. CASE s = <<>>
  <2>1. n = 0 /\ FlattenSeq(s) = <<>> /\ <<>> \in Seq(S)
    BY <1>2, <1>5, FlattenEmpty, EmptySeq
  <2>2. FlattenSeq(e) = x
    BY <1>3, <1>4, <2>1
  <2> QED BY <1>1, <2>1, <2>2, ConcatEmptySeq
<1>6. CASE s # <<>>
  <2>1. n # 0
    BY <1>2, <1>6, EmptySeq
  <2>2. PICK p \in [1 .. n -> Seq(S)] :
          /\ p[1] = s[1]
          /\ \A i \in 2 .. n : p[i] = p[i - 1] \o s[i]
          /\ FlattenSeq(s) = p[n]
    <3>1. Flattened(S, s, n)
      BY <1>2, <1>6, FlattenIs
    <3> QED BY <3>1 DEF Flattened
  <2> DEFINE T == {i \in Nat : i \in 1 .. n => q[i] = p[i]}
  <2>3. \A i \in Nat : i \in T
    <3>1. 0 \in T
      OBVIOUS
    <3>2. ASSUME NEW i \in T PROVE i + 1 \in T
      <4>1. i \in Nat /\ i + 1 \in Nat
        OBVIOUS
      <4> SUFFICES ASSUME i + 1 \in 1 .. n PROVE q[i + 1] = p[i + 1]
        BY <4>1
      <4>2. PICK j \in 1 .. n : j = i + 1
        BY <4>1
      <4>3. e[j] = s[j]
        BY <1>3
      <4>4. CASE j = 1
        BY <1>4, <2>2, <4>2, <4>3, <4>4
      <4>5. CASE j # 1
        <5>1. j \in 2 .. n /\ j \in 2 .. n + 1 /\ j - 1 = i /\ i \in 1 .. n
          BY <4>1, <4>2, <4>5
        <5>2. q[i] = p[i]
          BY <5>1
        <5>3. q[j] = q[i] \o e[j] /\ p[j] = p[i] \o s[j]
          BY <1>4, <2>2, <5>1
        <5> QED BY <4>2, <4>3, <5>2, <5>3
      <4> QED BY <4>4, <4>5
    <3> HIDE DEF T
    <3>3. T \in SUBSET Nat
      BY DEF T
    <3>4. \A i \in T : i + 1 \in T
      BY <3>2
    <3> QED BY <3>1, <3>3, <3>4, AllNumbers
  <2>4. q[n] = p[n] /\ p[n] \in Seq(S)
    BY <2>1, <2>3
  <2>5. q[n + 1] = q[n] \o x
    <3>1. PICK j : j = n + 1
      OBVIOUS
    <3>2. j \in 2 .. n + 1 /\ j - 1 = n /\ e[j] = x
      BY <1>3, <2>1, <3>1
    <3> QED BY <1>4, <3>1, <3>2
  <2> QED BY <1>1, <1>4, <2>2, <2>4, <2>5
<1> QED BY <1>5, <1>6

-----------------------------------------------------------------------------
(***************************************************************************)
(* The whole way.  Its steps are steps of the multiplexer, or leave that   *)
(* alone.                                                                  *)
(***************************************************************************)
LEMMA StreamStep == [StreamNext]_allVars => [Next]_vars
<1> SUFFICES ASSUME [StreamNext]_allVars PROVE [Next]_vars
  OBVIOUS
<1>1. CASE Encode
  BY <1>1 DEF Encode, Next
<1>2. CASE Packet
  BY <1>2 DEF Packet, Next
<1>3. CASE WriteFrameData
  BY <1>3 DEF WriteFrameData, Next
<1>4. CASE Open
  BY <1>4 DEF Open
<1>5. CASE DeliverFrame
  BY <1>5 DEF DeliverFrame
<1>6. CASE ProcessVideo
  BY <1>6 DEF ProcessVideo
<1>7. CASE ProcessAudio
  BY <1>7 DEF ProcessAudio
<1>8. CASE SkipPacket
  BY <1>8 DEF SkipPacket
<1>9. CASE Rewind
  BY <1>9 DEF Rewind
<1>10. CASE UNCHANGED allVars
  BY <1>10 DEF allVars
<1>11. CASE BeyondBuffer
  BY <1>11 DEF BeyondBuffer, Next
<1> QED
  BY <1>1, <1>2, <1>3, <1>4, <1>5, <1>6, <1>7, <1>8, <1>9, <1>10, <1>11 DEF StreamNext

LEMMA StreamIsMux == StreamSpec => Spec
<1>1. StreamInit => Init
  BY DEF StreamInit
<1> QED BY <1>1, StreamStep, PTL DEF StreamSpec, Spec

(* With segmenter and player around it, Mux makes whole packets.           *)
THEOREM StreamPacketsWhole == StreamSpec => []WholePackets
BY StreamIsMux, PacketsWhole, PTL

(* With segmenter and player around it, no unit that fits overruns the     *)
(* buffer of the bridge.                                                   *)
THEOREM StreamTakesUnits == StreamSpec => []TakesUnits
BY StreamIsMux, BufferTakesUnits, PTL

(* With segmenter and player around it, the clock keeps up.                *)
THEOREM StreamClockKeepsUp == StreamSpec => []ClockFollows
BY StreamIsMux, ClockKeepsUp, PTL

-----------------------------------------------------------------------------
(* The sender *)

Media(p) == p.pid \in Kinds

(* The units that were sent, the last of them in hand.                     *)
Sent ==
  /\ units \in Seq(Units)
  /\ Len(units) = unit.n
  /\ unit.n > 0 => units[unit.n] = unit
  /\ \A i \in 1 .. unit.n : units[i].size > 0
  /\ pc = "packets" => unit.n > 0

(* The packets of the unit u of which `copied' bytes were taken: system    *)
(* packets up to h, then the unit from its first byte on.                  *)
Chain(b, u, copied, h) ==
  /\ \A i \in 1 .. h : ~Media(b[i]) /\ ~b[i].start
  /\ \A i \in h + 1 .. Len(b) :
       /\ b[i].pid = u.kind /\ b[i].unit = u.n /\ b[i].pts = u.pts
       /\ b[i].start <=> i = h + 1
       /\ DataLen(b[i]) \in 1 .. u.size
       /\ b[i].from = IF i = h + 1 THEN 0 ELSE b[i - 1].from + DataLen(b[i - 1])
       /\ b[i].from + DataLen(b[i]) <= copied
  /\ copied = IF h = Len(b) THEN 0 ELSE b[Len(b)].from + DataLen(b[Len(b)])

Buffered == pc = "packets" => \E h \in 0 .. Len(buf) : Chain(buf, unit, src, h)

(* As long as there is only video, the tables are sent with every unit.    *)
AllVideo == \A i \in DOMAIN units : units[i].kind = "video"
Tabled ==
  AllVideo =>
    /\ audioPts = 0 /\ psiSent = 0
    /\ pc = "packets" =>
         \E a, b \in DOMAIN buf : buf[a].pid = "pat" /\ buf[b].pid = "pmt"

SendInv == Inv /\ Sent /\ Buffered /\ Tabled

LEMMA SendInit == StreamInit => SendInv
<1> SUFFICES ASSUME StreamInit PROVE SendInv
  OBVIOUS
<1>1. Inv
  BY InitInv DEF StreamInit
<1>2. unit.n = 0 /\ pc = "idle" /\ units = <<>> /\ audioPts = 0 /\ psiSent = 0
  BY DEF StreamInit, Init, NoUnit
<1>3. units \in Seq(Units) /\ Len(units) = 0
  BY <1>2, EmptySeq
<1> QED BY <1>1, <1>2, <1>3 DEF SendInv, Sent, Buffered, Tabled

LEMMA OneAndTwo ==
  ASSUME NEW a, NEW b, NEW c, NEW s, s = <<a>> \o <<b, c>>
  PROVE  DOMAIN s = {1, 2, 3} /\ s[1] = a /\ s[2] = b /\ s[3] = c
<1> DEFINE S == {a, b, c}
<1>0. a \in S /\ b \in S /\ c \in S
  OBVIOUS
<1> HIDE DEF S
<1>1. PICK x \in Seq(S) : x = <<a>> /\ Len(x) = 1 /\ x[1] = a
  BY <1>0
<1>2. PICK y \in Seq(S) : y = <<b, c>> /\ Len(y) = 2 /\ y[1] = b /\ y[2] = c
  <2>1. <<b, c>> \in Seq(S)
    BY <1>0
  <2>2. Len(<<b, c>>) = 2 /\ <<b, c>>[1] = b /\ <<b, c>>[2] = c
    OBVIOUS
  <2> QED BY <2>1, <2>2
<1>3. /\ x \o y \in Seq(S) /\ Len(x \o y) = 3
      /\ \A i \in 1 .. 3 : (x \o y)[i] = IF i <= 1 THEN x[i] ELSE y[i - 1]
  BY <1>1, <1>2, ConcatProperties
<1>4. s = x \o y
  BY <1>1, <1>2
<1>5. DOMAIN s = 1 .. 3
  BY <1>3, <1>4
<1>6. 1 .. 3 = {1, 2, 3} /\ 2 - 1 = 1 /\ 3 - 1 = 2
  OBVIOUS
<1>7. s[1] = x[1] /\ s[2] = y[1] /\ s[3] = y[2]
  BY <1>3, <1>4, <1>6
<1> QED BY <1>1, <1>2, <1>5, <1>6, <1>7

(* A new unit.                                                             *)
LEMMA EncodeIs ==
  ASSUME SendInv, Encode
  PROVE  /\ pc = "idle" /\ pc' = "packets" /\ src' = 0
         /\ unit.n < MaxUnits
         /\ unit' \in Units /\ unit'.n = unit.n + 1 /\ unit'.size > 0
         /\ units' = Append(units, unit')
         /\ unit.n \in Nat
         /\ Inv'
         /\ \A i \in DOMAIN buf' : buf'[i].pid \notin Kinds /\ ~buf'[i].start
         /\ unit'.kind = "video" => audioPts' = audioPts /\ psiSent' \in {psiSent, audioPts}
         /\ unit'.kind = "video" /\ psiSent = 0 =>
              \E a, b \in DOMAIN buf' : buf'[a].pid = "pat" /\ buf'[b].pid = "pmt"
<1>1. Call /\ units' = Append(units, unit') /\ Inv
  BY DEF Encode, SendInv
<1>12. PICK kind \in Kinds, size \in Sizes, sps \in BOOLEAN :
         \E pts \in NextPts(kind) : Enter(kind, size, pts, sps)
  BY <1>1 DEF Call
<1>2. PICK pts \in NextPts(kind) : Enter(kind, size, pts, sps)
  BY <1>12
<1>3. Inv'
  BY <1>1, CallInv
<1>4. /\ pc = "idle" /\ unit.n < MaxUnits /\ pc' = "packets" /\ src' = 0
      /\ unit' = [n |-> unit.n + 1, kind |-> kind, size |-> size, pts |-> pts, sps |-> sps]
      /\ buf' = Clock(ClockOf(pts)) \o Tables(kind)
      /\ audioPts' = IF kind = "audio" THEN pts ELSE audioPts
      /\ psiSent' = IF TablesDue(kind) THEN audioPts ELSE psiSent
  BY <1>1, <1>2 DEF Enter, Call
<1>5. unit.n \in Nat /\ unit' \in Units
  BY <1>1, <1>3 DEF Inv, TypeOK, Units
<1>6. size > 0
  BY TsMuxAssumption
<1>7. \A q \in {"pcr", "pat", "pmt"} : \A t : q \notin Kinds /\ System(q, t).pid = q /\ ~System(q, t).start
  BY DEF System, Kinds
<1>8. \A i \in DOMAIN buf' : buf'[i].pid \notin Kinds /\ ~buf'[i].start
  <2>1. PICK c : c = ClockOf(pts)
    OBVIOUS
  <2>2. buf' = Clock(c) \o Tables(kind)
    BY <1>4, <2>1
  <2>3. CASE ClockDue(c) /\ TablesDue(kind)
    <3>1. buf' = <<System("pcr", c)>> \o <<System("pat", 0), System("pmt", 0)>>
      BY <2>2, <2>3 DEF Clock, Tables
    <3>3. PICK x, y, z : x = System("pcr", c) /\ y = System("pat", 0) /\ z = System("pmt", 0)
      OBVIOUS
    <3>4. buf' = <<x>> \o <<y, z>>
      BY <3>1, <3>3
    <3>5. DOMAIN buf' = {1, 2, 3} /\ buf'[1] = x /\ buf'[2] = y /\ buf'[3] = z
      BY <3>4, OneAndTwo
    <3> QED BY <1>7, <3>3, <3>5
  <2>4. CASE ClockDue(c) /\ ~TablesDue(kind)
    <3>1. buf' = <<System("pcr", c)>> \o <<>>
      BY <2>2, <2>4 DEF Clock, Tables
    <3>2. buf' = <<System("pcr", c)>>
      BY <3>1
    <3> QED BY <1>7, <3>2
  <2>5. CASE ~ClockDue(c) /\ TablesDue(kind)
    <3>1. buf' = <<>> \o <<System("pat", 0), System("pmt", 0)>>
      BY <2>2, <2>5 DEF Clock, Tables
    <3>2. buf' = <<System("pat", 0), System("pmt", 0)>>
      BY <3>1
    <3> QED BY <1>7, <3>2
  <2>6. CASE ~ClockDue(c) /\ ~TablesDue(kind)
    <3>1. buf' = <<>> \o <<>>
      BY <2>2, <2>6 DEF Clock, Tables
    <3>2. buf' = <<>>
      BY <3>1
    <3> QED BY <3>2
  <2> QED BY <2>3, <2>4, <2>5, <2>6
<1>9. ASSUME kind = "video"
      PROVE  audioPts' = audioPts /\ psiSent' \in {psiSent, audioPts}
  BY <1>4, <1>9
<1>10. ASSUME kind = "video", psiSent = 0
       PROVE  \E a, b \in DOMAIN buf' : buf'[a].pid = "pat" /\ buf'[b].pid = "pmt"
  <2>1. TablesDue(kind)
    BY <1>10 DEF TablesDue
  <2>2. PICK c : c = ClockOf(pts)
    OBVIOUS
  <2>3. CASE ClockDue(c)
    <3>1. buf' = <<System("pcr", c)>> \o <<System("pat", 0), System("pmt", 0)>>
      BY <1>4, <2>1, <2>2, <2>3 DEF Clock, Tables
    <3>3. PICK x, y, z : x = System("pcr", c) /\ y = System("pat", 0) /\ z = System("pmt", 0)
      OBVIOUS
    <3>4. buf' = <<x>> \o <<y, z>>
      BY <3>1, <3>3
    <3>5. DOMAIN buf' = {1, 2, 3} /\ buf'[2] = y /\ buf'[3] = z
      BY <3>4, OneAndTwo
    <3> QED BY <1>7, <3>3, <3>5
  <2>4. CASE ~ClockDue(c)
    <3>1. buf' = <<>> \o <<System("pat", 0), System("pmt", 0)>>
      BY <1>4, <2>1, <2>2, <2>4 DEF Clock, Tables
    <3>2. buf' = <<System("pat", 0), System("pmt", 0)>>
      BY <3>1
    <3>3. 1 \in DOMAIN buf' /\ 2 \in DOMAIN buf' /\ buf'[1].pid = "pat" /\ buf'[2].pid = "pmt"
      BY <1>7, <3>2
    <3> QED BY <3>3
  <2> QED BY <2>3, <2>4
<1>11. unit'.n = unit.n + 1 /\ unit'.size = size /\ unit'.kind = kind
  BY <1>4
<1> QED BY <1>1, <1>3, <1>4, <1>5, <1>6, <1>8, <1>9, <1>10, <1>11

LEMMA EncodeSend ==
  ASSUME SendInv, Encode
  PROVE  SendInv'
<1>1. units \in Seq(Units) /\ Len(units) = unit.n /\ Inv'
      /\ (unit.n > 0 => units[unit.n] = unit)
      /\ \A i \in 1 .. unit.n : units[i].size > 0
  BY EncodeIs DEF SendInv, Sent
<1>2. PICK n \in Nat : n = unit.n
  BY EncodeIs
<1>3. /\ units' \in Seq(Units) /\ Len(units') = n + 1 /\ units'[n + 1] = unit'
      /\ \A i \in 1 .. n : units'[i] = units[i]
  BY <1>1, <1>2, EncodeIs, AppendProperties
<1>4. unit'.n = n + 1 /\ unit'.size > 0
  BY <1>2, EncodeIs
<1>5. Sent'
  <2>1. \A i \in 1 .. n + 1 : units'[i].size > 0
    <3> TAKE i \in 1 .. n + 1
    <3>1. CASE i = n + 1
      BY <1>3, <1>4, <3>1
    <3>2. CASE i # n + 1
      <4>1. i \in 1 .. n
        BY <3>2
      <4> QED BY <1>1, <1>2, <1>3, <4>1
    <3> QED BY <3>1, <3>2
  <2> QED BY <1>3, <1>4, <2>1 DEF Sent
<1>6. buf' \in Seq(Packets)
  BY <1>1 DEF Inv, TypeOK
<1>7. Buffered'
  <2>1. PICK h \in Nat : h = Len(buf')
    BY <1>6
  <2>2. Chain(buf', unit', src', h)
    <3>1. \A i \in 1 .. h : ~Media(buf'[i]) /\ ~buf'[i].start
      BY <1>6, <2>1, EncodeIs DEF Media
    <3>2. \A i \in h + 1 .. Len(buf') : FALSE
      BY <2>1
    <3> QED BY <2>1, <3>1, <3>2, EncodeIs DEF Chain
  <2>3. h \in 0 .. Len(buf')
    BY <2>1
  <2> QED BY <2>2, <2>3 DEF Buffered
<1>8. Tabled'
  <2> SUFFICES ASSUME AllVideo'
               PROVE  /\ audioPts' = 0 /\ psiSent' = 0
                      /\ \E a, b \in DOMAIN buf' : buf'[a].pid = "pat" /\ buf'[b].pid = "pmt"
    BY DEF Tabled
  <2>1. DOMAIN units = 1 .. n /\ DOMAIN units' = 1 .. n + 1
    BY <1>1, <1>2, <1>3
  <2>2. AllVideo /\ unit'.kind = "video"
    <3>1. \A i \in 1 .. n + 1 : units'[i].kind = "video"
      BY <2>1 DEF AllVideo
    <3>2. \A i \in 1 .. n : units[i].kind = "video"
      BY <1>3, <3>1
    <3> QED BY <1>3, <2>1, <3>1, <3>2 DEF AllVideo
  <2>3. audioPts = 0 /\ psiSent = 0
    BY <2>2 DEF SendInv, Tabled
  <2> QED BY <2>2, <2>3, EncodeIs
<1> QED BY <1>1, <1>5, <1>7, <1>8 DEF SendInv

LEMMA PacketSend ==
  ASSUME SendInv, Packet
  PROVE  SendInv'
<1>0. AddPacket /\ UNCHANGED <<sender, player>> /\ Inv /\ pc = "packets"
  BY DEF Packet, SendInv, AddPacket
<1>1. Inv'
  BY <1>0, AddPacketInv
<1>2. PICK p \in Packets : Added(p)
  BY <1>0, AddPacketIs
<1>3. PICK d \in 1 .. left : d = DataLen(p)
  BY <1>2 DEF Added
<1>4. /\ p.pid = unit.kind /\ p.unit = unit.n /\ (p.start <=> src = 0)
      /\ p.from = src /\ p.pts = unit.pts
      /\ buf' = Append(buf, p) /\ src' = src + d
      /\ pc' = pc /\ unit' = unit /\ audioPts' = audioPts /\ psiSent' = psiSent
      /\ units' = units
  BY <1>0, <1>2, <1>3 DEF Added, NewPes, clock, sender
<1>5. left \in Nat /\ src \in Nat /\ unit.size = src + left /\ buf \in Seq(Packets)
  BY <1>0 DEF Inv, TypeOK, LoopInv
<1>6. PICK n \in Nat : n = Len(buf)
  BY <1>5
<1>7. /\ buf' \in Seq(Packets) /\ Len(buf') = n + 1 /\ buf'[n + 1] = p
      /\ \A i \in 1 .. n : buf'[i] = buf[i]
  BY <1>4, <1>5, <1>6, AppendProperties
<1>8. Sent'
  BY <1>4 DEF SendInv, Sent
<1>9. Buffered'
  <2>1. PICK h \in 0 .. n : Chain(buf, unit, src, h)
    BY <1>0, <1>6 DEF SendInv, Buffered
  <2> DEFINE Link(b, i, c) ==
        /\ b[i].pid = unit.kind /\ b[i].unit = unit.n /\ b[i].pts = unit.pts
        /\ b[i].start <=> i = h + 1
        /\ DataLen(b[i]) \in 1 .. unit.size
        /\ b[i].from = IF i = h + 1 THEN 0 ELSE b[i - 1].from + DataLen(b[i - 1])
        /\ b[i].from + DataLen(b[i]) <= c
  <2>2. \A i \in h + 1 .. n : Link(buf, i, src)
    BY <1>6, <2>1 DEF Chain
  <2>3. src = IF h = n THEN 0 ELSE buf[n].from + DataLen(buf[n])
    BY <1>6, <2>1 DEF Chain
  <2>4. \A i \in 1 .. n : buf[i].from \in Nat
    <3>1. \A i \in 1 .. n : buf[i] \in Packets
      BY <1>5, <1>6, ElementOfSeq
    <3>2. \A x \in Packets : x.from \in Nat
      BY DEF Packets
    <3> QED BY <3>1, <3>2
  <2>5. src = 0 <=> h = n
    <3>1. ASSUME h # n PROVE src # 0
      <4>1. n \in h + 1 .. n /\ n \in 1 .. n
        BY <3>1
      <4>2. DataLen(buf[n]) \in 1 .. unit.size /\ buf[n].from \in Nat
        BY <2>2, <2>4, <4>1
      <4>3. \A a, b \in Nat : \A c \in 1 .. b : a + c # 0
        OBVIOUS
      <4> QED BY <1>5, <2>3, <3>1, <4>2
    <3> QED BY <2>3, <3>1
  <2>6. d <= unit.size /\ d \in Nat /\ d >= 1
    BY <1>5
  <2>7. ASSUME NEW i \in h + 1 .. n PROVE Link(buf', i, src + d)
    <3>1. i \in 1 .. n /\ buf'[i] = buf[i] /\ (i # h + 1 => i - 1 \in 1 .. n)
      BY <1>7
    <3>2. i # h + 1 => buf'[i - 1] = buf[i - 1]
      BY <1>7, <3>1
    <3>3. Link(buf, i, src)
      BY <2>2
    <3>4. DataLen(buf[i]) \in Nat /\ buf[i].from \in Nat
      BY <2>4, <3>1, <3>3
    <3>5. buf[i].from + DataLen(buf[i]) <= src + d
      BY <1>5, <2>6, <3>3, <3>4
    <3> QED BY <3>1, <3>2, <3>3, <3>5
  <2>8. Link(buf', n + 1, src + d)
    <3>1. buf'[n + 1] = p /\ (n + 1 # h + 1 => buf'[n] = buf[n])
      BY <1>7
    <3>2. p.from + DataLen(p) <= src + d
      BY <1>3, <1>4, <1>5
    <3>3. DataLen(p) \in 1 .. unit.size
      BY <1>3, <1>5, <2>6
    <3>7. n + 1 = h + 1 <=> h = n
      OBVIOUS
    <3>4. p.from = IF n + 1 = h + 1 THEN 0 ELSE buf'[n].from + DataLen(buf'[n])
      BY <1>4, <2>3, <3>1, <3>7
    <3>5. p.start <=> n + 1 = h + 1
      BY <1>4, <2>5, <3>7
    <3>6. (n + 1) - 1 = n
      OBVIOUS
    <3> QED BY <1>4, <3>1, <3>2, <3>3, <3>4, <3>5, <3>6
  <2>9. \A i \in h + 1 .. n + 1 : Link(buf', i, src + d)
    <3> HIDE DEF Link
    <3> TAKE i \in h + 1 .. n + 1
    <3>1. i = n + 1 \/ i \in h + 1 .. n
      OBVIOUS
    <3> QED BY <2>7, <2>8, <3>1
  <2>10. \A i \in 1 .. h : ~Media(buf'[i]) /\ ~buf'[i].start
    BY <1>7, <2>1 DEF Chain
  <2>11. src + d = IF h = n + 1 THEN 0 ELSE buf'[n + 1].from + DataLen(buf'[n + 1])
    BY <1>3, <1>4, <1>7
  <2>12. Chain(buf', unit, src + d, h)
    BY <1>7, <2>9, <2>10, <2>11 DEF Chain
  <2>13. h \in 0 .. Len(buf')
    BY <1>7
  <2> QED BY <1>4, <2>12, <2>13 DEF Buffered
<1>10. Tabled'
  <2> SUFFICES ASSUME AllVideo'
               PROVE  /\ audioPts' = 0 /\ psiSent' = 0
                      /\ \E a, b \in DOMAIN buf' : buf'[a].pid = "pat" /\ buf'[b].pid = "pmt"
    BY DEF Tabled
  <2>1. AllVideo
    BY <1>4 DEF AllVideo
  <2>2. PICK a \in DOMAIN buf, b \in DOMAIN buf : buf[a].pid = "pat" /\ buf[b].pid = "pmt"
    BY <1>0, <2>1 DEF SendInv, Tabled
  <2>3. a \in DOMAIN buf' /\ b \in DOMAIN buf' /\ buf'[a] = buf[a] /\ buf'[b] = buf[b]
    BY <1>5, <1>6, <1>7
  <2> QED BY <1>4, <2>1, <2>2, <2>3 DEF SendInv, Tabled
<1> QED BY <1>1, <1>8, <1>9, <1>10 DEF SendInv

LEMMA SendStep == SendInv /\ [StreamNext]_allVars => SendInv'
<1> SUFFICES ASSUME SendInv, [StreamNext]_allVars PROVE SendInv'
  OBVIOUS
<1>0. Inv'
  BY StreamStep, StepInv DEF SendInv
<1>1. CASE Encode
  BY <1>1, EncodeSend
<1>2. CASE Packet
  BY <1>2, PacketSend
<1>3. CASE WriteFrameData
  <2>1. Return /\ UNCHANGED units
    BY <1>3 DEF WriteFrameData
  <2>2. pc' = "idle" /\ UNCHANGED <<unit, units, audioPts, psiSent>>
    BY <2>1 DEF Return, clock
  <2>3. Sent' /\ Buffered'
    BY <2>2 DEF SendInv, Sent, Buffered
  <2>4. Tabled'
    BY <2>2 DEF SendInv, Tabled, AllVideo
  <2> QED BY <1>0, <2>3, <2>4 DEF SendInv
<1>4. CASE UNCHANGED <<vars, sender>>
  <2>1. UNCHANGED <<pc, unit, src, buf, units, audioPts, psiSent>>
    BY <1>4 DEF vars, sender, clock
  <2>2. Sent' /\ Buffered'
    BY <2>1 DEF SendInv, Sent, Buffered
  <2>3. Tabled'
    BY <2>1 DEF SendInv, Tabled, AllVideo
  <2> QED BY <1>0, <2>2, <2>3 DEF SendInv
<1>5. CASE Open \/ DeliverFrame \/ ProcessVideo \/ ProcessAudio \/ SkipPacket \/ Rewind
  <2>1. UNCHANGED <<vars, sender>>
    BY <1>5 DEF Open, DeliverFrame, ProcessVideo, ProcessAudio, SkipPacket, Rewind
  <2> QED BY <1>4, <2>1
<1>6. CASE UNCHANGED allVars
  BY <1>4, <1>6 DEF allVars
<1>7. CASE BeyondBuffer
  <2>1. pc' = "overrun" /\ UNCHANGED <<unit, units, audioPts, psiSent>>
    BY <1>7 DEF BeyondBuffer, Overrun, clock, sender
  <2>2. Sent' /\ Buffered'
    BY <2>1 DEF SendInv, Sent, Buffered
  <2>3. Tabled'
    BY <2>1 DEF SendInv, Tabled, AllVideo
  <2> QED BY <1>0, <2>2, <2>3 DEF SendInv
<1> QED BY <1>1, <1>2, <1>3, <1>5, <1>6, <1>7 DEF StreamNext

LEMMA SendHolds == StreamSpec => []SendInv
BY SendInit, SendStep, PTL DEF StreamSpec

-----------------------------------------------------------------------------
(* The GOPs *)

Packaged == gop \in Seq(Packets) /\ gops \in Seq(Seq(Packets)) /\ dropped \subseteq Nat

(* What the frame in hand is added to, and how much of it goes in.         *)
Before == IF NewGop THEN <<>> ELSE gop
Written(m) ==
  /\ pc = "packets" /\ pc' = "idle" /\ UNCHANGED <<unit, units, buf, src, player>>
  /\ gop' = Before \o SubSeq(buf, 1, m)
  /\ m < Len(buf) => ~Room(gop')
  /\ m > 0 => Room(Before) /\ Under(gop')
  /\ gops' = IF NewGop /\ gop # <<>> THEN Append(gops, gop) ELSE gops
  /\ dropped' = IF m < Len(buf) THEN dropped \union {unit.n} ELSE dropped

LEMMA WriteIs ==
  ASSUME SendInv, Packaged, WriteFrameData
  PROVE  /\ \E m \in 0 .. Len(buf) : Written(m)
         /\ Before \in Seq(Packets) /\ buf \in Seq(Packets) /\ Len(buf) \in Nat
         /\ src = unit.size /\ unit.n \in Nat
         /\ \A m \in 0 .. Len(buf) :
              /\ SubSeq(buf, 1, m) \in Seq(Packets) /\ Len(SubSeq(buf, 1, m)) = m
              /\ \A i \in 1 .. m : SubSeq(buf, 1, m)[i] = buf[i]
<1>1. /\ Return /\ UNCHANGED <<units, player>>
      /\ LET written == SubSeq(buf, 1, tsSize \div TS_PACKET_SIZE)
             start   == IF NewGop THEN <<>> ELSE gop
             filled  == FoldLeft(AddData, start, written)
         IN  /\ gops' = IF NewGop /\ gop # <<>> THEN Append(gops, gop) ELSE gops
             /\ gop' = filled
             /\ dropped' = IF Len(filled) < Len(start) + Len(written)
                           THEN dropped \union {unit.n} ELSE dropped
  BY DEF WriteFrameData
<1>2. /\ pc = "packets" /\ pc' = "idle" /\ left <= 0
      /\ UNCHANGED <<unit, units, buf, src, player>>
  BY <1>1 DEF Return
<1>3. /\ tsSize = TS_PACKET_SIZE * Len(buf) /\ src = unit.size
      /\ buf \in Seq(Packets) /\ unit.n \in Nat
  BY <1>2 DEF SendInv, Inv, TypeOK, LoopInv, WholePackets, Units
<1>4. PICK n \in Nat : n = Len(buf)
  BY <1>3
<1>5. tsSize \div TS_PACKET_SIZE = n
  BY <1>3, <1>4 DEF TS_PACKET_SIZE
<1>6. SubSeq(buf, 1, tsSize \div TS_PACKET_SIZE) = buf
  BY <1>3, <1>4, <1>5, SubSeqFull
<1>7. PICK b \in Seq(Packets) : b = Before
  BY EmptySeq DEF Before, Packaged
<1>8. PICK m \in 0 .. n :
        /\ FoldLeft(AddData, b, buf) = b \o SubSeq(buf, 1, m)
        /\ m < n => ~Room(b \o SubSeq(buf, 1, m))
        /\ m > 0 => Room(b) /\ Under(b \o SubSeq(buf, 1, m))
  BY <1>3, <1>4, Fill
<1>9. /\ gops' = IF NewGop /\ gop # <<>> THEN Append(gops, gop) ELSE gops
      /\ gop' = b \o SubSeq(buf, 1, m)
      /\ dropped' = IF Len(b \o SubSeq(buf, 1, m)) < Len(b) + n
                    THEN dropped \union {unit.n} ELSE dropped
  BY <1>1, <1>4, <1>6, <1>7, <1>8 DEF Before
<1>10. ASSUME NEW l \in 0 .. n
       PROVE  /\ SubSeq(buf, 1, l) \in Seq(Packets) /\ Len(SubSeq(buf, 1, l)) = l
              /\ \A i \in 1 .. l : SubSeq(buf, 1, l)[i] = buf[i]
  <2>1. \A i \in 1 .. l : buf[i] \in Packets
    BY <1>3, <1>4, ElementOfSeq
  <2>2. /\ SubSeq(buf, 1, l) \in Seq(Packets)
        /\ Len(SubSeq(buf, 1, l)) = IF 1 <= l THEN l - 1 + 1 ELSE 0
        /\ \A i \in 1 .. l - 1 + 1 : SubSeq(buf, 1, l)[i] = buf[1 + i - 1]
    BY <2>1, SubSeqProperties
  <2>3. l - 1 + 1 = l /\ (~(1 <= l) => l = 0) /\ \A i \in 1 .. l : 1 + i - 1 = i
    OBVIOUS
  <2> QED BY <2>2, <2>3
<1>11. Len(b \o SubSeq(buf, 1, m)) = Len(b) + m /\ Len(b) \in Nat
  BY <1>10, ConcatProperties
<1>12. Len(b \o SubSeq(buf, 1, m)) < Len(b) + n <=> m < n
  BY <1>11
<1>13. Written(m)
  BY <1>2, <1>4, <1>7, <1>8, <1>9, <1>12 DEF Written
<1> QED BY <1>3, <1>4, <1>7, <1>10, <1>13

LEMMA PackagedInit == StreamInit => Packaged
BY EmptySeq DEF StreamInit, Packaged

LEMMA PackagedStep == SendInv /\ Packaged /\ [StreamNext]_allVars => Packaged'
<1> SUFFICES ASSUME SendInv, Packaged, [StreamNext]_allVars PROVE Packaged'
  OBVIOUS
<1>1. CASE WriteFrameData
  <2>1. PICK m \in 0 .. Len(buf) : Written(m)
    BY <1>1, WriteIs
  <2>2. gop' \in Seq(Packets)
    BY <1>1, <2>1, WriteIs, ConcatProperties DEF Written
  <2>3. gops' \in Seq(Seq(Packets))
    BY <2>1, AppendProperties DEF Written, Packaged
  <2>4. dropped' \subseteq Nat
    BY <1>1, <2>1, WriteIs DEF Written, Packaged
  <2> QED BY <2>2, <2>3, <2>4 DEF Packaged
<1>2. CASE UNCHANGED sender
  BY <1>2 DEF sender, Packaged
<1>3. CASE Encode
  BY <1>3 DEF Encode, Packaged
<1>4. CASE Packet \/ BeyondBuffer \/ Open \/ DeliverFrame \/ ProcessVideo \/ ProcessAudio
           \/ SkipPacket \/ Rewind
  BY <1>2, <1>4
     DEF Packet, BeyondBuffer, Open, DeliverFrame, ProcessVideo, ProcessAudio, SkipPacket, Rewind
<1>5. CASE UNCHANGED allVars
  BY <1>2, <1>5 DEF allVars
<1> QED BY <1>1, <1>3, <1>4, <1>5 DEF StreamNext

(* A segment that starts with the tables and a frame with an SPS.          *)
Starts(g, u) ==
  \E f \in 1 .. Len(g) :
    /\ g[f].pid = "video" /\ g[f].start
    /\ g[f].unit \in DOMAIN u /\ u[g[f].unit].sps
    /\ \A j \in 1 .. f - 1 : g[j].pid # "video"
    /\ \E a, b \in 1 .. f - 1 : g[a].pid = "pat" /\ g[b].pid = "pmt"

NoVideo(g) == \A i \in 1 .. Len(g) : g[i].pid # "video"

(* A GOP that has no video yet is full: it will not get any.               *)
Playable ==
  AllVideo =>
    /\ \A g \in 2 .. Len(gops) : NoVideo(gops[g]) \/ Starts(gops[g], units)
    /\ gops # <<>> => Starts(gop, units) \/ (NoVideo(gop) /\ ~Room(gop))

LEMMA PlayableInit == StreamInit => Playable
BY DEF StreamInit, Playable

LEMMA StartsConcat ==
  ASSUME NEW g \in Seq(Packets), NEW w \in Seq(Packets), NEW u, Starts(g, u)
  PROVE  Starts(g \o w, u)
<1>1. PICK f \in 1 .. Len(g) :
    /\ g[f].pid = "video" /\ g[f].start
    /\ g[f].unit \in DOMAIN u /\ u[g[f].unit].sps
    /\ \A j \in 1 .. f - 1 : g[j].pid # "video"
    /\ \E a, b \in 1 .. f - 1 : g[a].pid = "pat" /\ g[b].pid = "pmt"
  BY DEF Starts
<1>2. Len(g) \in Nat /\ Len(w) \in Nat /\ Len(g \o w) = Len(g) + Len(w)
  BY ConcatProperties
<1>3. \A i \in 1 .. Len(g) : (g \o w)[i] = g[i]
  BY <1>2, ConcatProperties
<1>4. f \in 1 .. Len(g \o w) /\ \A j \in 1 .. f - 1 : j \in 1 .. Len(g)
  BY <1>2
<1> HIDE DEF Starts
<1>5. PICK e : e = g \o w
  OBVIOUS
<1>6. /\ f \in 1 .. Len(e) /\ e[f] = g[f]
      /\ \A j \in 1 .. f - 1 : e[j] = g[j]
  BY <1>3, <1>4, <1>5
<1>7. PICK a \in 1 .. f - 1, b \in 1 .. f - 1 : g[a].pid = "pat" /\ g[b].pid = "pmt"
  BY <1>1
<1>8. e[a].pid = "pat" /\ e[b].pid = "pmt" /\ \A j \in 1 .. f - 1 : e[j].pid # "video"
  <2>1. e[a] = g[a] /\ e[b] = g[b]
    BY <1>6
  <2>2. ASSUME NEW j \in 1 .. f - 1 PROVE e[j].pid # "video"
    BY <1>1, <1>6
  <2> QED BY <1>7, <2>1, <2>2
<1>9. Starts(e, u)
  <2>1. e[f].pid = "video" /\ e[f].start /\ e[f].unit \in DOMAIN u /\ u[e[f].unit].sps
    BY <1>1, <1>6
  <2> QED BY <1>6, <1>8, <2>1 DEF Starts
<1> QED BY <1>5, <1>9

LEMMA StartsMore ==
  ASSUME NEW u, NEW v, \A x \in DOMAIN u : x \in DOMAIN v /\ v[x] = u[x],
         NEW g, Starts(g, u)
  PROVE  Starts(g, v)
<1>1. PICK f \in 1 .. Len(g) :
    /\ g[f].pid = "video" /\ g[f].start
    /\ g[f].unit \in DOMAIN u /\ u[g[f].unit].sps
    /\ \A j \in 1 .. f - 1 : g[j].pid # "video"
    /\ \E a, b \in 1 .. f - 1 : g[a].pid = "pat" /\ g[b].pid = "pmt"
  BY DEF Starts
<1>2. g[f].unit \in DOMAIN v /\ v[g[f].unit].sps
  BY <1>1
<1> QED BY <1>1, <1>2 DEF Starts

(* What is written of a unit with an SPS starts a segment, or is not even  *)
(* its system packets and fills it.                                        *)
LEMMA WrittenStarts ==
  ASSUME SendInv, pc = "packets", AllVideo, unit.sps, src = unit.size,
         NEW m \in 0 .. Len(buf), NEW w \in Seq(Packets), Len(w) = m,
         \A i \in 1 .. m : w[i] = buf[i]
  PROVE  Starts(w, units) \/ (NoVideo(w) /\ m < Len(buf))
<1>1. PICK h \in 0 .. Len(buf) : Chain(buf, unit, src, h)
  BY DEF SendInv, Buffered
<1>2. /\ buf \in Seq(Packets) /\ Len(buf) \in Nat /\ DOMAIN buf = 1 .. Len(buf)
      /\ unit.n \in Nat /\ unit.n > 0 /\ units[unit.n] = unit /\ unit.size > 0
      /\ DOMAIN units = 1 .. unit.n
  BY DEF SendInv, Sent, Inv, TypeOK, Units
<1>3. unit.kind = "video"
  BY <1>2 DEF AllVideo
<1>4. h < Len(buf)
  <2>1. src = IF h = Len(buf) THEN 0 ELSE buf[Len(buf)].from + DataLen(buf[Len(buf)])
    BY <1>1 DEF Chain
  <2>2. src # 0
    BY <1>2
  <2>3. h # Len(buf)
    BY <2>1, <2>2
  <2>4. Len(buf) \in Nat
    BY <1>2
  <2> QED BY <2>3, <2>4
<1>5. CASE m <= h
  <2>1. \A i \in 1 .. m : w[i].pid # "video"
    BY <1>1, <1>5 DEF Chain, Media, Kinds
  <2> QED BY <1>4, <1>5, <2>1 DEF NoVideo
<1>6. CASE m > h
  <2>1. PICK f \in 1 .. m : f = h + 1
    BY <1>6
  <2>2. f \in h + 1 .. Len(buf)
    BY <2>1
  <2>3. buf[f].pid = "video" /\ buf[f].start /\ buf[f].unit = unit.n
    BY <1>1, <1>3, <2>1, <2>2 DEF Chain
  <2>4. \A j \in 1 .. f - 1 : j \in 1 .. h /\ w[j] = buf[j] /\ buf[j].pid # "video"
    BY <1>1, <2>1 DEF Chain, Media, Kinds
  <2>5. PICK a \in 1 .. Len(buf), b \in 1 .. Len(buf) : buf[a].pid = "pat" /\ buf[b].pid = "pmt"
    BY <1>2 DEF SendInv, Tabled
  <2>6. \A i \in 1 .. Len(buf) : i <= h \/ buf[i].pid = "video"
    BY <1>1, <1>3 DEF Chain
  <2>7. a \in 1 .. f - 1 /\ b \in 1 .. f - 1
    BY <2>1, <2>5, <2>6
  <2>8. w[a].pid = "pat" /\ w[b].pid = "pmt"
    BY <2>4, <2>5, <2>7
  <2>9. w[f] = buf[f] /\ f \in 1 .. Len(w)
    OBVIOUS
  <2>10. w[f].unit \in DOMAIN units /\ units[w[f].unit].sps
    BY <1>2, <2>3, <2>9
  <2> QED BY <2>3, <2>4, <2>7, <2>8, <2>9, <2>10 DEF Starts
<1> QED BY <1>2, <1>5, <1>6

LEMMA WritePlayable ==
  ASSUME SendInv, Packaged, Playable, WriteFrameData
  PROVE  Playable'
<1>1. PICK m \in 0 .. Len(buf) : Written(m)
  BY WriteIs
<1>2. PICK w \in Seq(Packets) : w = SubSeq(buf, 1, m) /\ Len(w) = m /\ \A i \in 1 .. m : w[i] = buf[i]
  BY WriteIs
<1>3. /\ pc = "packets" /\ units' = units /\ gop' = Before \o w
      /\ m < Len(buf) => ~Room(gop')
      /\ m > 0 => Room(Before) /\ Under(gop')
      /\ gops' = IF NewGop /\ gop # <<>> THEN Append(gops, gop) ELSE gops
      /\ src = unit.size /\ Len(buf) \in Nat
      /\ gops \in Seq(Seq(Packets)) /\ gop \in Seq(Packets)
  BY <1>1, <1>2, WriteIs DEF Written, Packaged
<1> SUFFICES ASSUME AllVideo'
             PROVE  /\ \A g \in 2 .. Len(gops') : NoVideo(gops'[g]) \/ Starts(gops'[g], units)
                    /\ gops' # <<>> => Starts(gop', units) \/ (NoVideo(gop') /\ ~Room(gop'))
  BY <1>3 DEF Playable
<1>4. /\ AllVideo
      /\ \A g \in 2 .. Len(gops) : NoVideo(gops[g]) \/ Starts(gops[g], units)
      /\ gops # <<>> => Starts(gop, units) \/ (NoVideo(gop) /\ ~Room(gop))
  BY <1>3 DEF AllVideo, Playable
<1>5. CASE NewGop
  <2>1. gop' = w
    BY <1>3, <1>5, ConcatEmptySeq DEF Before
  <2>2. Starts(gop', units) \/ (NoVideo(gop') /\ ~Room(gop'))
    BY <1>2, <1>3, <1>4, <1>5, <2>1, WrittenStarts DEF NewGop
  <2>3. CASE gop = <<>>
    BY <1>3, <1>4, <2>2, <2>3
  <2>4. CASE gop # <<>>
    <3>1. PICK n \in Nat : n = Len(gops)
      BY <1>3
    <3>2. Len(gops') = n + 1 /\ gops'[n + 1] = gop /\ \A i \in 1 .. n : gops'[i] = gops[i]
      BY <1>3, <1>5, <2>4, <3>1, AppendProperties
    <3>3. ASSUME NEW g \in 2 .. n + 1 PROVE NoVideo(gops'[g]) \/ Starts(gops'[g], units)
      <4>1. CASE g = n + 1
        <5>1. gops # <<>>
          BY <3>1, <4>1
        <5> QED BY <1>4, <3>2, <4>1, <5>1
      <4>2. CASE g # n + 1
        <5>1. g \in 1 .. n /\ g \in 2 .. n
          BY <4>2
        <5> QED BY <1>4, <3>1, <3>2, <5>1
      <4> QED BY <4>1, <4>2
    <3> QED BY <2>2, <3>2, <3>3
  <2> QED BY <2>3, <2>4
<1>6. CASE ~NewGop
  <2>1. Before = gop /\ gops' = gops
    BY <1>3, <1>6 DEF Before
  <2>2. ASSUME gops # <<>> PROVE Starts(gop', units) \/ (NoVideo(gop') /\ ~Room(gop'))
    <3>1. CASE Starts(gop, units)
      BY <1>3, <2>1, <3>1, StartsConcat
    <3>2. CASE NoVideo(gop) /\ ~Room(gop)
      <4>1. m = 0
        BY <1>3, <2>1, <3>2
      <4>2. w = <<>>
        BY <1>2, <4>1, EmptySeq
      <4>3. gop' = gop
        BY <1>3, <2>1, <4>2, ConcatEmptySeq
      <4> QED BY <3>2, <4>3
    <3> QED BY <1>4, <2>2, <3>1, <3>2
  <2> QED BY <1>4, <2>1, <2>2
<1> QED BY <1>5, <1>6

LEMMA PlayableStep == SendInv /\ Packaged /\ Playable /\ [StreamNext]_allVars => Playable'
<1> SUFFICES ASSUME SendInv, Packaged, Playable, [StreamNext]_allVars PROVE Playable'
  OBVIOUS
<1>1. CASE WriteFrameData
  BY <1>1, WritePlayable
<1>2. CASE UNCHANGED sender
  BY <1>2 DEF sender, Playable, AllVideo
<1>3. CASE Encode
  <2>1. UNCHANGED <<gop, gops>> /\ units' = Append(units, unit') /\ unit' \in Units
    BY <1>3, EncodeIs DEF Encode
  <2>2. PICK n \in Nat : n = Len(units) /\ units \in Seq(Units)
    BY DEF SendInv, Sent
  <2>3. /\ DOMAIN units = 1 .. n /\ DOMAIN units' = 1 .. n + 1
        /\ \A i \in 1 .. n : units'[i] = units[i]
    BY <2>1, <2>2, AppendProperties
  <2>4. \A g : Starts(g, units) => Starts(g, units')
    <3>1. \A x \in DOMAIN units : x \in DOMAIN units' /\ units'[x] = units[x]
      BY <2>3
    <3> QED BY <3>1, StartsMore
  <2>5. AllVideo' => AllVideo
    BY <2>3 DEF AllVideo
  <2> QED BY <2>1, <2>4, <2>5 DEF Playable
<1>4. CASE Packet \/ BeyondBuffer \/ Open \/ DeliverFrame \/ ProcessVideo \/ ProcessAudio
           \/ SkipPacket \/ Rewind
  BY <1>2, <1>4
     DEF Packet, BeyondBuffer, Open, DeliverFrame, ProcessVideo, ProcessAudio, SkipPacket, Rewind
<1>5. CASE UNCHANGED allVars
  BY <1>2, <1>5 DEF allVars
<1> QED BY <1>1, <1>3, <1>4, <1>5 DEF StreamNext

LEMMA PlayableIs == Packaged /\ Playable => SelfContained
<1> SUFFICES ASSUME Packaged, Playable, \A i \in DOMAIN units : units[i].kind = "video",
                    NEW g \in DOMAIN gops, g > 1
             PROVE  LET media == {i \in DOMAIN gops[g] : gops[g][i].pid = "video"}
                        first == CHOOSE i \in media : \A j \in media : i <= j
                    IN  media # {} =>
                          /\ HasTables(SubSeq(gops[g], 1, first - 1))
                          /\ gops[g][first].start /\ units[gops[g][first].unit].sps
  BY Zenon DEF SelfContained
<1>1. PICK s \in Seq(Packets) : s = gops[g]
  BY DEF Packaged
<1>2. NoVideo(s) \/ Starts(s, units)
  <2>1. Len(gops) \in Nat /\ DOMAIN gops = 1 .. Len(gops)
    BY DEF Packaged
  <2>2. g \in 2 .. Len(gops)
    BY <2>1
  <2> QED BY <1>1, <2>2 DEF Playable, AllVideo
<1> DEFINE media == {i \in DOMAIN s : s[i].pid = "video"}
           first == CHOOSE i \in media : \A j \in media : i <= j
<1>3. DOMAIN s = 1 .. Len(s) /\ Len(s) \in Nat
  OBVIOUS
<1>4. ASSUME media # {}
      PROVE  HasTables(SubSeq(s, 1, first - 1)) /\ s[first].start /\ units[s[first].unit].sps
  <2>1. ~NoVideo(s)
    BY <1>3, <1>4 DEF NoVideo
  <2>2. PICK f \in 1 .. Len(s) :
          /\ s[f].pid = "video" /\ s[f].start
          /\ s[f].unit \in DOMAIN units /\ units[s[f].unit].sps
          /\ \A j \in 1 .. f - 1 : s[j].pid # "video"
          /\ \E a, b \in 1 .. f - 1 : s[a].pid = "pat" /\ s[b].pid = "pmt"
    BY <1>2, <2>1 DEF Starts
  <2>3. f \in media /\ \A j \in media : f <= j
    BY <1>3, <2>2
  <2>4. first \in media /\ \A j \in media : first <= j
    <3> HIDE DEF media
    <3> QED BY <2>3
  <2>5. first = f
    <3>1. \A i \in media : i \in Int
      BY <1>3
    <3> HIDE DEF media, first
    <3> QED BY <2>3, <2>4, <3>1
  <2>6. PICK a \in 1 .. f - 1, b \in 1 .. f - 1 : s[a].pid = "pat" /\ s[b].pid = "pmt"
    BY <2>2
  <2>7. PICK t : t = SubSeq(s, 1, f - 1)
    OBVIOUS
  <2>8. DOMAIN t = 1 .. f - 1 /\ t[a] = s[a] /\ t[b] = s[b]
    <3>1. \A i \in 1 .. f - 1 : s[i] \in Packets
      BY <1>3
    <3>2. /\ t \in Seq(Packets)
          /\ Len(t) = IF 1 <= f - 1 THEN f - 1 - 1 + 1 ELSE 0
          /\ \A i \in 1 .. f - 1 - 1 + 1 : t[i] = s[1 + i - 1]
      BY <2>7, <3>1, SubSeqProperties
    <3>3. 1 <= f - 1 /\ f - 1 - 1 + 1 = f - 1 /\ \A i \in 1 .. f - 1 : 1 + i - 1 = i
      BY <2>6
    <3> QED BY <3>2, <3>3
  <2>9. HasTables(t)
    BY <2>6, <2>8 DEF HasTables
  <2> HIDE DEF first
  <2> QED BY <2>2, <2>5, <2>7, <2>9
<1> QED BY <1>1, <1>4

(* Whatever is dropped, and whatever the size of the units and the GOPs: a *)
(* segment of video only can be played on its own.                         *)
THEOREM SegmentsPlayable == StreamSpec => []SelfContained
<1>1. StreamInit => Packaged /\ Playable
  BY PackagedInit, PlayableInit
<1>2. SendInv /\ Packaged /\ Playable /\ [StreamNext]_allVars => (Packaged /\ Playable)'
  BY PackagedStep, PlayableStep
<1>3. Packaged /\ Playable => SelfContained
  BY PlayableIs
<1> QED BY <1>1, <1>2, <1>3, SendHolds, PTL DEF StreamSpec

-----------------------------------------------------------------------------
(***************************************************************************)
(* What a published stream is like.  The packets of a unit stand together; *)
(* units come in their order, each from its first byte on, and is there to *)
(* the last one unless it lost packets; none is missing in between.        *)
(***************************************************************************)
Follows(p) == Media(p) /\ ~p.start

Sound(p, u) ==
  /\ p.unit \in 1 .. Len(u)
  /\ p.pid = u[p.unit].kind /\ p.pts = u[p.unit].pts
  /\ DataLen(p) \in 1 .. u[p.unit].size
  /\ p.from + DataLen(p) <= u[p.unit].size
  /\ p.start => p.from = 0

GoesOn(q, p) == q.pid = p.pid /\ q.unit = p.unit /\ p.from = q.from + DataLen(q)

Ends(p, u, d) == p.from + DataLen(p) = u[p.unit].size \/ p.unit \in d

Pack(s, u, d) ==
  \A i \in 1 .. Len(s) : Media(s[i]) =>
    /\ Sound(s[i], u)
    /\ ~s[i].start => i > 1 /\ GoesOn(s[i - 1], s[i])
    /\ i = Len(s) \/ ~Follows(s[i + 1]) => Ends(s[i], u, d)

Order(s) ==
  \A i, j \in 1 .. Len(s) : i < j /\ Media(s[i]) /\ Media(s[j]) =>
    s[i].unit <= s[j].unit /\ (s[j].start => s[i].unit < s[j].unit)

Has(s, n) == \E i \in 1 .. Len(s) : Media(s[i]) /\ s[i].start /\ s[i].unit = n

Complete(s, d, last) ==
  \A i \in 1 .. Len(s) : Media(s[i]) =>
    s[i].unit <= last /\ \A n \in s[i].unit .. last : n \notin d => Has(s, n)

Between(s, d) ==
  \A i, j \in 1 .. Len(s) : Media(s[i]) /\ Media(s[j]) =>
    \A n \in s[i].unit .. s[j].unit : n \notin d => Has(s, n)

Good(s, u, d, last) == Pack(s, u, d) /\ Order(s) /\ Complete(s, d, last)
Readable(s, u, d) == Pack(s, u, d) /\ Order(s) /\ Between(s, d)

LEMMA GoodEmpty == ASSUME NEW u, NEW d, NEW last PROVE Good(<<>>, u, d, last)
<1>1. \A i \in 1 .. Len(<<>>) : FALSE
  OBVIOUS
<1> QED BY <1>1 DEF Good, Pack, Order, Complete

LEMMA Joined ==
  ASSUME NEW s \in Seq(Packets), NEW w \in Seq(Packets)
  PROVE  /\ s \o w \in Seq(Packets)
         /\ Len(s) \in Nat /\ Len(w) \in Nat /\ Len(s \o w) = Len(s) + Len(w)
         /\ \A i \in 1 .. Len(s) : (s \o w)[i] = s[i]
         /\ \A i \in 1 .. Len(w) : (s \o w)[Len(s) + i] = w[i]
<1>1. /\ s \o w \in Seq(Packets) /\ Len(s) \in Nat /\ Len(w) \in Nat
      /\ Len(s \o w) = Len(s) + Len(w)
      /\ \A i \in 1 .. Len(s) + Len(w) :
           (s \o w)[i] = IF i <= Len(s) THEN s[i] ELSE w[i - Len(s)]
  BY ConcatProperties
<1>2. \A n, l \in Nat : /\ \A i \in 1 .. n : i \in 1 .. n + l /\ i <= n
                        /\ \A i \in 1 .. l : n + i \in 1 .. n + l /\ ~(n + i <= n) /\ (n + i) - n = i
  OBVIOUS
<1> QED BY <1>1, <1>2

LEMMA JoinedAt ==
  ASSUME NEW s \in Seq(Packets), NEW w \in Seq(Packets), NEW i \in 1 .. Len(s \o w)
  PROVE  \/ i \in 1 .. Len(s) /\ (s \o w)[i] = s[i]
         \/ \E j \in 1 .. Len(w) : i = Len(s) + j /\ (s \o w)[i] = w[j]
<1>1. Len(s) \in Nat /\ Len(w) \in Nat /\ Len(s \o w) = Len(s) + Len(w)
  BY Joined
<1>2. CASE i <= Len(s)
  BY <1>1, <1>2, Joined
<1>3. CASE ~(i <= Len(s))
  <2>1. PICK j \in 1 .. Len(w) : i = Len(s) + j
    <3>1. i - Len(s) \in 1 .. Len(w) /\ i = Len(s) + (i - Len(s))
      BY <1>1, <1>3
    <3> QED BY <3>1
  <2> QED BY <2>1, Joined
<1> QED BY <1>2, <1>3

LEMMA EndsMore ==
  ASSUME NEW p, NEW u, NEW d, NEW e, d \subseteq e, Ends(p, u, d)
  PROVE  Ends(p, u, e)
BY DEF Ends

LEMMA PackJoined ==
  ASSUME NEW s \in Seq(Packets), NEW w \in Seq(Packets), NEW u, NEW d, NEW e,
         d \subseteq e, Pack(s, u, d), Pack(w, u, e)
  PROVE  Pack(s \o w, u, e)
<1>1. PICK t : t = s \o w
  OBVIOUS
<1>2. PICK n \in Nat, l \in Nat : n = Len(s) /\ l = Len(w)
  BY Joined
<1>3. /\ Len(t) = n + l
      /\ \A i \in 1 .. n : t[i] = s[i]
      /\ \A i \in 1 .. l : t[n + i] = w[i]
  BY <1>1, <1>2, Joined
<1>4. ASSUME NEW i \in 1 .. n, Media(t[i])
      PROVE  /\ Sound(t[i], u)
             /\ ~t[i].start => i > 1 /\ GoesOn(t[i - 1], t[i])
             /\ i = Len(t) \/ ~Follows(t[i + 1]) => Ends(t[i], u, e)
  <2>1. t[i] = s[i]
    BY <1>3
  <2>2. /\ Sound(s[i], u)
        /\ ~s[i].start => i > 1 /\ GoesOn(s[i - 1], s[i])
        /\ i = n \/ ~Follows(s[i + 1]) => Ends(s[i], u, d)
    BY <1>2, <1>4, <2>1 DEF Pack
  <2>3. i > 1 => t[i - 1] = s[i - 1]
    <3>1. i > 1 => i - 1 \in 1 .. n
      OBVIOUS
    <3> QED BY <1>3, <3>1
  <2>4. i # n => t[i + 1] = s[i + 1]
    <3>1. i # n => i + 1 \in 1 .. n
      OBVIOUS
    <3> QED BY <1>3, <3>1
  <2>5. i = Len(t) => i = n
    BY <1>3
  <2>6. i = Len(t) \/ ~Follows(t[i + 1]) => Ends(s[i], u, d)
    BY <2>2, <2>4, <2>5
  <2>7. i = Len(t) \/ ~Follows(t[i + 1]) => Ends(s[i], u, e)
    BY <2>6, EndsMore
  <2> QED BY <2>1, <2>2, <2>3, <2>7
<1>5. ASSUME NEW j \in 1 .. l, NEW i, i = n + j, Media(t[i])
      PROVE  /\ Sound(t[i], u)
             /\ ~t[i].start => i > 1 /\ GoesOn(t[i - 1], t[i])
             /\ i = Len(t) \/ ~Follows(t[i + 1]) => Ends(t[i], u, e)
  <2>1. t[i] = w[j]
    BY <1>3, <1>5
  <2>2. /\ Sound(w[j], u)
        /\ ~w[j].start => j > 1 /\ GoesOn(w[j - 1], w[j])
        /\ j = l \/ ~Follows(w[j + 1]) => Ends(w[j], u, e)
    BY <1>2, <1>5, <2>1 DEF Pack
  <2>3. j > 1 => i > 1 /\ t[i - 1] = w[j - 1]
    <3>1. j > 1 => i > 1 /\ j - 1 \in 1 .. l /\ i - 1 = n + (j - 1)
      BY <1>5
    <3> QED BY <1>3, <3>1
  <2>4. j # l => t[i + 1] = w[j + 1]
    <3>1. j # l => j + 1 \in 1 .. l /\ i + 1 = n + (j + 1)
      BY <1>5
    <3> QED BY <1>3, <3>1
  <2>5. i = Len(t) => j = l
    BY <1>3, <1>5
  <2> QED BY <2>1, <2>2, <2>3, <2>4, <2>5
<1>6. \A i \in 1 .. n + l : i \in 1 .. n \/ \E j \in 1 .. l : i = n + j
  <2> TAKE i \in 1 .. n + l
  <2>1. CASE i <= n
    BY <2>1
  <2>2. CASE ~(i <= n)
    <3>1. i - n \in 1 .. l /\ i = n + (i - n)
      BY <2>2
    <3> QED BY <3>1
  <2> QED BY <2>1, <2>2
<1>7. Pack(t, u, e)
  BY <1>3, <1>4, <1>5, <1>6 DEF Pack
<1> QED BY <1>1, <1>7

LEMMA HasJoined ==
  ASSUME NEW s \in Seq(Packets), NEW w \in Seq(Packets), NEW n, Has(s, n) \/ Has(w, n)
  PROVE  Has(s \o w, n)
<1>1. PICK t : t = s \o w
  OBVIOUS
<1>2. /\ Len(s) \in Nat /\ Len(w) \in Nat /\ Len(t) = Len(s) + Len(w)
      /\ \A i \in 1 .. Len(s) : t[i] = s[i]
      /\ \A i \in 1 .. Len(w) : t[Len(s) + i] = w[i]
  BY <1>1, Joined
<1>3. CASE Has(s, n)
  <2>1. PICK i \in 1 .. Len(s) : Media(s[i]) /\ s[i].start /\ s[i].unit = n
    BY <1>3 DEF Has
  <2>2. i \in 1 .. Len(t) /\ t[i] = s[i]
    BY <1>2
  <2>3. Has(t, n)
    BY <2>1, <2>2 DEF Has
  <2> QED BY <1>1, <2>3
<1>4. CASE Has(w, n)
  <2>1. PICK i \in 1 .. Len(w) : Media(w[i]) /\ w[i].start /\ w[i].unit = n
    BY <1>4 DEF Has
  <2>2. PICK j : j = Len(s) + i
    OBVIOUS
  <2>3. j \in 1 .. Len(t) /\ t[j] = w[i]
    BY <1>2, <2>2
  <2>4. Has(t, n)
    BY <2>1, <2>3 DEF Has
  <2> QED BY <1>1, <2>4
<1> QED BY <1>3, <1>4

(* The packets of the next unit.                                           *)
NextUnit(w, u, e, n) ==
  /\ Pack(w, u, e) /\ Order(w)
  /\ \A i \in 1 .. Len(w) : Media(w[i]) => w[i].unit = n
  /\ n \notin e => Has(w, n)

LEMMA GoodJoined ==
  ASSUME NEW s \in Seq(Packets), NEW w \in Seq(Packets), NEW u, NEW d, NEW e, NEW n \in Nat,
         d \subseteq e, Good(s, u, d, n - 1), NextUnit(w, u, e, n)
  PROVE  Good(s \o w, u, e, n)
<1>1. PICK t : t = s \o w
  OBVIOUS
<1>2. PICK m \in Nat, l \in Nat : m = Len(s) /\ l = Len(w)
  BY Joined
<1>3. /\ Len(t) = m + l
      /\ \A i \in 1 .. m + l : \/ i \in 1 .. m /\ t[i] = s[i]
                               \/ \E j \in 1 .. l : i = m + j /\ t[i] = w[j]
  BY <1>1, <1>2, Joined, JoinedAt
<1>4. Pack(t, u, e)
  BY <1>1, PackJoined DEF Good, NextUnit
<1>5. \A i \in 1 .. m : Media(s[i]) =>
        /\ s[i].unit <= n - 1 /\ s[i].unit \in Int
        /\ \A x \in s[i].unit .. n - 1 : x \notin e => Has(s, x)
  <2> SUFFICES ASSUME NEW i \in 1 .. m, Media(s[i])
               PROVE  /\ s[i].unit <= n - 1 /\ s[i].unit \in Int
                      /\ \A x \in s[i].unit .. n - 1 : x \notin e => Has(s, x)
    OBVIOUS
  <2>1. s[i].unit <= n - 1 /\ \A x \in s[i].unit .. n - 1 : x \notin d => Has(s, x)
    BY <1>2 DEF Good, Complete
  <2>2. s[i] \in Packets
    BY <1>2, ElementOfSeq
  <2>3. s[i].unit \in Int
    BY <2>2 DEF Packets
  <2> QED BY <2>1, <2>3
<1>6. \A i \in 1 .. l : Media(w[i]) => w[i].unit = n
  BY <1>2 DEF NextUnit
<1>7. Order(t)
  <2> SUFFICES ASSUME NEW i \in 1 .. m + l, NEW j \in 1 .. m + l,
                      i < j, Media(t[i]), Media(t[j])
               PROVE  t[i].unit <= t[j].unit /\ (t[j].start => t[i].unit < t[j].unit)
    BY <1>3 DEF Order
  <2>1. CASE i \in 1 .. m /\ t[i] = s[i] /\ j \in 1 .. m /\ t[j] = s[j]
    BY <1>2, <2>1 DEF Good, Order
  <2>2. CASE i \in 1 .. m /\ t[i] = s[i] /\ \E k \in 1 .. l : j = m + k /\ t[j] = w[k]
    <3>1. t[i].unit <= n - 1 /\ t[i].unit \in Int /\ t[j].unit = n
      BY <1>5, <1>6, <2>2
    <3> QED BY <3>1
  <2>3. CASE \E k \in 1 .. l : i = m + k /\ t[i] = w[k]
    <3>1. PICK k \in 1 .. l : i = m + k /\ t[i] = w[k]
      BY <2>3
    <3>2. PICK h \in 1 .. l : j = m + h /\ t[j] = w[h]
      <4>1. ~(j \in 1 .. m)
        BY <3>1
      <4> QED BY <1>3, <4>1
    <3>3. k < h
      BY <3>1, <3>2
    <3> QED BY <1>2, <3>1, <3>2, <3>3 DEF NextUnit, Order
  <2> QED BY <1>3, <2>1, <2>2, <2>3
<1>8. Complete(t, e, n)
  <2>1. n \notin e => Has(t, n)
    BY <1>1, HasJoined DEF NextUnit
  <2> SUFFICES ASSUME NEW i \in 1 .. m + l, Media(t[i])
               PROVE  t[i].unit <= n /\ \A x \in t[i].unit .. n : x \notin e => Has(t, x)
    BY <1>3 DEF Complete
  <2>2. CASE i \in 1 .. m /\ t[i] = s[i]
    <3>1. /\ t[i].unit <= n - 1 /\ t[i].unit \in Int
          /\ \A x \in t[i].unit .. n - 1 : x \notin e => Has(s, x)
      BY <1>5, <2>2
    <3>2. \A x \in t[i].unit .. n - 1 : x \notin e => Has(t, x)
      BY <1>1, <3>1, HasJoined
    <3>3. \A x \in t[i].unit .. n : x = n \/ x \in t[i].unit .. n - 1
      BY <3>1
    <3>4. t[i].unit <= n
      BY <3>1
    <3> QED BY <2>1, <3>2, <3>3, <3>4
  <2>3. CASE \E j \in 1 .. l : i = m + j /\ t[i] = w[j]
    <3>1. t[i].unit = n
      BY <1>6, <2>3
    <3>2. \A x \in n .. n : x = n
      OBVIOUS
    <3> QED BY <2>1, <3>1, <3>2
  <2> QED BY <1>3, <2>2, <2>3
<1> QED BY <1>1, <1>4, <1>7, <1>8 DEF Good

(* What is published from the GOP g on.                                    *)
From(q, g) == FlattenSeq(SubSeq(q, g, Len(q)))

LEMMA FromEmpty == ASSUME NEW q \in Seq(Seq(Packets)) PROVE From(q, Len(q) + 1) = <<>>
<1>1. Len(q) \in Nat
  OBVIOUS
<1>2. SubSeq(q, Len(q) + 1, Len(q)) = <<>>
  BY <1>1, SubSeqEmpty
<1> QED BY <1>2, FlattenEmpty DEF From

LEMMA FromAppend ==
  ASSUME NEW q \in Seq(Seq(Packets)), NEW x \in Seq(Packets), NEW g \in 1 .. Len(q) + 1
  PROVE  From(q, g) \in Seq(Packets) /\ From(Append(q, x), g) = From(q, g) \o x
<1> DEFINE S == Seq(Packets)
<1>0. q \in Seq(S) /\ x \in S
  OBVIOUS
<1> HIDE DEF S
<1>1. PICK n \in Nat : n = Len(q)
  BY <1>0
<1>2. PICK e \in Seq(S) : e = Append(q, x)
  BY <1>0, AppendProperties
<1>3. Len(e) = n + 1 /\ e[n + 1] = x /\ \A i \in 1 .. n : e[i] = q[i]
  BY <1>0, <1>1, <1>2, AppendProperties
<1>4. PICK a : a = SubSeq(q, g, n)
  OBVIOUS
<1>5. PICK b : b = SubSeq(e, g, n)
  OBVIOUS
<1>6. \A i \in g .. n : i \in 1 .. n /\ e[i] = q[i] /\ q[i] \in S
  <2>1. \A i \in g .. n : i \in 1 .. n
    BY <1>1
  <2>2. \A i \in 1 .. n : q[i] \in S
    BY <1>0, <1>1, ElementOfSeq
  <2> QED BY <1>3, <2>1, <2>2
<1>7. g \in Int /\ n \in Int
  BY <1>1
<1>8. /\ a \in Seq(S) /\ Len(a) = IF g <= n THEN n - g + 1 ELSE 0
      /\ \A i \in 1 .. n - g + 1 : a[i] = q[g + i - 1]
  BY <1>4, <1>6, <1>7, SubSeqProperties
<1>9. /\ b \in Seq(S) /\ Len(b) = IF g <= n THEN n - g + 1 ELSE 0
      /\ \A i \in 1 .. n - g + 1 : b[i] = e[g + i - 1]
  <2>1. \A i \in g .. n : e[i] \in S
    BY <1>6
  <2> QED BY <1>5, <1>7, <2>1, SubSeqProperties
<1>10. a = b
  <2>1. \A i \in 1 .. Len(a) : i \in 1 .. n - g + 1 /\ g + i - 1 \in g .. n
    BY <1>1, <1>8
  <2>2. \A i \in 1 .. Len(a) : a[i] = b[i]
    BY <1>6, <1>8, <1>9, <2>1
  <2> QED BY <1>8, <1>9, <2>2, SeqEqual
<1>11. SubSeq(e, g, n + 1) = Append(a, x)
  <2>1. g \in 1 .. Len(e) /\ n + 1 \in g .. Len(e) /\ (n + 1) - 1 = n
    BY <1>1, <1>3
  <2>2. SubSeq(e, g, n + 1) = SubSeq(e, g, (n + 1) - 1) \o <<e[n + 1]>>
    BY <2>1, SubSeqRecursiveSecond
  <2>3. SubSeq(e, g, n + 1) = a \o <<x>>
    BY <1>3, <1>5, <1>10, <2>1, <2>2
  <2> QED BY <1>0, <1>8, <2>3, AppendIsConcat
<1>12. a \in Seq(Seq(Packets))
  BY <1>8 DEF S
<1>13. FlattenSeq(a) \in Seq(Packets) /\ FlattenSeq(Append(a, x)) = FlattenSeq(a) \o x
  BY <1>12, FlattenAppend
<1>14. From(q, g) = FlattenSeq(a)
  BY <1>1, <1>4 DEF From
<1>15. From(e, g) = FlattenSeq(Append(a, x))
  BY <1>3, <1>11 DEF From
<1> QED BY <1>2, <1>13, <1>14, <1>15

(* The units that Mux has returned.                                        *)
Returned == IF pc = "idle" THEN unit.n ELSE unit.n - 1

Streams ==
  /\ \A g \in 1 .. Len(gops) : Readable(From(gops, g), units, dropped)
  /\ \A g \in 1 .. Len(gops) + 1 :
       Good(From(gops, g) \o gop, units, dropped, Returned)

StreamInv == SendInv /\ Packaged /\ Streams

LEMMA StreamsInit == StreamInit => Streams
<1> SUFFICES ASSUME StreamInit PROVE Streams
  OBVIOUS
<1>1. gops = <<>> /\ gop = <<>>
  BY DEF StreamInit
<1>2. Len(gops) = 0 /\ gops \in Seq(Seq(Packets)) /\ gop \in Seq(Packets)
  BY <1>1, EmptySeq
<1>3. From(gops, 1) = <<>>
  <2>1. 0 + 1 = 1
    OBVIOUS
  <2> QED BY <1>2, <2>1, FromEmpty
<1>4. From(gops, 1) \o gop = <<>>
  BY <1>1, <1>2, <1>3, ConcatEmptySeq
<1>5. \A g \in 1 .. 0 + 1 : g = 1
  OBVIOUS
<1>6. \A g \in 1 .. 0 : FALSE
  OBVIOUS
<1> QED BY <1>2, <1>4, <1>5, <1>6, GoodEmpty DEF Streams

LEMMA ReadableMore ==
  ASSUME NEW s, NEW u, NEW d, NEW e, d \subseteq e, Readable(s, u, d)
  PROVE  Readable(s, u, e)
<1>1. Pack(s, u, e)
  BY EndsMore DEF Readable, Pack
<1>2. Between(s, e)
  BY DEF Readable, Between
<1> QED BY <1>1, <1>2 DEF Readable

LEMMA GoodReadable ==
  ASSUME NEW s \in Seq(Packets), NEW u, NEW d, NEW last \in Int, Good(s, u, d, last)
  PROVE  Readable(s, u, d)
<1>1. \A i \in 1 .. Len(s) : s[i].unit \in Nat
  <2>1. \A i \in 1 .. Len(s) : s[i] \in Packets
    BY ElementOfSeq
  <2>2. \A p \in Packets : p.unit \in Nat
    BY DEF Packets
  <2> QED BY <2>1, <2>2
<1>2. ASSUME NEW i \in 1 .. Len(s), NEW j \in 1 .. Len(s), Media(s[i]), Media(s[j]),
             NEW n \in s[i].unit .. s[j].unit, n \notin d
      PROVE  Has(s, n)
  <2>1. /\ s[j].unit <= last
        /\ \A x \in s[i].unit .. last : x \notin d => Has(s, x)
    BY <1>2 DEF Good, Complete
  <2>2. n \in s[i].unit .. last
    BY <1>1, <2>1
  <2> QED BY <1>2, <2>1, <2>2
<1> QED BY <1>2 DEF Good, Readable, Between

(* The packets of the unit in hand that went into a GOP.                   *)
LEMMA WrittenNext ==
  ASSUME SendInv, pc = "packets", src = unit.size,
         NEW m \in 0 .. Len(buf), NEW w \in Seq(Packets), Len(w) = m,
         \A i \in 1 .. m : w[i] = buf[i],
         NEW e, m < Len(buf) => unit.n \in e
  PROVE  NextUnit(w, units, e, unit.n)
<1>1. PICK h \in 0 .. Len(buf) : Chain(buf, unit, src, h)
  BY DEF SendInv, Buffered
<1>2. /\ buf \in Seq(Packets) /\ Len(buf) \in Nat
      /\ unit.n \in Nat /\ unit.n > 0 /\ units[unit.n] = unit /\ unit.size > 0
      /\ Len(units) = unit.n
  BY DEF SendInv, Sent, Inv, TypeOK, Units
<1>3. PICK l \in Nat : l = Len(buf)
  BY <1>2
<1>4. \A i \in 1 .. h : ~Media(buf[i])
  BY <1>1 DEF Chain
<1>5. ASSUME NEW i \in h + 1 .. l
      PROVE  /\ buf[i].pid = unit.kind /\ buf[i].unit = unit.n /\ buf[i].pts = unit.pts
             /\ buf[i].start <=> i = h + 1
             /\ DataLen(buf[i]) \in 1 .. unit.size
             /\ buf[i].from = IF i = h + 1 THEN 0 ELSE buf[i - 1].from + DataLen(buf[i - 1])
             /\ buf[i].from + DataLen(buf[i]) <= unit.size
  BY <1>1, <1>3, <1>5 DEF Chain
<1>6. src = IF h = l THEN 0 ELSE buf[l].from + DataLen(buf[l])
  BY <1>1, <1>3 DEF Chain
<1>7. h < l
  <2>1. h # l
    BY <1>2, <1>6
  <2> QED BY <1>3, <2>1
<1>8. \A i \in 1 .. l : i \in 1 .. h \/ i \in h + 1 .. l
  BY <1>3
<1>9. \A i \in 1 .. m : i \in 1 .. l
  BY <1>3
<1>10. unit.kind \in Kinds
  BY DEF SendInv, Inv, TypeOK, Units
<1>11. ASSUME NEW i \in h + 1 .. l PROVE Media(buf[i]) /\ Sound(buf[i], units)
  <2>1. unit.n \in 1 .. Len(units)
    BY <1>2
  <2>2. Media(buf[i])
    BY <1>5, <1>10, <1>11 DEF Media
  <2>3. buf[i].start => buf[i].from = 0
    BY <1>5, <1>11
  <2> QED BY <1>2, <1>5, <1>11, <2>1, <2>2, <2>3 DEF Sound
<1>12. Pack(w, units, e)
  <2> SUFFICES ASSUME NEW i \in 1 .. m, Media(w[i])
               PROVE  /\ Sound(w[i], units)
                      /\ ~w[i].start => i > 1 /\ GoesOn(w[i - 1], w[i])
                      /\ i = Len(w) \/ ~Follows(w[i + 1]) => Ends(w[i], units, e)
    BY DEF Pack
  <2>1. w[i] = buf[i] /\ i \in h + 1 .. l
    BY <1>4, <1>8, <1>9
  <2>2. ASSUME ~w[i].start PROVE i > 1 /\ GoesOn(w[i - 1], w[i])
    <3>1. i # h + 1
      BY <1>5, <2>1, <2>2
    <3>2. i - 1 \in h + 1 .. l /\ i - 1 \in 1 .. m /\ i > 1
      BY <2>1, <3>1
    <3>3. w[i - 1] = buf[i - 1] /\ buf[i].from = buf[i - 1].from + DataLen(buf[i - 1])
      BY <1>5, <2>1, <3>1, <3>2
    <3>4. buf[i - 1].pid = unit.kind /\ buf[i - 1].unit = unit.n
      BY <1>5, <3>2
    <3> QED BY <1>5, <2>1, <3>2, <3>3, <3>4 DEF GoesOn
  <2>3. ASSUME i = Len(w) \/ ~Follows(w[i + 1]) PROVE Ends(w[i], units, e)
    <3>1. i = m
      <4> SUFFICES ASSUME i # m PROVE FALSE
        OBVIOUS
      <4>1. PICK j : j = i + 1
        OBVIOUS
      <4>2. j \in 1 .. m /\ j \in h + 1 .. l /\ j # h + 1
        BY <1>9, <2>1, <4>1
      <4>3. w[j] = buf[j] /\ Media(buf[j]) /\ ~buf[j].start
        BY <1>5, <1>11, <4>2
      <4> QED BY <2>3, <4>1, <4>3 DEF Follows
    <3>2. CASE m < l
      <4>1. w[i].unit \in e
        BY <1>3, <1>5, <2>1, <3>2
      <4> QED BY <4>1 DEF Ends
    <3>3. CASE ~(m < l)
      <4>1. i = l
        BY <1>3, <3>1, <3>3
      <4>2. w[i].from + DataLen(w[i]) = unit.size /\ w[i].unit = unit.n
        BY <1>5, <1>6, <1>7, <2>1, <4>1
      <4> QED BY <1>2, <4>2 DEF Ends
    <3> QED BY <3>2, <3>3
  <2> QED BY <1>11, <2>1, <2>2, <2>3
<1>13. ASSUME NEW i \in 1 .. m, Media(w[i])
       PROVE  w[i].unit = unit.n /\ i \in h + 1 .. l /\ w[i] = buf[i]
  <2>1. w[i] = buf[i] /\ i \in h + 1 .. l
    BY <1>4, <1>8, <1>9, <1>13
  <2> QED BY <1>5, <2>1
<1>14. Order(w)
  <2> SUFFICES ASSUME NEW i \in 1 .. m, NEW j \in 1 .. m, i < j, Media(w[i]), Media(w[j])
               PROVE  w[i].unit <= w[j].unit /\ (w[j].start => w[i].unit < w[j].unit)
    BY DEF Order
  <2>1. w[i].unit = unit.n /\ w[j].unit = unit.n /\ w[j] = buf[j] /\ j \in h + 1 .. l
        /\ i \in h + 1 .. l
    BY <1>13
  <2>2. j # h + 1
    BY <2>1
  <2>3. ~w[j].start
    BY <1>5, <2>1, <2>2
  <2> QED BY <1>2, <2>1, <2>3
<1>15. ASSUME unit.n \notin e PROVE Has(w, unit.n)
  <2>1. PICK f : f = h + 1
    OBVIOUS
  <2>2. f \in 1 .. m /\ f \in h + 1 .. l
    BY <1>3, <1>7, <1>15, <2>1
  <2>3. w[f] = buf[f] /\ Media(w[f]) /\ w[f].start /\ w[f].unit = unit.n
    BY <1>5, <1>11, <2>1, <2>2
  <2> QED BY <2>2, <2>3 DEF Has
<1> QED BY <1>12, <1>13, <1>14, <1>15 DEF NextUnit

LEMMA StreamsWrite == SendInv /\ Packaged /\ Streams /\ WriteFrameData => Streams'
<1> SUFFICES ASSUME SendInv, Packaged, Streams, WriteFrameData PROVE Streams'
  OBVIOUS
<1>1. PICK m \in 0 .. Len(buf) : Written(m)
  BY WriteIs
<1>2. PICK w \in Seq(Packets) :
        w = SubSeq(buf, 1, m) /\ Len(w) = m /\ \A i \in 1 .. m : w[i] = buf[i]
  BY WriteIs
<1>3. /\ src = unit.size /\ unit.n \in Nat
      /\ gop \in Seq(Packets) /\ gops \in Seq(Seq(Packets))
  BY WriteIs DEF Packaged
<1>4. /\ pc = "packets" /\ pc' = "idle" /\ unit' = unit /\ units' = units
      /\ gop' = Before \o w
      /\ gops' = IF NewGop /\ gop # <<>> THEN Append(gops, gop) ELSE gops
      /\ dropped' = IF m < Len(buf) THEN dropped \union {unit.n} ELSE dropped
  BY <1>1, <1>2 DEF Written
<1>5. PICK e : e = dropped'
  OBVIOUS
<1>6. dropped \subseteq e /\ (m < Len(buf) => unit.n \in e)
  BY <1>4, <1>5
<1>7. NextUnit(w, units, e, unit.n)
  BY <1>2, <1>3, <1>4, <1>6, WrittenNext
<1>8. Returned = unit.n - 1 /\ Returned' = unit.n
  BY <1>4 DEF Returned
<1>9. Len(gops) \in Nat
  BY <1>3
<1>10. \A g \in 1 .. Len(gops) + 1 :
         From(gops, g) \in Seq(Packets) /\ From(Append(gops, gop), g) = From(gops, g) \o gop
  BY <1>3, FromAppend
<1>11. \A g \in 1 .. Len(gops) + 1 : Good(From(gops, g) \o gop, units, dropped, unit.n - 1)
  BY <1>8 DEF Streams
<1>12. \A g \in 1 .. Len(gops) + 1 : Good((From(gops, g) \o gop) \o w, units, e, unit.n)
  <2> SUFFICES ASSUME NEW g \in 1 .. Len(gops) + 1
               PROVE  Good((From(gops, g) \o gop) \o w, units, e, unit.n)
    OBVIOUS
  <2>1. From(gops, g) \o gop \in Seq(Packets)
    BY <1>3, <1>10, ConcatProperties
  <2> QED BY <1>2, <1>3, <1>6, <1>7, <1>11, <2>1, GoodJoined
<1>13. CASE NewGop /\ gop # <<>>
  <2>1. Before = <<>>
    BY <1>13 DEF Before
  <2>2. gop' = w
    BY <1>2, <1>4, <2>1, ConcatEmptySeq
  <2>3. gops' = Append(gops, gop) /\ Len(gops') = Len(gops) + 1
    BY <1>3, <1>4, <1>13, AppendProperties
  <2>4. \A g \in 1 .. Len(gops) + 1 : From(gops', g) = From(gops, g) \o gop
    BY <1>10, <2>3
  <2>5. From(gops', Len(gops') + 1) = <<>>
    <3>1. Append(gops, gop) \in Seq(Seq(Packets))
      BY <1>3, AppendProperties
    <3> QED BY <2>3, <3>1, FromEmpty
  <2>6. ASSUME NEW g \in 1 .. Len(gops')
        PROVE  Readable(From(gops', g), units', dropped')
    <3>1. g \in 1 .. Len(gops) + 1
      BY <2>3
    <3>2. From(gops, g) \o gop \in Seq(Packets) /\ unit.n - 1 \in Int
      BY <1>3, <1>10, <3>1, ConcatProperties
    <3>3. Readable(From(gops, g) \o gop, units, dropped)
      BY <1>11, <3>1, <3>2, GoodReadable
    <3>4. Readable(From(gops, g) \o gop, units, e)
      BY <1>6, <3>3, ReadableMore
    <3> QED BY <1>4, <1>5, <2>4, <3>1, <3>4
  <2>7. ASSUME NEW g \in 1 .. Len(gops') + 1
        PROVE  Good(From(gops', g) \o gop', units', dropped', Returned')
    <3>1. CASE g \in 1 .. Len(gops) + 1
      <4>1. From(gops', g) \o gop' = (From(gops, g) \o gop) \o w
        BY <2>2, <2>4, <3>1
      <4> QED BY <1>4, <1>5, <1>8, <1>12, <3>1, <4>1
    <3>2. CASE ~(g \in 1 .. Len(gops) + 1)
      <4>1. g = Len(gops') + 1
        BY <1>9, <2>3, <3>2
      <4>2. From(gops', g) \o gop' = <<>> \o w
        BY <2>2, <2>5, <4>1
      <4>3. Good(<<>> \o w, units, e, unit.n)
        <5>1. Good(<<>>, units, dropped, unit.n - 1)
          BY GoodEmpty
        <5>2. <<>> \in Seq(Packets)
          BY EmptySeq
        <5> QED BY <1>2, <1>3, <1>6, <1>7, <5>1, <5>2, GoodJoined
      <4> QED BY <1>4, <1>5, <1>8, <4>2, <4>3
    <3> QED BY <3>1, <3>2
  <2> QED BY <2>6, <2>7 DEF Streams
<1>14. CASE ~(NewGop /\ gop # <<>>)
  <2>1. Before = gop /\ gops' = gops
    BY <1>4, <1>14 DEF Before
  <2>2. \A g \in 1 .. Len(gops) : Readable(From(gops, g), units, e)
    BY <1>6, ReadableMore DEF Streams
  <2>3. ASSUME NEW g \in 1 .. Len(gops) + 1
        PROVE  From(gops, g) \o gop' = (From(gops, g) \o gop) \o w
    <3>1. PICK f \in Seq(Packets) : f = From(gops, g)
      BY <1>10
    <3>2. (f \o gop) \o w = f \o (gop \o w)
      BY <1>3, JoinedTwice
    <3> QED BY <1>4, <2>1, <3>1, <3>2
  <2>4. \A g \in 1 .. Len(gops) + 1 : Good(From(gops, g) \o gop', units, e, unit.n)
    BY <1>12, <2>3
  <2> QED BY <1>4, <1>5, <1>8, <2>1, <2>2, <2>4 DEF Streams
<1> QED BY <1>13, <1>14

LEMMA PackLater ==
  ASSUME NEW s \in Seq(Packets), NEW u \in Seq(Units), NEW x \in Units, NEW d, Pack(s, u, d)
  PROVE  Pack(s, Append(u, x), d)
<1>1. PICK v : v = Append(u, x)
  OBVIOUS
<1>2. PICK n \in Nat : n = Len(u)
  OBVIOUS
<1>3. Len(v) = n + 1 /\ \A i \in 1 .. n : v[i] = u[i] /\ i \in 1 .. n + 1
  BY <1>1, <1>2, AppendProperties
<1>4. ASSUME NEW p, Sound(p, u)
      PROVE  Sound(p, v) /\ (Ends(p, u, d) => Ends(p, v, d))
  <2>1. p.unit \in 1 .. n
    BY <1>2, <1>4 DEF Sound
  <2>2. v[p.unit] = u[p.unit] /\ p.unit \in 1 .. Len(v)
    BY <1>3, <2>1
  <2>3. Sound(p, v)
    BY <1>4, <2>2 DEF Sound
  <2> QED BY <2>2, <2>3 DEF Ends
<1>5. Pack(s, v, d)
  BY <1>4 DEF Pack
<1> QED BY <1>1, <1>5

LEMMA StreamsEncode == SendInv /\ Packaged /\ Streams /\ Encode => Streams'
<1> SUFFICES ASSUME SendInv, Packaged, Streams, Encode PROVE Streams'
  OBVIOUS
<1>1. /\ pc = "idle" /\ pc' = "packets" /\ unit'.n = unit.n + 1
      /\ units' = Append(units, unit') /\ UNCHANGED <<gop, gops, dropped>>
  BY DEF Encode, Call, Enter
<1>2. units \in Seq(Units) /\ unit.n \in Nat
  BY DEF SendInv, Sent, Inv, TypeOK, Units
<1>3. unit' \in Units
  <2>1. [StreamNext]_allVars
    BY DEF StreamNext
  <2>2. SendInv'
    BY <2>1, SendStep
  <2> QED BY <2>2 DEF SendInv, Inv, TypeOK
<1>4. Returned' = Returned
  BY <1>1, <1>2 DEF Returned
<1>5. gop \in Seq(Packets) /\ gops \in Seq(Seq(Packets)) /\ Len(gops) \in Nat
  BY DEF Packaged
<1>6. \A g \in 1 .. Len(gops) + 1 :
        From(gops, g) \in Seq(Packets) /\ From(gops, g) \o gop \in Seq(Packets)
  BY <1>5, FromAppend, ConcatProperties
<1>7. ASSUME NEW g \in 1 .. Len(gops) PROVE Readable(From(gops, g), units', dropped)
  <2>1. From(gops, g) \in Seq(Packets)
    BY <1>5, <1>6
  <2>2. Readable(From(gops, g), units, dropped)
    BY DEF Streams
  <2>3. Pack(From(gops, g), units', dropped)
    BY <1>1, <1>2, <1>3, <2>1, <2>2, PackLater DEF Readable
  <2> QED BY <2>2, <2>3 DEF Readable
<1>8. ASSUME NEW g \in 1 .. Len(gops) + 1
      PROVE  Good(From(gops, g) \o gop, units', dropped, Returned)
  <2>1. Good(From(gops, g) \o gop, units, dropped, Returned)
    BY DEF Streams
  <2>2. Pack(From(gops, g) \o gop, units', dropped)
    BY <1>1, <1>2, <1>3, <1>6, <2>1, PackLater DEF Good
  <2> QED BY <2>1, <2>2 DEF Good
<1> QED BY <1>1, <1>4, <1>7, <1>8 DEF Streams

LEMMA StreamsStep == SendInv /\ Packaged /\ Streams /\ [StreamNext]_allVars => Streams'
<1> SUFFICES ASSUME SendInv, Packaged, Streams, [StreamNext]_allVars PROVE Streams'
  OBVIOUS
<1>1. CASE UNCHANGED <<units, gops, gop, dropped>> /\ Returned' = Returned
  BY <1>1 DEF Streams
<1>2. CASE Packet
  <2>1. UNCHANGED <<units, gops, gop, dropped, pc, unit>>
    BY <1>2 DEF Packet, AddPacket, sender
  <2> QED BY <1>1, <2>1 DEF Returned
<1>3. CASE Open \/ DeliverFrame \/ ProcessVideo \/ ProcessAudio \/ SkipPacket \/ Rewind
  <2>1. UNCHANGED <<units, gops, gop, dropped, pc, unit>>
    BY <1>3 DEF Open, DeliverFrame, ProcessVideo, ProcessAudio, SkipPacket, Rewind, sender, vars
  <2> QED BY <1>1, <2>1 DEF Returned
<1>4. CASE UNCHANGED allVars
  BY <1>1, <1>4 DEF allVars, sender, vars, Returned
<1>5. CASE BeyondBuffer
  <2>1. UNCHANGED <<units, gops, gop, dropped, unit>> /\ pc = "packets" /\ pc' = "overrun"
    BY <1>5 DEF BeyondBuffer, Overrun, sender
  <2> QED BY <1>1, <2>1 DEF Returned
<1> QED BY <1>2, <1>3, <1>4, <1>5, StreamsWrite, StreamsEncode DEF StreamNext

(* At every time, what is published from any GOP on can be read.           *)
LEMMA StreamHolds == StreamSpec => []StreamInv
<1>1. StreamInit => StreamInv
  BY SendInit, PackagedInit, StreamsInit DEF StreamInv
<1>2. StreamInv /\ [StreamNext]_allVars => StreamInv'
  BY SendStep, PackagedStep, StreamsStep DEF StreamInv
<1> QED BY <1>1, <1>2, PTL DEF StreamSpec

-----------------------------------------------------------------------------
(***************************************************************************)
(* The player.  A frame that is being put together belongs to the last     *)
(* packet of its stream that was consumed, on this lap or at the end of    *)
(* the first, and holds the bytes of its unit up to that packet.           *)
(***************************************************************************)
None(k, s, a, b) == \A i \in a .. b : s[i].pid # k

Latest(k, m, s, r, l) ==
  /\ s[m].pid = k
  /\ m <= r => None(k, s, m + 1, r)
  /\ m > r => l = 2 /\ None(k, s, 1, r) /\ None(k, s, m + 1, Len(s))

Linked(data, n) ==
  \A i \in 1 .. Len(data) : data[i].unit = n /\ data[i].from = Used(SubSeq(data, 1, i - 1))

Gathered(f, p, u) ==
  /\ f.unit = p.unit /\ f.pts = PtsRead(p.pts)
  /\ u[p.unit].size < MaxFrame =>
       Linked(f.data, p.unit) /\ Used(f.data) = p.from + DataLen(p)

Assembles(f, k, m, s, r, l, u) ==
  /\ f.state = "FILLING" /\ Latest(k, m, s, r, l) /\ Gathered(f, s[m], u)
  /\ f.lap = IF m <= r THEN l ELSE 1
  /\ \E b \in 1 .. m : s[b].pid = k /\ s[b].start /\ s[b].unit = s[m].unit

(* Without one, the next packet of the stream starts a frame.              *)
Awaits(k, s, r) ==
  \/ r < Len(s) /\ s[r + 1].pid = k /\ s[r + 1].start
  \/ None(k, s, 1, r)

Held(f, k, s, r, l, u) ==
  \/ f = EmptyFrame /\ Awaits(k, s, r)
  \/ \E m \in 1 .. Len(s) : Assembles(f, k, m, s, r, l, u)

LEMMA HeldEmpty ==
  ASSUME NEW k, NEW s, NEW l, NEW u PROVE Held(EmptyFrame, k, s, 0, l, u)
<1>1. \A i \in 1 .. 0 : FALSE
  OBVIOUS
<1> QED BY <1>1 DEF Held, Awaits, None

LEMMA NoneNext ==
  ASSUME NEW k, NEW s, NEW a \in Int, NEW r \in Int, None(k, s, a, r), s[r + 1].pid # k
  PROVE  None(k, s, a, r + 1)
<1>1. \A i \in a .. r + 1 : i \in a .. r \/ i = r + 1
  OBVIOUS
<1> QED BY <1>1 DEF None

(* A packet of another stream changes nothing.                             *)
LEMMA HeldSkip ==
  ASSUME NEW k, NEW s \in Seq(Packets), NEW l, NEW u, NEW f,
         NEW r \in Nat, r < Len(s), s[r + 1].pid # k, Held(f, k, s, r, l, u)
  PROVE  Held(f, k, s, r + 1, l, u)
<1>1. CASE f = EmptyFrame /\ Awaits(k, s, r)
  <2>1. None(k, s, 1, r)
    BY <1>1 DEF Awaits
  <2>2. None(k, s, 1, r + 1)
    BY <2>1, NoneNext
  <2> QED BY <1>1, <2>2 DEF Held, Awaits
<1>2. CASE \E m \in 1 .. Len(s) : Assembles(f, k, m, s, r, l, u)
  <2>1. PICK m \in 1 .. Len(s) : Assembles(f, k, m, s, r, l, u)
    BY <1>2
  <2>2. m # r + 1
    BY <2>1 DEF Assembles, Latest
  <2>3. Len(s) \in Nat /\ (m <= r <=> m <= r + 1)
    BY <2>2
  <2>4. m > r + 1 => m > r
    OBVIOUS
  <2>5. Latest(k, m, s, r + 1, l)
    <3>1. CASE m <= r
      <4>1. None(k, s, m + 1, r + 1)
        BY <2>1, <3>1, NoneNext DEF Assembles, Latest
      <4> QED BY <2>1, <2>3, <3>1, <4>1 DEF Assembles, Latest
    <3>2. CASE m > r
      <4>1. l = 2 /\ None(k, s, 1, r) /\ None(k, s, m + 1, Len(s))
        BY <2>1, <3>2 DEF Assembles, Latest
      <4>2. None(k, s, 1, r + 1)
        BY <4>1, NoneNext
      <4>3. ~(m <= r + 1)
        BY <2>3, <3>2
      <4> QED BY <2>1, <4>1, <4>2, <4>3 DEF Assembles, Latest
    <3> QED BY <3>1, <3>2
  <2>6. Assembles(f, k, m, s, r + 1, l, u)
    BY <2>1, <2>3, <2>5 DEF Assembles
  <2> QED BY <2>6 DEF Held
<1> QED BY <1>1, <1>2 DEF Held

(* So does the way back to the start of the file.                          *)
LEMMA HeldRewind ==
  ASSUME NEW k, NEW s \in Seq(Packets), NEW u, NEW f, Held(f, k, s, Len(s), 1, u)
  PROVE  Held(f, k, s, 0, 2, u)
<1>1. CASE f = EmptyFrame
  BY <1>1, HeldEmpty
<1>2. CASE \E m \in 1 .. Len(s) : Assembles(f, k, m, s, Len(s), 1, u)
  <2>1. PICK m \in 1 .. Len(s) : Assembles(f, k, m, s, Len(s), 1, u)
    BY <1>2
  <2>2. m <= Len(s) /\ m > 0 /\ ~(m <= 0)
    OBVIOUS
  <2>3. None(k, s, 1, 0)
    BY DEF None
  <2>4. Latest(k, m, s, 0, 2)
    BY <2>1, <2>2, <2>3 DEF Assembles, Latest
  <2>5. Assembles(f, k, m, s, 0, 2, u)
    BY <2>1, <2>2, <2>4 DEF Assembles
  <2> QED BY <2>5 DEF Held
<1> QED BY <1>1, <1>2 DEF Held

(* A piece at the end of a frame.                                          *)
LEMMA LinkedAppend ==
  ASSUME NEW d \in Seq(Pieces), NEW x \in Pieces, NEW n,
         Linked(d, n), x.unit = n, x.from = Used(d)
  PROVE  Linked(Append(d, x), n)
<1>1. PICK e : e = Append(d, x)
  OBVIOUS
<1>2. PICK l \in Nat : l = Len(d)
  OBVIOUS
<1>3. e \in Seq(Pieces) /\ Len(e) = l + 1 /\ e[l + 1] = x /\ \A i \in 1 .. l : e[i] = d[i]
  BY <1>1, <1>2, AppendProperties
<1>4. ASSUME NEW j \in 0 .. l PROVE SubSeq(e, 1, j) = SubSeq(d, 1, j)
  <2>1. CASE j = 0
    BY <2>1, SubSeqEmpty
  <2>2. CASE j # 0
    <3>1. 1 \in 1 .. Len(d) /\ j \in 1 .. Len(d)
      BY <1>2, <2>2
    <3>2. <<x>> \in Seq(Pieces)
      OBVIOUS
    <3>3. e = d \o <<x>>
      BY <1>1, AppendIsConcat
    <3> QED BY <3>1, <3>2, <3>3, SubSeqOfConcat1
  <2> QED BY <2>1, <2>2
<1>5. ASSUME NEW i \in 1 .. l + 1
      PROVE  e[i].unit = n /\ e[i].from = Used(SubSeq(e, 1, i - 1))
  <2>1. i - 1 \in 0 .. l
    OBVIOUS
  <2>2. SubSeq(e, 1, i - 1) = SubSeq(d, 1, i - 1)
    BY <1>4, <2>1
  <2>3. CASE i <= l
    <3>1. i \in 1 .. Len(d) /\ e[i] = d[i]
      BY <1>2, <1>3, <2>3
    <3>2. d[i].unit = n /\ d[i].from = Used(SubSeq(d, 1, i - 1))
      BY <3>1 DEF Linked
    <3> QED BY <2>2, <3>1, <3>2
  <2>4. CASE ~(i <= l)
    <3>1. i = l + 1 /\ i - 1 = l
      BY <2>4
    <3>2. SubSeq(d, 1, l) = d
      BY <1>2, SubSeqFull
    <3> QED BY <1>3, <2>2, <3>1, <3>2
  <2> QED BY <2>3, <2>4
<1>6. Linked(e, n)
  BY <1>3, <1>5 DEF Linked
<1> QED BY <1>1, <1>6

(* What the parsers make of the next packet of their stream.               *)
Read(f, p, l) ==
  Filled(IF p.start
         THEN [state |-> "FILLING", data |-> <<>>, unit |-> p.unit, pts |-> PtsRead(p.pts),
               lap |-> l]
         ELSE f,
         p, DataLen(p))

LEMMA FilledIs ==
  ASSUME NEW f \in Frames, NEW p \in Packets, NEW n \in Nat
  PROVE  LET g == Filled(f, p, n)
             x == [unit |-> p.unit, from |-> p.from, len |-> n]
         IN  /\ g.state = f.state /\ g.unit = f.unit /\ g.pts = f.pts /\ g.lap = f.lap
             /\ f.data \in Seq(Pieces) /\ x \in Pieces
             /\ Used(f.data) < MaxFrame - n => g.data = Append(f.data, x)
             /\ ~(Used(f.data) < MaxFrame - n) => g = f
             /\ g \in Frames
<1> DEFINE g == Filled(f, p, n)
           x == [unit |-> p.unit, from |-> p.from, len |-> n]
           D == Seq(Pieces)
<1>1. f.data \in D /\ f \in [state : {"INIT", "FILLING"}, data : D, unit : Nat, pts : Nat,
                             lap : 0 .. 2]
  BY DEF Frames, Pieces
<1>2. x \in Pieces
  BY DEF Packets, Pieces
<1>3. Append(f.data, x) \in D
  BY <1>1, <1>2, AppendProperties
<1>4. g = IF Used(f.data) < MaxFrame - n
          THEN [f EXCEPT !.data = Append(f.data, x)] ELSE f
  BY DEF Filled
<1>5. [state : {"INIT", "FILLING"}, data : D, unit : Nat, pts : Nat, lap : 0 .. 2] = Frames
  BY DEF Frames, Pieces
<1> HIDE DEF D, g, x
<1>6. /\ g.state = f.state /\ g.unit = f.unit /\ g.pts = f.pts /\ g.lap = f.lap
      /\ Used(f.data) < MaxFrame - n => g.data = Append(f.data, x)
      /\ ~(Used(f.data) < MaxFrame - n) => g = f
  BY <1>1, <1>4
<1>7. g \in Frames
  BY <1>1, <1>3, <1>4, <1>5
<1> QED BY <1>1, <1>2, <1>6, <1>7 DEF D, g, x

LEMMA PtsReadIs ==
  ASSUME NEW n \in Nat
  PROVE  PtsRead(n) \in Nat /\ PtsRead(n) \div 128 = n \div 128
<1>1. PICK q \in Nat, r \in 0 .. 127 : n = 128 * q + r
  <2>1. n \div 128 \in Nat /\ n % 128 \in 0 .. 127
    OBVIOUS
  <2>2. n = 128 * (n \div 128) + (n % 128)
    OBVIOUS
  <2> QED BY <2>1, <2>2
<1>2. n % 128 = r /\ n \div 128 = q
  BY <1>1
<1>3. PICK b \in 0 .. 127 : b = (2 * n + 1) % 128
  OBVIOUS
<1>4. PtsRead(n) = 128 * q + b
  BY <1>1, <1>2, <1>3 DEF PtsRead
<1>5. (128 * q + b) \div 128 = q
  BY <1>1, <1>3
<1> QED BY <1>1, <1>2, <1>4, <1>5

LEMMA PacketData ==
  ASSUME NEW u \in Seq(Units), NEW p \in Packets, Sound(p, u)
  PROVE  /\ DataLen(p) \in Nat /\ DataLen(p) > 0 /\ p.from \in Nat /\ p.unit \in Nat
         /\ u[p.unit] \in Units /\ u[p.unit].size \in Nat
         /\ p.from + DataLen(p) <= u[p.unit].size
         /\ p.start => p.from = 0
         /\ DataLen(p) <= Space
<1>1. u[p.unit] \in Units
  BY ElementOfSeq DEF Sound
<1>2. p.from \in Nat /\ p.unit \in Nat /\ u[p.unit].size \in Nat
  BY <1>1 DEF Packets, Units
<1>3. /\ DataLen(p) \in 1 .. u[p.unit].size /\ p.from + DataLen(p) <= u[p.unit].size
      /\ p.start => p.from = 0
  BY DEF Sound
<1>4. DataLen(p) <= Space
  <2>1. PICK a \in 0 .. 188, b \in {0, 16, 20} : a = p.pad /\ b = p.pes
    BY DEF Packets, TS_PACKET_SIZE
  <2>2. DataLen(p) = 184 - a - b /\ Space = 184
    BY <2>1 DEF DataLen, Space, TS_PACKET_SIZE, HeaderLength
  <2>3. b = 0 \/ b = 16 \/ b = 20
    OBVIOUS
  <2>4. 184 - a - b <= 184
    BY <2>3
  <2> QED BY <2>2, <2>4
<1> QED BY <1>1, <1>2, <1>3, <1>4

LEMMA EmptyFrameIs == EmptyFrame \in Frames
<1>1. <<>> \in Seq([unit : Nat, from : Nat, len : Nat])
  BY EmptySeq
<1> QED BY <1>1 DEF EmptyFrame, Frames

LEMMA StartedIs ==
  ASSUME NEW p \in Packets, NEW l \in 0 .. 2
  PROVE  [state |-> "FILLING", data |-> <<>>, unit |-> p.unit, pts |-> PtsRead(p.pts),
          lap |-> l] \in Frames
<1>1. <<>> \in Seq([unit : Nat, from : Nat, len : Nat])
  BY EmptySeq
<1>2. p.unit \in Nat /\ PtsRead(p.pts) \in Nat
  BY PtsReadIs DEF Packets
<1> QED BY <1>1, <1>2 DEF Frames

(* A packet that does not start a frame continues the one in hand.         *)
LEMMA Continues ==
  ASSUME NEW k \in Kinds, NEW s \in Seq(Packets), NEW u, NEW d, Pack(s, u, d),
         NEW l, NEW f, NEW r \in Nat, r < Len(s), s[r + 1].pid = k, ~s[r + 1].start,
         Held(f, k, s, r, l, u)
  PROVE  /\ r \in 1 .. Len(s) /\ GoesOn(s[r], s[r + 1])
         /\ Assembles(f, k, r, s, r, l, u)
<1>1. PICK j \in 1 .. Len(s) : j = r + 1
  OBVIOUS
<1>2. j > 1 /\ GoesOn(s[j - 1], s[j])
  BY <1>1 DEF Pack, Media
<1>3. j - 1 = r /\ r \in 1 .. Len(s) /\ r \in 1 .. r
  BY <1>1, <1>2
<1>4. s[r].pid = k /\ GoesOn(s[r], s[r + 1])
  BY <1>1, <1>2, <1>3 DEF GoesOn
<1>5. ~Awaits(k, s, r)
  BY <1>3, <1>4 DEF Awaits, None
<1>6. PICK m \in 1 .. Len(s) : Assembles(f, k, m, s, r, l, u)
  BY <1>5 DEF Held
<1>7. m = r
  <2>1. ~(m > r)
    BY <1>3, <1>4, <1>6 DEF Assembles, Latest, None
  <2>2. ~(m < r)
    <3> SUFFICES ASSUME m < r PROVE FALSE
      OBVIOUS
    <3>1. r \in m + 1 .. r /\ m <= r
      OBVIOUS
    <3> QED BY <1>4, <1>6, <3>1 DEF Assembles, Latest, None
  <2> QED BY <2>1, <2>2
<1> QED BY <1>3, <1>4, <1>6, <1>7

LEMMA ReadIs ==
  ASSUME NEW f \in Frames, NEW p \in Packets, NEW l \in 0 .. 2,
         NEW u \in Seq(Units), Sound(p, u)
  PROVE  LET g == Read(f, p, l)
         IN  /\ g \in Frames
             /\ p.start => /\ g.state = "FILLING" /\ g.unit = p.unit
                           /\ g.pts = PtsRead(p.pts) /\ g.lap = l
                           /\ DataLen(p) < MaxFrame =>
                                /\ g.data # <<>>
                                /\ Linked(g.data, p.unit) /\ Used(g.data) = DataLen(p)
             /\ ~p.start => /\ g.state = f.state /\ g.unit = f.unit
                            /\ g.pts = f.pts /\ g.lap = f.lap
                            /\ f.data # <<>> => g.data # <<>>
                            /\ /\ Linked(f.data, p.unit) /\ Used(f.data) = p.from
                               /\ p.from + DataLen(p) < MaxFrame
                               => /\ Linked(g.data, p.unit)
                                  /\ Used(g.data) = p.from + DataLen(p)
<1>1. PICK n \in Nat : n = DataLen(p)
  BY PacketData
<1>2. PICK b \in Frames :
        b = [state |-> "FILLING", data |-> <<>>, unit |-> p.unit, pts |-> PtsRead(p.pts),
             lap |-> l]
  BY StartedIs
<1>3. PICK x \in Pieces : x = [unit |-> p.unit, from |-> p.from, len |-> n]
  BY FilledIs
<1>4. PICK h \in Frames : h = IF p.start THEN b ELSE f
  OBVIOUS
<1>5. PICK g : g = Read(f, p, l)
  OBVIOUS
<1>6. g = Filled(h, p, n)
  BY <1>1, <1>2, <1>4, <1>5 DEF Read
<1>7. /\ g.state = h.state /\ g.unit = h.unit /\ g.pts = h.pts /\ g.lap = h.lap
      /\ h.data \in Seq(Pieces) /\ g \in Frames
      /\ Used(h.data) < MaxFrame - n => g.data = Append(h.data, x)
      /\ ~(Used(h.data) < MaxFrame - n) => g = h
  BY <1>3, <1>6, FilledIs
<1>y. PICK y : y = Append(h.data, x)
  OBVIOUS
<1>8. /\ Used(h.data) \in Nat /\ Used(y) = Used(h.data) + n
      /\ y # <<>>
      /\ Linked(h.data, p.unit) /\ p.from = Used(h.data) =>
           Linked(y, p.unit)
  <2>1. x.len = n /\ x.unit = p.unit /\ x.from = p.from
    BY <1>3
  <2>2. PICK e \in Seq(Pieces) : e = h.data
    BY <1>7
  <2>3. Used(e) \in Nat /\ Used(Append(e, x)) = Used(e) + n
    BY <2>1, UsedAppend
  <2>4. Linked(e, p.unit) /\ p.from = Used(e) => Linked(Append(e, x), p.unit)
    BY <2>1, LinkedAppend
  <2>5. Append(e, x) # <<>>
    OBVIOUS
  <2> QED BY <1>y, <2>2, <2>3, <2>4, <2>5
<1>9. MaxFrame \in Nat
  BY TsStreamAssumption
<1>10. CASE p.start
  <2>1. h = b /\ h.data = <<>> /\ p.from = 0
    BY <1>2, <1>4, <1>10, PacketData
  <2>2. Used(h.data) = 0 /\ Linked(h.data, p.unit)
    BY <2>1, UsedEmpty DEF Linked
  <2>3. g.state = "FILLING" /\ g.unit = p.unit /\ g.pts = PtsRead(p.pts) /\ g.lap = l
    BY <1>2, <1>7, <2>1
  <2>4. ASSUME n < MaxFrame
        PROVE  g.data # <<>> /\ Linked(g.data, p.unit) /\ Used(g.data) = n
    <3>1. Used(h.data) < MaxFrame - n
      BY <1>9, <2>2, <2>4
    <3>2. g.data = y
      BY <1>7, <1>y, <3>1
    <3>3. Used(g.data) = 0 + n
      BY <1>8, <2>2, <3>2
    <3>4. Linked(g.data, p.unit)
      BY <1>8, <2>1, <2>2, <3>2
    <3> QED BY <1>8, <3>2, <3>3, <3>4
  <2> QED BY <1>1, <1>5, <1>7, <1>10, <2>3, <2>4
<1>11. CASE ~p.start
  <2>1. h = f
    BY <1>4, <1>11
  <2>2. f.data # <<>> => g.data # <<>>
    BY <1>7, <1>8, <1>y, <2>1
  <2>3. ASSUME Linked(f.data, p.unit), Used(f.data) = p.from, p.from + n < MaxFrame
        PROVE  Linked(g.data, p.unit) /\ Used(g.data) = p.from + n
    <3>1. Used(h.data) < MaxFrame - n
      BY <1>8, <1>9, <2>1, <2>3
    <3> QED BY <1>7, <1>8, <1>y, <2>1, <2>3, <3>1
  <2> QED BY <1>1, <1>5, <1>7, <1>11, <2>1, <2>2, <2>3
<1> QED BY <1>10, <1>11

LEMMA HeldRead ==
  ASSUME NEW k \in Kinds, NEW s \in Seq(Packets), NEW u \in Seq(Units), NEW d, Pack(s, u, d),
         NEW l \in 0 .. 2, NEW f \in Frames, NEW r \in Nat, r < Len(s), s[r + 1].pid = k,
         Held(f, k, s, r, l, u)
  PROVE  Held(Read(f, s[r + 1], l), k, s, r + 1, l, u)
<1>1. PICK j \in 1 .. Len(s) : j = r + 1
  OBVIOUS
<1>2. PICK p \in Packets : p = s[j]
  BY ElementOfSeq
<1>3. Sound(p, u)
  BY <1>1, <1>2 DEF Pack, Media
<1>4. PICK g : g = Read(f, p, l)
  OBVIOUS
<1>5. /\ p.start => /\ g.state = "FILLING" /\ g.unit = p.unit
                    /\ g.pts = PtsRead(p.pts) /\ g.lap = l
                    /\ DataLen(p) < MaxFrame =>
                         Linked(g.data, p.unit) /\ Used(g.data) = DataLen(p)
      /\ ~p.start => /\ g.state = f.state /\ g.unit = f.unit
                     /\ g.pts = f.pts /\ g.lap = f.lap
                     /\ /\ Linked(f.data, p.unit) /\ Used(f.data) = p.from
                        /\ p.from + DataLen(p) < MaxFrame
                        => /\ Linked(g.data, p.unit)
                           /\ Used(g.data) = p.from + DataLen(p)
  BY <1>3, <1>4, ReadIs
<1>6. /\ DataLen(p) \in Nat /\ p.from \in Nat /\ u[p.unit].size \in Nat
      /\ p.from + DataLen(p) <= u[p.unit].size
      /\ p.start => p.from = 0
      /\ MaxFrame \in Nat
  BY <1>3, PacketData, TsStreamAssumption
<1>7. Latest(k, j, s, j, l)
  <2>1. \A i \in j + 1 .. j : FALSE
    OBVIOUS
  <2> QED BY <1>1, <2>1 DEF Latest, None
<1>8. CASE p.start
  <2>1. u[p.unit].size < MaxFrame => DataLen(p) < MaxFrame /\ p.from + DataLen(p) = DataLen(p)
    BY <1>6, <1>8
  <2>2. Gathered(g, p, u)
    BY <1>5, <1>8, <2>1 DEF Gathered
  <2>3. Assembles(g, k, j, s, j, l, u)
    <3>1. j \in 1 .. j /\ j <= j
      OBVIOUS
    <3> QED BY <1>1, <1>2, <1>5, <1>7, <1>8, <2>2, <3>1 DEF Assembles
  <2>4. Held(g, k, s, j, l, u)
    BY <2>3 DEF Held
  <2> QED BY <1>1, <1>2, <1>4, <2>4
<1>9. CASE ~p.start
  <2>1. r \in 1 .. Len(s) /\ GoesOn(s[r], p) /\ Assembles(f, k, r, s, r, l, u)
    BY <1>1, <1>2, <1>9, Continues
  <2>2. /\ f.state = "FILLING" /\ Gathered(f, s[r], u) /\ f.lap = l
        /\ \E b \in 1 .. r : s[b].pid = k /\ s[b].start /\ s[b].unit = s[r].unit
    BY <2>1 DEF Assembles
  <2>3. s[r].unit = p.unit /\ p.from = s[r].from + DataLen(s[r])
    BY <2>1 DEF GoesOn
  <2>4. s[r].pts = p.pts
    <3>1. Media(s[r]) /\ Sound(s[r], u)
      BY <2>1 DEF Pack, Media, Assembles, Latest
    <3> QED BY <1>3, <2>3, <3>1 DEF Sound
  <2>5. /\ f.unit = p.unit /\ f.pts = PtsRead(p.pts)
        /\ u[p.unit].size < MaxFrame => Linked(f.data, p.unit) /\ Used(f.data) = p.from
    BY <2>2, <2>3, <2>4 DEF Gathered
  <2>6. u[p.unit].size < MaxFrame => p.from + DataLen(p) < MaxFrame
    BY <1>6
  <2>7. Gathered(g, p, u)
    BY <1>5, <1>9, <2>5, <2>6 DEF Gathered
  <2>8. \E b \in 1 .. j : s[b].pid = k /\ s[b].start /\ s[b].unit = p.unit
    <3>1. PICK b \in 1 .. r : s[b].pid = k /\ s[b].start /\ s[b].unit = s[r].unit
      BY <2>2
    <3>2. b \in 1 .. j
      BY <1>1
    <3> QED BY <2>3, <3>1, <3>2
  <2>9. Assembles(g, k, j, s, j, l, u)
    <3>1. j <= j
      OBVIOUS
    <3>2. g.state = "FILLING" /\ g.lap = l
      BY <1>5, <1>9, <2>2
    <3> QED BY <1>2, <1>7, <2>7, <2>8, <3>1, <3>2 DEF Assembles
  <2>10. Held(g, k, s, j, l, u)
    BY <2>9 DEF Held
  <2> QED BY <1>1, <1>2, <1>4, <2>10
<1> QED BY <1>8, <1>9

(* A frame that the start of the next one completes has its unit to the    *)
(* last byte, unless packets were lost or the frame was too small.         *)
LEMMA HeldWhole ==
  ASSUME NEW k \in Kinds, NEW s \in Seq(Packets), NEW u \in Seq(Units), NEW d, Pack(s, u, d),
         NEW l, NEW f \in Frames, NEW r \in Nat, r < Len(s), s[r + 1].pid = k,
         s[r + 1].start, f.data # <<>>, Held(f, k, s, r, l, u)
  PROVE  /\ f.pts \div 128 = u[f.unit].pts \div 128
         /\ f.unit \notin d /\ u[f.unit].size < MaxFrame =>
              Linked(f.data, f.unit) /\ Used(f.data) = u[f.unit].size
         /\ f.state = "FILLING"
         /\ \E m \in 1 .. Len(s) : Assembles(f, k, m, s, r, l, u)
<1>1. f # EmptyFrame
  BY DEF EmptyFrame
<1>2. PICK m \in 1 .. Len(s) : Assembles(f, k, m, s, r, l, u)
  BY <1>1 DEF Held
<1>3. /\ f.state = "FILLING" /\ Gathered(f, s[m], u) /\ Latest(k, m, s, r, l)
      /\ s[m].pid = k
  BY <1>2 DEF Assembles, Latest
<1>4. PICK p \in Packets : p = s[m]
  BY ElementOfSeq
<1>5. Media(p) /\ Sound(p, u) /\ (m = Len(s) \/ ~Follows(s[m + 1]) => Ends(p, u, d))
  BY <1>3, <1>4 DEF Pack, Media
<1>6. f.pts \div 128 = u[f.unit].pts \div 128
  <2>1. f.unit = p.unit /\ f.pts = PtsRead(p.pts) /\ p.pts = u[p.unit].pts
    BY <1>3, <1>4, <1>5 DEF Gathered, Sound
  <2>2. PICK n \in Nat : n = p.pts
    BY DEF Packets
  <2>3. PtsRead(n) \div 128 = n \div 128
    BY PtsReadIs
  <2> QED BY <2>1, <2>2, <2>3
<1>7. m = Len(s) \/ ~Follows(s[m + 1])
  <2> SUFFICES ASSUME m # Len(s), Follows(s[m + 1]) PROVE FALSE
    OBVIOUS
  <2>1. PICK j \in 1 .. Len(s) : j = m + 1
    OBVIOUS
  <2>2. j - 1 = m /\ Media(s[j]) /\ ~s[j].start
    BY <2>1 DEF Follows
  <2>3. s[j].pid = k
    BY <1>3, <2>2 DEF Pack, GoesOn
  <2>4. CASE m <= r
    <3>1. j # r + 1
      BY <2>2
    <3>2. j \in m + 1 .. r
      BY <2>1, <2>4, <3>1
    <3> QED BY <1>3, <2>3, <2>4, <3>2 DEF Latest, None
  <2>5. CASE m > r
    <3>1. j \in m + 1 .. Len(s)
      BY <2>1
    <3> QED BY <1>3, <2>3, <2>5, <3>1 DEF Latest, None
  <2> QED BY <2>4, <2>5
<1>8. ASSUME f.unit \notin d, u[f.unit].size < MaxFrame
      PROVE  Linked(f.data, f.unit) /\ Used(f.data) = u[f.unit].size
  <2>1. f.unit = p.unit /\ Linked(f.data, p.unit) /\ Used(f.data) = p.from + DataLen(p)
    BY <1>3, <1>4, <1>8 DEF Gathered
  <2>2. Ends(p, u, d)
    BY <1>5, <1>7
  <2> QED BY <1>8, <2>1, <2>2 DEF Ends
<1> QED BY <1>2, <1>3, <1>6, <1>8

-----------------------------------------------------------------------------
Delivery == [kind : Kinds, lap : 0 .. 2, unit : Nat, data : Seq(Pieces), pts : Nat]

PlayerTypes ==
  /\ file \in Seq(Packets) /\ rd \in 0 .. Len(file) /\ lap \in 0 .. 2
  /\ frame \in [Kinds -> Frames] /\ pesLen \in Nat /\ out \in Seq(Delivery)

(* Nothing is read before the stream is complete, nothing sent after.      *)
Opened ==
  /\ lap = 0 => file = <<>> /\ out = <<>> /\ \A k \in Kinds : frame[k] = EmptyFrame
  /\ lap > 0 => pc = "idle" /\ unit.n = MaxUnits

FileReadable == Readable(file, units, dropped)

InHand == \A k \in Kinds : Held(frame[k], k, file, rd, lap, units)

(* What the audio parser has yet to take of the frame it reads.            *)
AudioLeft ==
  rd > 0 /\ file[rd].pid = "audio" =>
    pesLen = units[file[rd].unit].size - (file[rd].from + DataLen(file[rd]))

PlayInv == PlayerTypes /\ Opened /\ FileReadable /\ InHand /\ AudioLeft

LEMMA ReadableEmpty == ASSUME NEW u, NEW d PROVE Readable(<<>>, u, d)
<1>1. \A i \in 1 .. Len(<<>>) : FALSE
  OBVIOUS
<1> QED BY <1>1 DEF Readable, Pack, Order, Between

LEMMA PlayInit == StreamInit => PlayInv
<1> SUFFICES ASSUME StreamInit PROVE PlayInv
  OBVIOUS
<1>1. /\ file = <<>> /\ rd = 0 /\ lap = 0 /\ frame = [k \in Kinds |-> EmptyFrame]
      /\ pesLen = 0 /\ out = <<>>
  BY DEF StreamInit
<1>2. /\ file \in Seq(Packets) /\ out \in Seq(Delivery) /\ Len(file) = 0
  BY <1>1, EmptySeq
<1>3. frame \in [Kinds -> Frames]
  BY <1>1, EmptyFrameIs
<1>4. InHand
  BY <1>1, HeldEmpty DEF InHand
<1> QED BY <1>1, <1>2, <1>3, <1>4, ReadableEmpty
        DEF PlayInv, PlayerTypes, Opened, FileReadable, AudioLeft

(* The sender acts only as long as nothing was opened.                     *)
LEMMA SenderFirst ==
  ASSUME SendInv, PlayInv, Encode \/ Packet \/ BeyondBuffer \/ WriteFrameData
  PROVE  /\ UNCHANGED <<file, rd, lap, frame, pesLen, out>>
         /\ lap = 0 /\ file = <<>> /\ out = <<>> /\ rd = 0
         /\ \A k \in Kinds : frame[k] = EmptyFrame
<1>1. /\ UNCHANGED player
      /\ pc = "packets" \/ (pc = "idle" /\ unit.n < MaxUnits)
  BY DEF Encode, Call, Packet, AddPacket, BeyondBuffer, Overrun, WriteFrameData, Return
<1>2. UNCHANGED <<file, rd, lap, frame, pesLen, out>>
  BY <1>1 DEF player
<1>3. unit.n \in Nat /\ MaxUnits \in Nat
  BY TsMuxAssumption DEF SendInv, Inv, TypeOK, Units
<1>4. lap \in 0 .. 2 /\ ~(lap > 0)
  BY <1>1, <1>3 DEF PlayInv, PlayerTypes, Opened
<1>5. lap = 0
  BY <1>4
<1>6. file = <<>> /\ out = <<>> /\ \A k \in Kinds : frame[k] = EmptyFrame
  BY <1>5 DEF PlayInv, Opened
<1>7. rd = 0
  BY <1>6 DEF PlayInv, PlayerTypes
<1> QED BY <1>2, <1>5, <1>6, <1>7

LEMMA PlaySender ==
  ASSUME SendInv, PlayInv, Encode \/ Packet \/ BeyondBuffer \/ WriteFrameData PROVE PlayInv'
<1>1. UNCHANGED <<file, rd, lap, frame, pesLen, out>>
  BY SenderFirst
<1>2. lap = 0
  BY SenderFirst
<1>3. file = <<>> /\ out = <<>> /\ \A k \in Kinds : frame[k] = EmptyFrame
  BY SenderFirst
<1>4. rd = 0
  BY SenderFirst
<1>5. PlayerTypes'
  BY <1>1 DEF PlayInv, PlayerTypes
<1>6. Opened'
  BY <1>1, <1>2, <1>3 DEF Opened
<1>7. FileReadable'
  BY <1>1, <1>3, ReadableEmpty DEF FileReadable
<1>8. InHand'
  BY <1>1, <1>3, <1>4, HeldEmpty DEF InHand
<1>9. AudioLeft'
  BY <1>1, <1>4 DEF AudioLeft
<1> QED BY <1>5, <1>6, <1>7, <1>8, <1>9 DEF PlayInv

LEMMA PlayOpen ==
  ASSUME StreamInv, PlayInv, Open PROVE PlayInv'
<1>1. /\ unit.n = MaxUnits /\ pc = "idle" /\ lap = 0 /\ lap' = 1
      /\ UNCHANGED <<vars, sender, rd, frame, pesLen, out>>
  BY DEF Open
<1>2. PICK g \in 1 .. Len(gops) : file' = From(gops, g)
  BY DEF Open, From
<1>3. UNCHANGED <<pc, unit, units, gops, dropped>>
  BY <1>1 DEF vars, sender
<1>4. file = <<>> /\ out = <<>> /\ \A k \in Kinds : frame[k] = EmptyFrame
  BY <1>1 DEF PlayInv, Opened
<1>5. rd = 0
  BY <1>4 DEF PlayInv, PlayerTypes
<1>6. file' \in Seq(Packets) /\ Len(file') \in Nat
  <2>1. gops \in Seq(Seq(Packets)) /\ gop \in Seq(Packets)
    BY DEF StreamInv, Packaged
  <2>2. g \in 1 .. Len(gops) + 1
    BY <2>1
  <2>3. From(gops, g) \in Seq(Packets)
    BY <2>1, <2>2, FromAppend
  <2> QED BY <1>2, <2>3
<1>7. PlayerTypes'
  BY <1>1, <1>5, <1>6 DEF PlayInv, PlayerTypes
<1>8. Opened'
  BY <1>1, <1>3 DEF Opened
<1>9. FileReadable'
  BY <1>2, <1>3 DEF FileReadable, StreamInv, Streams
<1>10. InHand'
  BY <1>1, <1>4, <1>5, HeldEmpty DEF InHand
<1>11. AudioLeft'
  BY <1>1, <1>5 DEF AudioLeft
<1> QED BY <1>7, <1>8, <1>9, <1>10, <1>11 DEF PlayInv

(* What reading the next packet of a stream does, video or audio.          *)
Takes(k) ==
  /\ rd < Len(file) /\ file[rd + 1].pid = k /\ ~Completes(file[rd + 1])
  /\ frame' = [frame EXCEPT ![k] = Read(frame[k], file[rd + 1], lap)]
  /\ rd' = rd + 1
  /\ UNCHANGED <<vars, sender, file, lap, out>>

LEMMA NextPacket ==
  ASSUME SendInv, PlayInv, rd < Len(file), file[rd + 1].pid \in Kinds
  PROVE  /\ file[rd + 1] \in Packets /\ Sound(file[rd + 1], units) /\ units \in Seq(Units)
         /\ rd \in Nat /\ rd + 1 \in 1 .. Len(file)
         /\ Pack(file, units, dropped)
<1>1. file \in Seq(Packets) /\ rd \in Nat /\ units \in Seq(Units)
  BY DEF PlayInv, PlayerTypes, SendInv, Sent
<1>2. PICK j \in 1 .. Len(file) : j = rd + 1
  BY <1>1
<1>3. file[j] \in Packets
  BY <1>1, ElementOfSeq
<1>4. Pack(file, units, dropped)
  BY DEF PlayInv, FileReadable, Readable
<1>5. Sound(file[j], units)
  BY <1>2, <1>4 DEF Pack, Media
<1> QED BY <1>1, <1>2, <1>3, <1>4, <1>5

LEMMA FollowsIs ==
  ASSUME SendInv, PlayInv, NEW k \in Kinds, rd < Len(file), file[rd + 1].pid = k,
         ~file[rd + 1].start
  PROVE  /\ rd \in 1 .. Len(file) /\ GoesOn(file[rd], file[rd + 1])
         /\ Assembles(frame[k], k, rd, file, rd, lap, units)
<1>1. Pack(file, units, dropped) /\ rd \in Nat /\ file \in Seq(Packets)
  BY NextPacket DEF PlayInv, PlayerTypes
<1>2. Held(frame[k], k, file, rd, lap, units)
  BY DEF PlayInv, InHand
<1> QED BY <1>1, <1>2, Continues

LEMMA VideoIs ==
  ASSUME SendInv, PlayInv, ProcessVideo PROVE Takes("video") /\ pesLen' = pesLen
<1>1. /\ rd < Len(file) /\ rd' = rd + 1
      /\ UNCHANGED <<vars, sender, file, lap, pesLen, out>>
      /\ LET p == file[rd + 1]
             f == IF p.start THEN Started(p) ELSE frame["video"]
         IN  /\ p.pid = "video"
             /\ ~Completes(p)
             /\ frame' = IF f.state = "FILLING"
                         THEN [frame EXCEPT !["video"] = Filled(f, p, DataLen(p))]
                         ELSE frame
  BY DEF ProcessVideo
<1>2. PICK p : p = file[rd + 1]
  OBVIOUS
<1>3. PICK f : f = IF p.start THEN Started(p) ELSE frame["video"]
  OBVIOUS
<1>4. p.pid = "video" /\ ~Completes(p) /\ "video" \in Kinds
  BY <1>1, <1>2 DEF Kinds
<1>5. frame' = IF f.state = "FILLING"
               THEN [frame EXCEPT !["video"] = Filled(f, p, DataLen(p))]
               ELSE frame
  BY <1>1, <1>2, <1>3
<1>6. f.state = "FILLING"
  <2>1. CASE p.start
    BY <1>3, <2>1 DEF Started
  <2>2. CASE ~p.start
    <3>1. Assembles(frame["video"], "video", rd, file, rd, lap, units)
      BY <1>1, <1>2, <1>4, <2>2, FollowsIs
    <3> QED BY <1>3, <2>2, <3>1 DEF Assembles
  <2> QED BY <2>1, <2>2
<1>7. Filled(f, p, DataLen(p)) = Read(frame["video"], p, lap)
  BY <1>3 DEF Read, Started
<1> QED BY <1>1, <1>2, <1>4, <1>5, <1>6, <1>7 DEF Takes

LEMMA AudioIs ==
  ASSUME SendInv, PlayInv, ProcessAudio
  PROVE  Takes("audio") /\ pesLen' \in Nat /\ AudioLeft'
<1>1. /\ rd < Len(file) /\ rd' = rd + 1
      /\ UNCHANGED <<vars, sender, file, lap, out>>
      /\ LET p   == file[rd + 1]
             f   == IF p.start THEN Started(p) ELSE frame["audio"]
             l   == PesLength(p)
             len == IF l > 0 /\ DataLen(p) > l THEN l ELSE DataLen(p)
         IN  /\ p.pid = "audio"
             /\ ~Completes(p)
             /\ frame' = [frame EXCEPT !["audio"] = Filled(f, p, len)]
             /\ pesLen' = IF l > 0 THEN l - len ELSE l
  BY DEF ProcessAudio
<1>2. PICK p : p = file[rd + 1]
  OBVIOUS
<1>3. PICK f : f = IF p.start THEN Started(p) ELSE frame["audio"]
  OBVIOUS
<1>4. PICK l : l = PesLength(p)
  OBVIOUS
<1>5. PICK len : len = IF l > 0 /\ DataLen(p) > l THEN l ELSE DataLen(p)
  OBVIOUS
<1>6. p.pid = "audio" /\ ~Completes(p) /\ "audio" \in Kinds
  BY <1>1, <1>2 DEF Kinds
<1>7. /\ frame' = [frame EXCEPT !["audio"] = Filled(f, p, len)]
      /\ pesLen' = IF l > 0 THEN l - len ELSE l
  BY <1>1, <1>2, <1>3, <1>4, <1>5
<1>8. PICK n \in Nat, from \in Nat, size \in Nat :
        /\ n = DataLen(p) /\ from = p.from /\ size = units[p.unit].size
        /\ n > 0 /\ from + n <= size /\ (p.start => from = 0)
  <2>1. p \in Packets /\ Sound(p, units) /\ units \in Seq(Units)
    BY <1>1, <1>2, <1>6, NextPacket
  <2> QED BY <2>1, PacketData
<1>9. l = size - from
  <2>1. CASE p.start
    BY <1>4, <1>8, <2>1 DEF PesLength
  <2>2. CASE ~p.start
    <3>1. rd \in 1 .. Len(file) /\ GoesOn(file[rd], p)
      BY <1>1, <1>2, <1>6, <2>2, FollowsIs
    <3>2. file[rd].pid = "audio" /\ file[rd].unit = p.unit
          /\ p.from = file[rd].from + DataLen(file[rd])
      BY <1>6, <3>1 DEF GoesOn
    <3>3. pesLen = units[file[rd].unit].size - (file[rd].from + DataLen(file[rd]))
      BY <3>1, <3>2 DEF PlayInv, AudioLeft
    <3> QED BY <1>4, <1>8, <2>2, <3>2, <3>3 DEF PesLength
  <2> QED BY <2>1, <2>2
<1>10. l > 0 /\ ~(n > l) /\ l - n \in Nat /\ l - n = size - (from + n)
  BY <1>8, <1>9
<1>11. len = DataLen(p) /\ pesLen' = l - n
  BY <1>5, <1>7, <1>8, <1>10
<1>12. Filled(f, p, len) = Read(frame["audio"], p, lap)
  BY <1>3, <1>11 DEF Read, Started
<1>13. Takes("audio")
  BY <1>1, <1>2, <1>6, <1>7, <1>12 DEF Takes
<1>14. AudioLeft'
  <2>1. file'[rd'] = p /\ units' = units
    BY <1>1, <1>2 DEF sender
  <2>2. pesLen' = size - (from + n)
    BY <1>10, <1>11
  <2> QED BY <1>8, <2>1, <2>2 DEF AudioLeft, DataLen
<1> QED BY <1>10, <1>11, <1>13, <1>14

LEMMA PlayTakes ==
  ASSUME SendInv, PlayInv, NEW k \in Kinds, Takes(k), pesLen' \in Nat, AudioLeft'
  PROVE  PlayInv'
<1>1. /\ rd < Len(file) /\ file[rd + 1].pid = k
      /\ frame' = [frame EXCEPT ![k] = Read(frame[k], file[rd + 1], lap)]
      /\ rd' = rd + 1
      /\ UNCHANGED <<pc, unit, units, dropped, file, lap, out>>
  BY DEF Takes, vars, sender
<1>2. /\ file \in Seq(Packets) /\ rd \in 0 .. Len(file) /\ lap \in 0 .. 2
      /\ frame \in [Kinds -> Frames] /\ out \in Seq(Delivery)
  BY DEF PlayInv, PlayerTypes
<1>3. PICK g : g = Read(frame[k], file[rd + 1], lap)
  OBVIOUS
<1>4. g \in Frames
  <2>1. frame[k] \in Frames
    BY <1>2
  <2>2. file[rd + 1] \in Packets /\ units \in Seq(Units) /\ Sound(file[rd + 1], units)
    BY <1>1, NextPacket
  <2> QED BY <1>2, <1>3, <2>1, <2>2, ReadIs
<1>5. PlayerTypes'
  <2>1. frame' \in [Kinds -> Frames]
    BY <1>1, <1>2, <1>3, <1>4
  <2>2. rd' \in 0 .. Len(file)
    BY <1>1, <1>2
  <2> QED BY <1>1, <1>2, <2>1, <2>2 DEF PlayerTypes
<1>6. Opened'
  <2>1. lap # 0
    <3> SUFFICES ASSUME lap = 0 PROVE FALSE
      OBVIOUS
    <3>1. file = <<>>
      BY DEF PlayInv, Opened
    <3>2. Len(file) = 0
      BY <3>1
    <3> QED BY <1>1, <1>2, <3>2
  <2> QED BY <1>1, <2>1 DEF PlayInv, Opened
<1>7. FileReadable'
  BY <1>1 DEF PlayInv, FileReadable
<1>8. InHand'
  <2> SUFFICES ASSUME NEW j \in Kinds
               PROVE  Held(frame'[j], j, file, rd + 1, lap, units)
    BY <1>1 DEF InHand
  <2>1. Held(frame[j], j, file, rd, lap, units) /\ rd \in Nat
    BY <1>2 DEF PlayInv, InHand
  <2>2. CASE j = k
    <3>1. frame'[j] = Read(frame[j], file[rd + 1], lap) /\ frame[j] \in Frames
      BY <1>1, <1>2, <2>2
    <3>2. Pack(file, units, dropped) /\ units \in Seq(Units)
      BY <1>1, NextPacket
    <3>3. Held(Read(frame[j], file[rd + 1], lap), j, file, rd + 1, lap, units)
      BY <1>1, <1>2, <2>1, <2>2, <3>1, <3>2, HeldRead
    <3> QED BY <3>1, <3>3
  <2>3. CASE j # k
    <3>1. frame'[j] = frame[j]
      BY <1>1, <1>2, <2>3
    <3>2. Held(frame[j], j, file, rd + 1, lap, units)
      BY <1>1, <1>2, <2>1, <2>3, HeldSkip
    <3> QED BY <3>1, <3>2
  <2> QED BY <2>2, <2>3
<1> QED BY <1>5, <1>6, <1>7, <1>8 DEF PlayInv

LEMMA PlaySkip ==
  ASSUME PlayInv, SkipPacket PROVE PlayInv'
<1>1. /\ rd < Len(file) /\ file[rd + 1].pid \notin Kinds /\ rd' = rd + 1
      /\ UNCHANGED <<pc, unit, units, dropped, file, lap, frame, pesLen, out>>
  BY DEF SkipPacket, vars, sender
<1>2. file \in Seq(Packets) /\ rd \in 0 .. Len(file)
  BY DEF PlayInv, PlayerTypes
<1>3. PlayerTypes'
  <2>1. rd' \in 0 .. Len(file)
    BY <1>1, <1>2
  <2> QED BY <1>1, <2>1 DEF PlayInv, PlayerTypes
<1>4. Opened'
  BY <1>1 DEF PlayInv, Opened
<1>5. FileReadable'
  BY <1>1 DEF PlayInv, FileReadable
<1>6. InHand'
  <2> SUFFICES ASSUME NEW j \in Kinds
               PROVE  Held(frame[j], j, file, rd + 1, lap, units)
    BY <1>1 DEF InHand
  <2>1. Held(frame[j], j, file, rd, lap, units) /\ rd \in Nat /\ file[rd + 1].pid # j
    BY <1>1, <1>2 DEF PlayInv, InHand
  <2> QED BY <1>1, <1>2, <2>1, HeldSkip
<1>7. AudioLeft'
  BY <1>1 DEF AudioLeft, Kinds
<1> QED BY <1>3, <1>4, <1>5, <1>6, <1>7 DEF PlayInv

LEMMA PlayRewind ==
  ASSUME PlayInv, Rewind PROVE PlayInv'
<1>1. /\ lap = 1 /\ rd = Len(file) /\ rd' = 0 /\ lap' = 2
      /\ UNCHANGED <<pc, unit, units, dropped, file, frame, pesLen, out>>
  BY DEF Rewind, vars, sender
<1>2. file \in Seq(Packets) /\ rd \in 0 .. Len(file)
  BY DEF PlayInv, PlayerTypes
<1>3. PlayerTypes'
  <2>1. rd' \in 0 .. Len(file) /\ lap' \in 0 .. 2
    BY <1>1, <1>2
  <2> QED BY <1>1, <2>1 DEF PlayInv, PlayerTypes
<1>4. Opened'
  BY <1>1 DEF PlayInv, Opened
<1>5. FileReadable'
  BY <1>1 DEF PlayInv, FileReadable
<1>6. InHand'
  <2> SUFFICES ASSUME NEW j \in Kinds
               PROVE  Held(frame[j], j, file, 0, 2, units)
    BY <1>1 DEF InHand
  <2>1. Held(frame[j], j, file, Len(file), 1, units)
    BY <1>1 DEF PlayInv, InHand
  <2> QED BY <1>2, <2>1, HeldRewind
<1>7. AudioLeft'
  BY <1>1 DEF AudioLeft
<1> QED BY <1>3, <1>4, <1>5, <1>6, <1>7 DEF PlayInv

(* The frame of k that is delivered.                                       *)
Delivers(k) ==
  /\ rd < Len(file) /\ file[rd + 1].pid = k /\ file[rd + 1].start /\ frame[k].data # <<>>
  /\ out' = Append(out, [kind |-> k, lap |-> frame[k].lap, unit |-> frame[k].unit,
                         data |-> frame[k].data, pts |-> frame[k].pts])
  /\ frame' = [frame EXCEPT ![k] = EmptyFrame]
  /\ UNCHANGED <<vars, sender, rd, file, lap, pesLen>>

LEMMA DeliverIs ==
  ASSUME DeliverFrame PROVE \E k \in Kinds : Delivers(k)
BY DEF DeliverFrame, Delivers, Completes, AfterComplete

LEMMA DeliveryIs ==
  ASSUME PlayInv, NEW k \in Kinds, Delivers(k)
  PROVE  \E x \in Delivery :
           /\ x = [kind |-> k, lap |-> frame[k].lap, unit |-> frame[k].unit,
                   data |-> frame[k].data, pts |-> frame[k].pts]
           /\ x.kind = k /\ x.lap = frame[k].lap /\ x.unit = frame[k].unit
           /\ x.data = frame[k].data /\ x.pts = frame[k].pts
           /\ out \in Seq(Delivery) /\ out' = Append(out, x) /\ out' \in Seq(Delivery)
           /\ Len(out) \in Nat /\ Len(out') = Len(out) + 1 /\ out'[Len(out) + 1] = x
           /\ \A i \in 1 .. Len(out) : out'[i] = out[i]
<1>1. PICK f \in Frames : f = frame[k]
  BY DEF PlayInv, PlayerTypes
<1> DEFINE D == Seq(Pieces)
<1>2. f \in [state : {"INIT", "FILLING"}, data : D, unit : Nat, pts : Nat, lap : 0 .. 2]
  BY DEF Frames, Pieces
<1>3. Delivery = [kind : Kinds, lap : 0 .. 2, unit : Nat, data : D, pts : Nat]
  BY DEF Delivery
<1> HIDE DEF D
<1>4. PICK x : x = [kind |-> k, lap |-> f.lap, unit |-> f.unit, data |-> f.data, pts |-> f.pts]
  OBVIOUS
<1>5. /\ x \in Delivery
      /\ x.kind = k /\ x.lap = f.lap /\ x.unit = f.unit /\ x.data = f.data /\ x.pts = f.pts
  BY <1>2, <1>3, <1>4
<1>6. out \in Seq(Delivery)
  BY DEF PlayInv, PlayerTypes
<1>7. out' = Append(out, x)
  BY <1>1, <1>4 DEF Delivers
<1>8. PICK o \in Seq(Delivery) : o = out
  BY <1>6
<1>9. PICK e : e = Append(o, x)
  OBVIOUS
<1>10. /\ e \in Seq(Delivery) /\ Len(o) \in Nat /\ Len(e) = Len(o) + 1
       /\ e[Len(o) + 1] = x /\ \A i \in 1 .. Len(o) : e[i] = o[i]
  BY <1>5, <1>9, AppendProperties
<1> QED BY <1>1, <1>4, <1>5, <1>6, <1>7, <1>8, <1>9, <1>10

LEMMA PlayDeliver ==
  ASSUME PlayInv, NEW k \in Kinds, Delivers(k) PROVE PlayInv'
<1>1. /\ rd < Len(file) /\ file[rd + 1].pid = k /\ file[rd + 1].start
      /\ frame' = [frame EXCEPT ![k] = EmptyFrame]
      /\ UNCHANGED <<pc, unit, units, dropped, file, rd, lap, pesLen>>
  BY DEF Delivers, vars, sender
<1>2. file \in Seq(Packets) /\ rd \in 0 .. Len(file) /\ frame \in [Kinds -> Frames]
  BY DEF PlayInv, PlayerTypes
<1>3. PlayerTypes'
  <2>1. frame' \in [Kinds -> Frames]
    BY <1>1, <1>2, EmptyFrameIs
  <2>2. out' \in Seq(Delivery)
    BY DeliveryIs
  <2> QED BY <1>1, <2>1, <2>2 DEF PlayInv, PlayerTypes
<1>4. Opened'
  <2>1. lap # 0
    <3> SUFFICES ASSUME lap = 0 PROVE FALSE
      OBVIOUS
    <3>1. file = <<>>
      BY DEF PlayInv, Opened
    <3>2. Len(file) = 0
      BY <3>1
    <3> QED BY <1>1, <1>2, <3>2
  <2> QED BY <1>1, <2>1 DEF PlayInv, Opened
<1>5. FileReadable'
  BY <1>1 DEF PlayInv, FileReadable
<1>6. InHand'
  <2> SUFFICES ASSUME NEW j \in Kinds
               PROVE  Held(frame'[j], j, file, rd, lap, units)
    BY <1>1 DEF InHand
  <2>1. CASE j = k
    <3>1. frame'[j] = EmptyFrame
      BY <1>1, <1>2, <2>1
    <3>2. Awaits(j, file, rd)
      BY <1>1, <2>1 DEF Awaits
    <3> QED BY <3>1, <3>2 DEF Held
  <2>2. CASE j # k
    <3>1. frame'[j] = frame[j]
      BY <1>1, <1>2, <2>2
    <3> QED BY <3>1 DEF PlayInv, InHand
  <2> QED BY <2>1, <2>2
<1>7. AudioLeft'
  BY <1>1 DEF PlayInv, AudioLeft
<1> QED BY <1>3, <1>4, <1>5, <1>6, <1>7 DEF PlayInv

AllInv == StreamInv /\ PlayInv

LEMMA PlayStep == AllInv /\ [StreamNext]_allVars => PlayInv'
<1> SUFFICES ASSUME StreamInv, SendInv, PlayInv, [StreamNext]_allVars PROVE PlayInv'
  BY DEF AllInv, StreamInv
<1>1. CASE Encode \/ Packet \/ BeyondBuffer \/ WriteFrameData
  BY <1>1, PlaySender
<1>2. CASE Open
  BY <1>2, PlayOpen
<1>3. CASE DeliverFrame
  BY <1>3, DeliverIs, PlayDeliver
<1>4. CASE ProcessVideo
  <2>1. Takes("video") /\ pesLen' = pesLen
    BY <1>4, VideoIs
  <2>2. pesLen' \in Nat
    BY <2>1 DEF PlayInv, PlayerTypes
  <2>3. AudioLeft'
    <3>1. file'[rd'].pid = "video"
      BY <2>1 DEF Takes
    <3> QED BY <3>1 DEF AudioLeft
  <2>4. "video" \in Kinds
    BY DEF Kinds
  <2> QED BY <2>1, <2>2, <2>3, <2>4, PlayTakes
<1>5. CASE ProcessAudio
  <2>1. "audio" \in Kinds
    BY DEF Kinds
  <2> QED BY <1>5, <2>1, AudioIs, PlayTakes
<1>6. CASE SkipPacket
  BY <1>6, PlaySkip
<1>7. CASE Rewind
  BY <1>7, PlayRewind
<1>8. CASE UNCHANGED allVars
  <2>1. UNCHANGED <<pc, unit, units, dropped, file, rd, lap, frame, pesLen, out>>
    BY <1>8 DEF allVars, vars, sender, player
  <2> QED BY <2>1 DEF PlayInv, PlayerTypes, Opened, FileReadable, InHand, AudioLeft
<1> QED BY <1>1, <1>2, <1>3, <1>4, <1>5, <1>6, <1>7, <1>8 DEF StreamNext

LEMMA AllHolds == StreamSpec => []AllInv
<1>1. StreamInit => AllInv
  BY SendInit, PackagedInit, StreamsInit, PlayInit DEF AllInv, StreamInv
<1>2. AllInv /\ [StreamNext]_allVars => AllInv'
  BY SendStep, PackagedStep, StreamsStep, PlayStep DEF AllInv, StreamInv
<1> QED BY <1>1, <1>2, PTL DEF StreamSpec

(* Every frame the player gets is one access unit, from its first byte to  *)
(* its last, with the unit's time stamp to within 128 ticks, unless the    *)
(* unit lost packets in a full GOP or is too large for a frame: whatever   *)
(* was encoded, and wherever the player starts.                            *)
LEMMA WholeStep == AllInv /\ FramesWhole /\ [StreamNext]_allVars => FramesWhole'
<1> SUFFICES ASSUME AllInv, FramesWhole, [StreamNext]_allVars PROVE FramesWhole'
  OBVIOUS
<1>1. CASE Encode \/ Packet \/ BeyondBuffer \/ WriteFrameData
  <2>1. out' = out /\ out = <<>>
    BY <1>1, SenderFirst DEF AllInv, StreamInv
  <2>2. DOMAIN out' = {}
    BY <2>1
  <2> QED BY <2>2 DEF FramesWhole
<1>2. CASE UNCHANGED <<out, units, dropped>>
  BY <1>2 DEF FramesWhole, Fits, Whole
<1>3. CASE Open \/ ProcessVideo \/ ProcessAudio \/ SkipPacket \/ Rewind
  BY <1>2, <1>3 DEF Open, ProcessVideo, ProcessAudio, SkipPacket, Rewind, sender
<1>4. CASE UNCHANGED allVars
  BY <1>2, <1>4 DEF allVars, sender, player
<1>5. CASE DeliverFrame
  <2>1. PICK k \in Kinds : Delivers(k)
    BY <1>5, DeliverIs
  <2>2. UNCHANGED <<units, dropped>>
    BY <2>1 DEF Delivers, sender
  <2>3. PICK x \in Delivery :
          /\ x.unit = frame[k].unit /\ x.data = frame[k].data /\ x.pts = frame[k].pts
          /\ out \in Seq(Delivery) /\ out' \in Seq(Delivery)
          /\ Len(out) \in Nat /\ Len(out') = Len(out) + 1 /\ out'[Len(out) + 1] = x
          /\ \A i \in 1 .. Len(out) : out'[i] = out[i]
    BY <2>1, DeliveryIs DEF AllInv
  <2>4. PICK f \in Frames : f = frame[k]
    BY DEF AllInv, PlayInv, PlayerTypes
  <2>5. /\ f.pts \div 128 = units[f.unit].pts \div 128
        /\ f.unit \notin dropped /\ units[f.unit].size < MaxFrame =>
             Linked(f.data, f.unit) /\ Used(f.data) = units[f.unit].size
    <3>1. /\ file \in Seq(Packets) /\ units \in Seq(Units) /\ rd \in Nat
          /\ Pack(file, units, dropped) /\ Held(f, k, file, rd, lap, units)
      BY <2>4 DEF AllInv, StreamInv, SendInv, Sent, PlayInv, PlayerTypes, FileReadable,
                  Readable, InHand
    <3>2. rd < Len(file) /\ file[rd + 1].pid = k /\ file[rd + 1].start /\ f.data # <<>>
      BY <2>1, <2>4 DEF Delivers
    <3> QED BY <3>1, <3>2, HeldWhole
  <2>6. /\ Fits(x.unit) => Whole(x)
        /\ x.pts \div 128 = units[x.unit].pts \div 128
    <3>1. x.data \in Seq(Pieces)
      BY DEF Delivery
    <3>2. DOMAIN x.data = 1 .. Len(x.data)
      BY <3>1
    <3> QED BY <2>3, <2>4, <2>5, <3>2 DEF Fits, Whole, Linked
  <2>7. ASSUME NEW i \in DOMAIN out'
        PROVE  /\ Fits(out'[i].unit) => Whole(out'[i])
               /\ out'[i].pts \div 128 = units[out'[i].unit].pts \div 128
    <3>1. i \in 1 .. Len(out) + 1
      BY <2>3
    <3>2. CASE i \in 1 .. Len(out)
      <4>1. i \in DOMAIN out /\ out'[i] = out[i]
        BY <2>3, <3>2
      <4> QED BY <4>1 DEF FramesWhole
    <3>3. CASE ~(i \in 1 .. Len(out))
      <4>1. i = Len(out) + 1
        BY <2>3, <3>1, <3>3
      <4> QED BY <2>3, <2>6, <4>1
    <3> QED BY <3>2, <3>3
  <2> QED BY <2>2, <2>7 DEF FramesWhole, Fits, Whole
<1> QED BY <1>1, <1>3, <1>4, <1>5 DEF StreamNext

(* A frame the player is given has the time stamp of its unit to within    *)
(* 128 ticks, and all its bytes, unless the unit lost packets in a full    *)
(* GOP or is larger than a frame may be.                                   *)
THEOREM WholeFrames == StreamSpec => []FramesWhole
<1>1. StreamInit => FramesWhole
  BY DEF StreamInit, FramesWhole
<1> QED BY <1>1, WholeStep, AllHolds, PTL DEF StreamSpec

-----------------------------------------------------------------------------
(***************************************************************************)
(* Order.  What was delivered rises within a stream and a lap and comes    *)
(* from starts that were consumed; the frame in hand is ahead of it; and   *)
(* every start that was consumed was delivered or is in hand.              *)
(***************************************************************************)
Delivered(o, k, l, n) ==
  \E h \in 1 .. Len(o) : o[h].kind = k /\ o[h].lap = l /\ o[h].unit = n

Rising ==
  \A i, j \in 1 .. Len(out) :
    i < j /\ out[i].kind = out[j].kind /\ out[i].lap = out[j].lap =>
      out[i].unit < out[j].unit

StartOf(x, s, r, l) ==
  /\ file[s].pid = x.kind /\ file[s].start /\ file[s].unit = x.unit
  /\ x.lap = l => s <= r

FromStarts ==
  \A i \in 1 .. Len(out) :
    out[i].lap \in 1 .. lap /\ \E s \in 1 .. Len(file) : StartOf(out[i], s, rd, lap)

AheadOf(f, k, o) ==
  f.state = "FILLING" =>
    \A i \in 1 .. Len(o) : o[i].kind = k /\ o[i].lap = f.lap => o[i].unit < f.unit

Ahead == \A k \in Kinds : AheadOf(frame[k], k, out)

Carries(f, l, n) == f.state = "FILLING" /\ f.lap = l /\ f.unit = n /\ f.data # <<>>

Kept ==
  \A k \in Kinds, s \in 1 .. Len(file), l \in 1 .. lap :
    file[s].pid = k /\ file[s].start /\ (l < lap \/ s <= rd) =>
      Delivered(out, k, l, file[s].unit) \/ Carries(frame[k], l, file[s].unit)

OrderInv == Rising /\ FromStarts /\ Ahead /\ Kept

LEMMA OrderStart ==
  ASSUME out = <<>>, \A k \in Kinds : frame[k] = EmptyFrame, lap = 0 \/ (lap = 1 /\ rd = 0)
  PROVE  OrderInv
<1>1. \A i \in 1 .. Len(out) : FALSE
  OBVIOUS
<1>2. Ahead
  BY <1>1 DEF Ahead, AheadOf
<1>3. Kept
  <2>1. CASE lap = 0
    <3>1. \A l \in 1 .. 0 : FALSE
      OBVIOUS
    <3> QED BY <2>1, <3>1 DEF Kept
  <2>2. CASE lap = 1 /\ rd = 0
    <3>1. \A l \in 1 .. 1 : ~(l < 1)
      OBVIOUS
    <3>2. \A s \in 1 .. Len(file) : ~(s <= 0)
      OBVIOUS
    <3> QED BY <2>2, <3>1, <3>2 DEF Kept
  <2> QED BY <2>1, <2>2
<1> QED BY <1>1, <1>2, <1>3 DEF OrderInv, Rising, FromStarts

LEMMA OutIs ==
  ASSUME PlayInv, NEW i \in 1 .. Len(out)
  PROVE  out[i].kind \in Kinds /\ out[i].lap \in 0 .. 2 /\ out[i].unit \in Nat
<1>1. out[i] \in Delivery
  BY ElementOfSeq DEF PlayInv, PlayerTypes
<1> QED BY <1>1 DEF Delivery

LEMMA OrderTakes ==
  ASSUME MaxFrame > Space, SendInv, PlayInv, OrderInv, NEW k \in Kinds, Takes(k)
  PROVE  OrderInv'
<1>1. /\ rd < Len(file) /\ file[rd + 1].pid = k /\ ~Completes(file[rd + 1])
      /\ frame' = [frame EXCEPT ![k] = Read(frame[k], file[rd + 1], lap)]
      /\ rd' = rd + 1 /\ UNCHANGED <<file, lap, out>>
  BY DEF Takes
<1>2. /\ file \in Seq(Packets) /\ rd \in 0 .. Len(file) /\ lap \in 0 .. 2
      /\ frame \in [Kinds -> Frames] /\ Len(file) \in Nat
  BY DEF PlayInv, PlayerTypes
<1>3. PICK p \in Packets : p = file[rd + 1]
  BY <1>1, NextPacket
<1>4. PICK f \in Frames : f = frame[k]
  BY <1>2
<1>5. PICK g : g = Read(f, p, lap)
  OBVIOUS
<1>6. frame'[k] = g /\ \A j \in Kinds : j # k => frame'[j] = frame[j]
  BY <1>1, <1>2, <1>3, <1>4, <1>5
<1>7. Sound(p, units) /\ units \in Seq(Units)
  BY <1>1, <1>3, NextPacket
<1>8. DataLen(p) < MaxFrame
  <2>1. DataLen(p) \in Nat /\ DataLen(p) <= Space
    BY <1>7, PacketData
  <2>2. Space = 184 /\ MaxFrame \in Nat
    BY TsStreamAssumption DEF Space, TS_PACKET_SIZE, HeaderLength
  <2> QED BY <2>1, <2>2
<1>9. /\ p.start => /\ g.state = "FILLING" /\ g.unit = p.unit /\ g.lap = lap
                    /\ g.data # <<>> /\ f.data = <<>>
      /\ ~p.start => /\ g.state = f.state /\ g.unit = f.unit /\ g.lap = f.lap
                     /\ f.data # <<>> => g.data # <<>>
  <2>1. p.start => f.data = <<>>
    BY <1>1, <1>3, <1>4 DEF Completes
  <2>2. p.start => /\ g.state = "FILLING" /\ g.unit = p.unit /\ g.lap = lap
                   /\ DataLen(p) < MaxFrame => g.data # <<>>
    BY <1>2, <1>5, <1>7, ReadIs
  <2>3. ~p.start => /\ g.state = f.state /\ g.unit = f.unit /\ g.lap = f.lap
                    /\ f.data # <<>> => g.data # <<>>
    BY <1>2, <1>5, <1>7, ReadIs
  <2> QED BY <1>8, <2>1, <2>2, <2>3
<1>10. Rising'
  BY <1>1 DEF OrderInv, Rising
<1>11. FromStarts'
  <2> SUFFICES ASSUME NEW i \in 1 .. Len(out)
               PROVE  /\ out[i].lap \in 1 .. lap
                      /\ \E s \in 1 .. Len(file) : /\ file[s].pid = out[i].kind
                                                   /\ file[s].start
                                                   /\ file[s].unit = out[i].unit
                                                   /\ out[i].lap = lap => s <= rd + 1
    BY <1>1 DEF FromStarts, StartOf
  <2>1. /\ out[i].lap \in 1 .. lap
        /\ \E s \in 1 .. Len(file) : StartOf(out[i], s, rd, lap)
    BY DEF OrderInv, FromStarts
  <2>2. PICK s \in 1 .. Len(file) : StartOf(out[i], s, rd, lap)
    BY <2>1
  <2>3. s <= rd => s <= rd + 1
    BY <1>2
  <2> QED BY <2>1, <2>2, <2>3 DEF StartOf
<1>12. Ahead'
  <2> SUFFICES ASSUME NEW j \in Kinds, frame'[j].state = "FILLING", NEW i \in 1 .. Len(out),
                      out[i].kind = j, out[i].lap = frame'[j].lap
               PROVE  out[i].unit < frame'[j].unit
    BY <1>1 DEF Ahead, AheadOf
  <2>1. CASE j # k
    BY <1>6, <2>1 DEF OrderInv, Ahead, AheadOf
  <2>2. CASE j = k /\ p.start
    <3>1. out[i].lap = lap /\ frame'[j].unit = p.unit
      BY <1>6, <1>9, <2>2
    <3>2. PICK s \in 1 .. Len(file) : StartOf(out[i], s, rd, lap)
      BY DEF OrderInv, FromStarts
    <3>3. s <= rd /\ file[s].pid = k /\ file[s].unit = out[i].unit
      BY <2>2, <3>1, <3>2 DEF StartOf
    <3>4. PICK q \in 1 .. Len(file) : q = rd + 1
      BY <1>1, <1>2
    <3>5. s < q /\ Media(file[s]) /\ Media(file[q]) /\ file[q].start
      BY <1>1, <1>2, <1>3, <2>2, <3>3, <3>4 DEF Media
    <3>6. file[s].unit < file[q].unit
      BY <3>5 DEF PlayInv, FileReadable, Readable, Order
    <3> QED BY <1>3, <3>1, <3>3, <3>4, <3>6
  <2>3. CASE j = k /\ ~p.start
    <3>1. f.state = "FILLING" /\ out[i].lap = f.lap /\ frame'[j].unit = f.unit
      BY <1>6, <1>9, <2>3
    <3>2. out[i].unit < f.unit
      BY <1>4, <2>3, <3>1 DEF OrderInv, Ahead, AheadOf
    <3> QED BY <3>1, <3>2
  <2> QED BY <2>1, <2>2, <2>3
<1>13. Kept'
  <2> SUFFICES ASSUME NEW j \in Kinds, NEW s \in 1 .. Len(file), NEW l \in 1 .. lap,
                      file[s].pid = j, file[s].start, l < lap \/ s <= rd + 1
               PROVE  \/ Delivered(out, j, l, file[s].unit)
                      \/ Carries(frame'[j], l, file[s].unit)
    BY <1>1 DEF Kept
  <2>1. CASE l < lap \/ s <= rd
    <3>1. \/ Delivered(out, j, l, file[s].unit)
          \/ Carries(frame[j], l, file[s].unit)
      BY <2>1 DEF OrderInv, Kept
    <3>2. CASE Carries(frame[j], l, file[s].unit)
      <4>1. CASE j # k
        BY <1>6, <3>2, <4>1
      <4>2. CASE j = k
        <5>1. Carries(f, l, file[s].unit)
          BY <1>4, <3>2, <4>2
        <5>2. ~p.start
          BY <1>9, <5>1 DEF Carries
        <5>3. Carries(g, l, file[s].unit)
          BY <1>9, <5>1, <5>2 DEF Carries
        <5> QED BY <1>6, <4>2, <5>3
      <4> QED BY <4>1, <4>2
    <3> QED BY <3>1, <3>2
  <2>2. CASE ~(l < lap) /\ ~(s <= rd)
    <3>1. l = lap /\ s = rd + 1
      BY <1>2, <2>2
    <3>2. j = k /\ p.start /\ p.unit = file[s].unit
      BY <1>1, <1>3, <3>1
    <3>3. Carries(g, l, file[s].unit)
      BY <1>9, <3>1, <3>2 DEF Carries
    <3> QED BY <1>6, <3>2, <3>3
  <2> QED BY <2>1, <2>2
<1> QED BY <1>10, <1>11, <1>12, <1>13 DEF OrderInv

LEMMA OrderSkip ==
  ASSUME PlayInv, OrderInv, SkipPacket PROVE OrderInv'
<1>1. /\ rd < Len(file) /\ file[rd + 1].pid \notin Kinds /\ rd' = rd + 1
      /\ UNCHANGED <<file, lap, frame, out>>
  BY DEF SkipPacket
<1>2. rd \in 0 .. Len(file) /\ Len(file) \in Nat
  BY DEF PlayInv, PlayerTypes
<1>3. \A s \in 1 .. Len(file) : s <= rd => s <= rd + 1
  BY <1>2
<1>4. FromStarts'
  <2> SUFFICES ASSUME NEW i \in 1 .. Len(out)
               PROVE  /\ out[i].lap \in 1 .. lap
                      /\ \E s \in 1 .. Len(file) : /\ file[s].pid = out[i].kind
                                                   /\ file[s].start
                                                   /\ file[s].unit = out[i].unit
                                                   /\ out[i].lap = lap => s <= rd + 1
    BY <1>1 DEF FromStarts, StartOf
  <2>1. out[i].lap \in 1 .. lap
    BY DEF OrderInv, FromStarts
  <2>2. PICK s \in 1 .. Len(file) : StartOf(out[i], s, rd, lap)
    BY DEF OrderInv, FromStarts
  <2> QED BY <1>3, <2>1, <2>2 DEF StartOf
<1>5. Kept'
  <2> SUFFICES ASSUME NEW j \in Kinds, NEW s \in 1 .. Len(file), NEW l \in 1 .. lap,
                      file[s].pid = j, file[s].start, l < lap \/ s <= rd + 1
               PROVE  \/ Delivered(out, j, l, file[s].unit)
                      \/ Carries(frame[j], l, file[s].unit)
    BY <1>1 DEF Kept
  <2>1. s # rd + 1
    BY <1>1
  <2>2. l < lap \/ s <= rd
    BY <1>2, <2>1
  <2> QED BY <2>2 DEF OrderInv, Kept
<1> QED BY <1>1, <1>4, <1>5 DEF OrderInv, Rising, Ahead

LEMMA OrderRewind ==
  ASSUME PlayInv, OrderInv, Rewind PROVE OrderInv'
<1>1. /\ lap = 1 /\ rd = Len(file) /\ rd' = 0 /\ lap' = 2
      /\ UNCHANGED <<file, frame, out>>
  BY DEF Rewind
<1>2. FromStarts'
  <2> SUFFICES ASSUME NEW i \in 1 .. Len(out)
               PROVE  /\ out[i].lap \in 1 .. 2
                      /\ \E s \in 1 .. Len(file) : /\ file[s].pid = out[i].kind
                                                   /\ file[s].start
                                                   /\ file[s].unit = out[i].unit
                                                   /\ out[i].lap = 2 => s <= 0
    BY <1>1 DEF FromStarts, StartOf
  <2>1. out[i].lap \in 1 .. 1
    BY <1>1 DEF OrderInv, FromStarts
  <2>2. PICK s \in 1 .. Len(file) : StartOf(out[i], s, rd, lap)
    BY DEF OrderInv, FromStarts
  <2>3. out[i].lap \in 1 .. 2 /\ out[i].lap # 2
    BY <2>1
  <2> QED BY <2>2, <2>3 DEF StartOf
<1>3. Kept'
  <2> SUFFICES ASSUME NEW j \in Kinds, NEW s \in 1 .. Len(file), NEW l \in 1 .. 2,
                      file[s].pid = j, file[s].start, l < 2 \/ s <= 0
               PROVE  \/ Delivered(out, j, l, file[s].unit)
                      \/ Carries(frame[j], l, file[s].unit)
    BY <1>1 DEF Kept
  <2>1. l = 1 /\ l \in 1 .. lap
    BY <1>1
  <2>2. s <= rd
    BY <1>1
  <2> QED BY <2>1, <2>2 DEF OrderInv, Kept
<1> QED BY <1>1, <1>2, <1>3 DEF OrderInv, Rising, Ahead

LEMMA OrderDeliver ==
  ASSUME SendInv, PlayInv, OrderInv, NEW k \in Kinds, Delivers(k) PROVE OrderInv'
<1>1. /\ rd < Len(file) /\ file[rd + 1].pid = k /\ file[rd + 1].start
      /\ frame[k].data # <<>>
      /\ frame' = [frame EXCEPT ![k] = EmptyFrame]
      /\ UNCHANGED <<file, rd, lap>>
  BY DEF Delivers
<1>2. /\ file \in Seq(Packets) /\ rd \in 0 .. Len(file) /\ lap \in 0 .. 2
      /\ frame \in [Kinds -> Frames] /\ Len(file) \in Nat
  BY DEF PlayInv, PlayerTypes
<1>3. PICK f \in Frames : f = frame[k]
  BY <1>2
<1>4. f.state = "FILLING" /\ \E m \in 1 .. Len(file) : Assembles(f, k, m, file, rd, lap, units)
  <2>1. units \in Seq(Units) /\ Pack(file, units, dropped) /\ rd \in Nat
    BY <1>1, NextPacket
  <2>2. Held(f, k, file, rd, lap, units)
    BY <1>3 DEF PlayInv, InHand
  <2> QED BY <1>1, <1>2, <1>3, <2>1, <2>2, HeldWhole
<1>5. PICK m \in 1 .. Len(file) : Assembles(f, k, m, file, rd, lap, units)
  BY <1>4
<1>6. PICK n \in Nat : n = Len(out)
  BY DEF PlayInv, PlayerTypes
<1>7. PICK x \in Delivery :
        /\ x.kind = k /\ x.lap = f.lap /\ x.unit = f.unit
        /\ Len(out') = n + 1 /\ out'[n + 1] = x /\ \A i \in 1 .. n : out'[i] = out[i]
  BY <1>3, <1>6, DeliveryIs
<1>8. frame'[k] = EmptyFrame /\ \A j \in Kinds : j # k => frame'[j] = frame[j]
  BY <1>1, <1>2
<1>9. \A i \in 1 .. n + 1 : i \in 1 .. n \/ i = n + 1
  OBVIOUS
<1>10. lap \in 1 .. 2
  <2>1. lap # 0
    <3> SUFFICES ASSUME lap = 0 PROVE FALSE
      OBVIOUS
    <3>1. file = <<>>
      BY DEF PlayInv, Opened
    <3>2. Len(file) = 0
      BY <3>1
    <3> QED BY <1>1, <1>2, <3>2
  <2> QED BY <1>2, <2>1
<1>11. x.lap \in 1 .. lap /\ \E s \in 1 .. Len(file) : StartOf(x, s, rd, lap)
  <2>1. PICK s \in 1 .. m : file[s].pid = k /\ file[s].start /\ file[s].unit = file[m].unit
    BY <1>5 DEF Assembles
  <2>2. /\ x.unit = file[m].unit /\ x.lap = IF m <= rd THEN lap ELSE 1
        /\ m > rd => lap = 2
    BY <1>5, <1>7 DEF Assembles, Gathered, Latest
  <2>3. x.lap = lap => s <= rd
    BY <1>2, <2>2
  <2>4. s \in 1 .. Len(file)
    OBVIOUS
  <2>5. x.lap \in 1 .. lap
    BY <1>10, <2>2
  <2> QED BY <1>7, <2>1, <2>2, <2>3, <2>4, <2>5 DEF StartOf
<1>12. \A i \in 1 .. n : out[i].kind = k /\ out[i].lap = x.lap => out[i].unit < x.unit
  BY <1>3, <1>4, <1>6, <1>7 DEF OrderInv, Ahead, AheadOf
<1>13. Rising'
  <2> SUFFICES ASSUME NEW i \in 1 .. n + 1, NEW j \in 1 .. n + 1, i < j,
                      out'[i].kind = out'[j].kind, out'[i].lap = out'[j].lap
               PROVE  out'[i].unit < out'[j].unit
    BY <1>7 DEF Rising
  <2>1. i \in 1 .. n /\ out'[i] = out[i]
    <3>1. i \in 1 .. n
      OBVIOUS
    <3> QED BY <1>7, <3>1
  <2>2. CASE j \in 1 .. n
    <3>1. out'[j] = out[j]
      BY <1>7, <2>2
    <3> QED BY <1>6, <2>1, <2>2, <3>1 DEF OrderInv, Rising
  <2>3. CASE j = n + 1
    BY <1>7, <1>12, <2>1, <2>3
  <2> QED BY <1>9, <2>2, <2>3
<1>14. FromStarts'
  <2> SUFFICES ASSUME NEW i \in 1 .. n + 1
               PROVE  /\ out'[i].lap \in 1 .. lap
                      /\ \E s \in 1 .. Len(file) : StartOf(out'[i], s, rd, lap)
    BY <1>1, <1>7 DEF FromStarts, StartOf
  <2>1. CASE i \in 1 .. n
    BY <1>6, <1>7, <2>1 DEF OrderInv, FromStarts
  <2>2. CASE i = n + 1
    BY <1>7, <1>11, <2>2
  <2> QED BY <1>9, <2>1, <2>2
<1>15. Ahead'
  <2> SUFFICES ASSUME NEW j \in Kinds, frame'[j].state = "FILLING", NEW i \in 1 .. n + 1,
                      out'[i].kind = j, out'[i].lap = frame'[j].lap
               PROVE  out'[i].unit < frame'[j].unit
    BY <1>7 DEF Ahead, AheadOf
  <2>1. j # k
    BY <1>8 DEF EmptyFrame
  <2>2. frame'[j] = frame[j]
    BY <1>8, <2>1
  <2>3. i # n + 1
    BY <1>7, <2>1
  <2>4. i \in 1 .. n /\ out'[i] = out[i]
    BY <1>7, <2>3
  <2> QED BY <1>6, <2>2, <2>4 DEF OrderInv, Ahead, AheadOf
<1>16. Kept'
  <2> SUFFICES ASSUME NEW j \in Kinds, NEW s \in 1 .. Len(file), NEW l \in 1 .. lap,
                      file[s].pid = j, file[s].start, l < lap \/ s <= rd
               PROVE  \/ Delivered(out', j, l, file[s].unit)
                      \/ Carries(frame'[j], l, file[s].unit)
    BY <1>1 DEF Kept
  <2>1. \/ Delivered(out, j, l, file[s].unit)
        \/ Carries(frame[j], l, file[s].unit)
    BY DEF OrderInv, Kept
  <2>2. CASE Delivered(out, j, l, file[s].unit)
    <3>1. PICK h \in 1 .. n : out[h].kind = j /\ out[h].lap = l /\ out[h].unit = file[s].unit
      BY <1>6, <2>2 DEF Delivered
    <3>2. h \in 1 .. n + 1 /\ out'[h] = out[h]
      BY <1>7
    <3>3. Delivered(out', j, l, file[s].unit)
      BY <1>7, <3>1, <3>2 DEF Delivered
    <3> QED BY <3>3
  <2>3. CASE Carries(frame[j], l, file[s].unit)
    <3>1. CASE j = k
      <4>1. x.kind = j /\ x.lap = l /\ x.unit = file[s].unit
        BY <1>3, <1>7, <2>3, <3>1 DEF Carries
      <4>2. n + 1 \in 1 .. n + 1
        OBVIOUS
      <4>3. Delivered(out', j, l, file[s].unit)
        BY <1>7, <4>1, <4>2 DEF Delivered
      <4> QED BY <4>3
    <3>2. CASE j # k
      BY <1>8, <2>3, <3>2
    <3> QED BY <3>1, <3>2
  <2> QED BY <2>1, <2>2, <2>3
<1> QED BY <1>13, <1>14, <1>15, <1>16 DEF OrderInv

LEMMA OrderStep ==
  MaxFrame > Space /\ AllInv /\ OrderInv /\ [StreamNext]_allVars => OrderInv'
<1> SUFFICES ASSUME MaxFrame > Space, StreamInv, SendInv, PlayInv, OrderInv,
                    [StreamNext]_allVars
             PROVE  OrderInv'
  BY DEF AllInv, StreamInv
<1>1. CASE Encode \/ Packet \/ BeyondBuffer \/ WriteFrameData
  <2>1. /\ UNCHANGED <<rd, lap, frame, out>> /\ lap = 0 /\ out = <<>>
        /\ \A k \in Kinds : frame[k] = EmptyFrame
    BY <1>1, SenderFirst
  <2>2. UNCHANGED file
    BY <1>1, SenderFirst
  <2>3. Rising' /\ Ahead'
    BY <2>1 DEF OrderInv, Rising, Ahead
  <2>4. FromStarts' /\ Kept'
    BY <2>1, <2>2 DEF OrderInv, FromStarts, StartOf, Kept
  <2> QED BY <2>3, <2>4 DEF OrderInv
<1>2. CASE Open
  <2>1. /\ lap = 0 /\ lap' = 1 /\ UNCHANGED <<rd, frame, out>>
    BY <1>2 DEF Open
  <2>2. file = <<>> /\ out = <<>> /\ \A k \in Kinds : frame[k] = EmptyFrame
    BY <2>1 DEF PlayInv, Opened
  <2>3. rd = 0
    BY <2>2 DEF PlayInv, PlayerTypes
  <2>4. \A i \in 1 .. Len(out) : FALSE
    BY <2>2
  <2>5. Rising' /\ FromStarts' /\ Ahead'
    BY <2>1, <2>4 DEF Rising, FromStarts, Ahead, AheadOf
  <2>6. Kept'
    <3>1. \A l \in 1 .. 1 : ~(l < 1)
      OBVIOUS
    <3>2. \A n \in Nat : \A s \in 1 .. n : ~(s <= 0)
      OBVIOUS
    <3>3. Len(file') \in Nat
      BY <1>2, PlayOpen DEF PlayInv, PlayerTypes
    <3> QED BY <2>1, <2>3, <3>1, <3>2, <3>3 DEF Kept
  <2> QED BY <2>5, <2>6 DEF OrderInv
<1>3. CASE DeliverFrame
  BY <1>3, DeliverIs, OrderDeliver
<1>4. CASE ProcessVideo
  <2>1. "video" \in Kinds
    BY DEF Kinds
  <2> QED BY <1>4, <2>1, VideoIs, OrderTakes
<1>5. CASE ProcessAudio
  <2>1. "audio" \in Kinds
    BY DEF Kinds
  <2> QED BY <1>5, <2>1, AudioIs, OrderTakes
<1>6. CASE SkipPacket
  BY <1>6, OrderSkip
<1>7. CASE Rewind
  BY <1>7, OrderRewind
<1>8. CASE UNCHANGED allVars
  <2>1. UNCHANGED <<file, rd, lap, frame, out>>
    BY <1>8 DEF allVars, player
  <2> QED BY <2>1 DEF OrderInv, Rising, FromStarts, StartOf, Ahead, Kept
<1> QED BY <1>1, <1>2, <1>3, <1>4, <1>5, <1>6, <1>7, <1>8 DEF StreamNext

LEMMA OrderIs == AllInv /\ OrderInv => FramesInOrder
<1> SUFFICES ASSUME AllInv, SendInv, PlayInv, OrderInv PROVE FramesInOrder
  BY DEF AllInv, StreamInv
<1>1. DOMAIN out = 1 .. Len(out) /\ Len(out) \in Nat
  BY DEF PlayInv, PlayerTypes
<1> SUFFICES ASSUME NEW i \in 1 .. Len(out), NEW j \in 1 .. Len(out), i < j,
                    out[i].kind = out[j].kind, out[i].lap = out[j].lap
             PROVE  /\ out[i].unit < out[j].unit
                    /\ \A n \in (out[i].unit + 1) .. (out[j].unit - 1) :
                         units[n].kind = out[j].kind /\ n \notin dropped =>
                           \E h \in i .. j : out[h].unit = n
  BY <1>1 DEF FramesInOrder
<1>2. out[i].unit < out[j].unit
  BY DEF OrderInv, Rising
<1>3. /\ out[i].unit \in Nat /\ out[j].unit \in Nat /\ out[j].kind \in Kinds
  BY OutIs
<1>4. ASSUME NEW n \in (out[i].unit + 1) .. (out[j].unit - 1),
             units[n].kind = out[j].kind, n \notin dropped
      PROVE  \E h \in i .. j : out[h].unit = n
  <2>1. PICK k \in Kinds : k = out[j].kind
    BY <1>3
  <2>2. PICK l : l = out[j].lap
    OBVIOUS
  <2>3. PICK a \in 1 .. Len(file) : StartOf(out[i], a, rd, lap)
    BY DEF OrderInv, FromStarts
  <2>4. PICK b \in 1 .. Len(file) : StartOf(out[j], b, rd, lap)
    BY DEF OrderInv, FromStarts
  <2>5. Media(file[a]) /\ Media(file[b])
    BY <1>3, <2>3, <2>4 DEF StartOf, Media
  <2>6. file[a].unit = out[i].unit /\ file[b].unit = out[j].unit
    BY <2>3, <2>4 DEF StartOf
  <2>7. n \in file[a].unit .. file[b].unit
    BY <1>3, <2>6
  <2>8. Has(file, n)
    BY <1>4, <2>5, <2>7 DEF PlayInv, FileReadable, Readable, Between
  <2>9. PICK s \in 1 .. Len(file) : Media(file[s]) /\ file[s].start /\ file[s].unit = n
    BY <2>8 DEF Has
  <2>10. file[s].pid = k
    <3>1. Sound(file[s], units)
      BY <2>9 DEF PlayInv, FileReadable, Readable, Pack
    <3> QED BY <1>4, <2>1, <2>9, <3>1 DEF Sound
  <2>11. n < out[j].unit /\ out[i].unit < n /\ n \in Nat
    <3>1. PICK x \in Nat, y \in Nat : x = out[i].unit /\ y = out[j].unit
      BY <1>3
    <3>2. n \in (x + 1) .. (y - 1)
      BY <3>1
    <3>3. n < y /\ x < n /\ n \in Nat
      BY <3>2
    <3> QED BY <3>1, <3>3
  <2>12. s < b
    <3>1. s # b
      BY <2>6, <2>9, <2>11, <1>3
    <3>2. ~(b < s)
      <4> SUFFICES ASSUME b < s PROVE FALSE
        OBVIOUS
      <4>1. file[b].unit <= file[s].unit
        BY <2>5, <2>9 DEF PlayInv, FileReadable, Readable, Order
      <4> QED BY <1>3, <2>6, <2>9, <2>11, <4>1
    <3>3. s \in Int /\ b \in Int
      OBVIOUS
    <3> QED BY <3>1, <3>2, <3>3
  <2>13. l \in 1 .. lap /\ (l < lap \/ s <= rd)
    <3>1. l \in 1 .. lap /\ lap \in 0 .. 2 /\ rd \in 0 .. Len(file)
      BY <2>2 DEF OrderInv, FromStarts, PlayInv, PlayerTypes
    <3>2. l = lap => b <= rd
      BY <2>2, <2>4 DEF StartOf
    <3>3. Len(file) \in Nat
      BY DEF PlayInv, PlayerTypes
    <3> QED BY <2>12, <3>1, <3>2, <3>3
  <2>14. Delivered(out, k, l, n) \/ Carries(frame[k], l, n)
    BY <2>9, <2>10, <2>13 DEF OrderInv, Kept
  <2>15. ~Carries(frame[k], l, n)
    <3> SUFFICES ASSUME Carries(frame[k], l, n) PROVE FALSE
      OBVIOUS
    <3>1. frame[k].state = "FILLING" /\ frame[k].lap = l /\ frame[k].unit = n
      BY DEF Carries
    <3>2. out[j].unit < n
      BY <2>1, <2>2, <3>1 DEF OrderInv, Ahead, AheadOf
    <3> QED BY <1>3, <2>11, <3>2
  <2>16. PICK h \in 1 .. Len(out) : out[h].kind = k /\ out[h].lap = l /\ out[h].unit = n
    BY <2>14, <2>15 DEF Delivered
  <2>17. ~(h < i)
    <3> SUFFICES ASSUME h < i PROVE FALSE
      OBVIOUS
    <3>1. out[h].unit < out[i].unit
      BY <2>1, <2>2, <2>16 DEF OrderInv, Rising
    <3> QED BY <1>3, <2>11, <2>16, <3>1
  <2>18. ~(j < h)
    <3> SUFFICES ASSUME j < h PROVE FALSE
      OBVIOUS
    <3>1. out[j].unit < out[h].unit
      BY <2>1, <2>2, <2>16 DEF OrderInv, Rising
    <3> QED BY <1>3, <2>11, <2>16, <3>1
  <2>19. h \in i .. j
    BY <2>17, <2>18
  <2> QED BY <2>16, <2>19
<1> QED BY <1>2, <1>4

(* Frames of a stream come in the order in which they were encoded, with   *)
(* none missing that made it into its GOP, on both laps of the player, if  *)
(* a frame has room for the data of one packet: in the code it has 2 MB.   *)
THEOREM OrderedFrames ==
  ASSUME MaxFrame > Space PROVE StreamSpec => []FramesInOrder
<1>1. StreamInit => OrderInv
  <2> SUFFICES ASSUME StreamInit PROVE OrderInv
    OBVIOUS
  <2>1. out = <<>> /\ lap = 0 /\ \A k \in Kinds : frame[k] = EmptyFrame
    BY DEF StreamInit
  <2> QED BY <2>1, OrderStart
<1>2. AllInv /\ OrderInv /\ [StreamNext]_allVars => OrderInv'
  BY OrderStep
<1>3. AllInv /\ OrderInv => FramesInOrder
  BY OrderIs
<1> QED BY <1>1, <1>2, <1>3, AllHolds, PTL DEF StreamSpec

-----------------------------------------------------------------------------
(* No GOP and no frame outgrows its buffer.                                *)
Bounded ==
  /\ Under(gop)
  /\ \A i \in 1 .. Len(gops) : Under(gops[i])
  /\ \A k \in Kinds : Used(frame[k].data) < MaxFrame

LEMMA BoundedInit == StreamInit => Bounded
<1> SUFFICES ASSUME StreamInit PROVE Bounded
  OBVIOUS
<1>1. gop = <<>> /\ gops = <<>> /\ frame = [k \in Kinds |-> EmptyFrame]
  BY DEF StreamInit
<1>2. Len(gop) = 0 /\ \A i \in 1 .. Len(gops) : FALSE
  BY <1>1
<1>3. GopSize \in Nat \ {0} /\ MaxFrame \in Nat \ {0}
  BY TsStreamAssumption
<1>4. Under(gop)
  BY <1>2, <1>3 DEF Under, TS_PACKET_SIZE
<1>5. ASSUME NEW k \in Kinds PROVE Used(frame[k].data) < MaxFrame
  <2>1. frame[k].data = <<>>
    BY <1>1 DEF EmptyFrame
  <2> QED BY <1>3, <2>1, UsedEmpty
<1> QED BY <1>2, <1>4, <1>5 DEF Bounded

LEMMA BoundedWrite ==
  ASSUME SendInv, Packaged, Bounded, WriteFrameData PROVE Bounded'
<1>1. PICK m \in 0 .. Len(buf) : Written(m)
  BY WriteIs
<1>2. /\ Before \in Seq(Packets) /\ gop' = Before \o SubSeq(buf, 1, m)
      /\ m > 0 => Under(gop')
      /\ gops' = IF NewGop /\ gop # <<>> THEN Append(gops, gop) ELSE gops
      /\ UNCHANGED frame
  BY <1>1, WriteIs DEF Written, player
<1>3. Under(Before)
  <2>1. Under(<<>>)
    <3>1. Len(<<>>) = 0
      OBVIOUS
    <3> QED BY <3>1, TsStreamAssumption DEF Under, TS_PACKET_SIZE
  <2> QED BY <2>1 DEF Before, Bounded
<1>4. Under(gop')
  <2>1. CASE m = 0
    <3>1. SubSeq(buf, 1, m) = <<>>
      BY <2>1, SubSeqEmpty
    <3>2. gop' = Before
      BY <1>2, <3>1, ConcatEmptySeq
    <3> QED BY <1>3, <3>2
  <2>2. CASE m # 0
    <3>1. m > 0
      BY <2>2, WriteIs
    <3> QED BY <1>2, <3>1
  <2> QED BY <2>1, <2>2
<1>5. ASSUME NEW i \in 1 .. Len(gops') PROVE Under(gops'[i])
  <2>1. CASE gops' = gops
    BY <1>5, <2>1 DEF Bounded
  <2>2. CASE gops' = Append(gops, gop)
    <3>1. PICK q \in Seq(Seq(Packets)) : q = gops
      BY DEF Packaged
    <3>2. /\ Len(gops') = Len(q) + 1 /\ gops'[Len(q) + 1] = gop /\ Len(q) \in Nat
          /\ \A j \in 1 .. Len(q) : gops'[j] = q[j]
      BY <2>2, <3>1, AppendProperties DEF Packaged
    <3>3. i = Len(q) + 1 \/ i \in 1 .. Len(q)
      BY <1>5, <3>2
    <3> QED BY <3>1, <3>2, <3>3 DEF Bounded
  <2> QED BY <1>2, <2>1, <2>2
<1> QED BY <1>2, <1>4, <1>5 DEF Bounded

LEMMA BoundedTakes ==
  ASSUME SendInv, PlayInv, Bounded, NEW k \in Kinds, Takes(k) PROVE Bounded'
<1>1. /\ rd < Len(file) /\ file[rd + 1].pid = k /\ UNCHANGED <<gop, gops>>
      /\ frame' = [frame EXCEPT ![k] = Read(frame[k], file[rd + 1], lap)]
  BY DEF Takes, sender
<1>2. PICK p \in Packets : p = file[rd + 1] /\ Sound(p, units) /\ units \in Seq(Units)
  BY <1>1, NextPacket
<1>3. frame \in [Kinds -> Frames] /\ lap \in 0 .. 2
  BY DEF PlayInv, PlayerTypes
<1>4. PICK n \in Nat : n = DataLen(p)
  BY <1>2, PacketData
<1>5. PICK b \in Frames :
        b = [state |-> "FILLING", data |-> <<>>, unit |-> p.unit, pts |-> PtsRead(p.pts),
             lap |-> lap]
  BY <1>3, StartedIs
<1>6. PICK h \in Frames : h = IF p.start THEN b ELSE frame[k]
  BY <1>3
<1>7. PICK g : g = Filled(h, p, n)
  OBVIOUS
<1>8. frame'[k] = g /\ \A j \in Kinds : j # k => frame'[j] = frame[j]
  BY <1>1, <1>2, <1>3, <1>4, <1>5, <1>6, <1>7 DEF Read
<1>9. PICK x \in Pieces :
        /\ x.len = n /\ h.data \in Seq(Pieces)
        /\ Used(h.data) < MaxFrame - n => g.data = Append(h.data, x)
        /\ ~(Used(h.data) < MaxFrame - n) => g = h
  <2>1. PICK x : x = [unit |-> p.unit, from |-> p.from, len |-> n]
    OBVIOUS
  <2>2. /\ h.data \in Seq(Pieces) /\ x \in Pieces
        /\ Used(h.data) < MaxFrame - n => g.data = Append(h.data, x)
        /\ ~(Used(h.data) < MaxFrame - n) => g = h
    BY <1>7, <2>1, FilledIs
  <2>3. x.len = n
    BY <2>1
  <2> QED BY <2>2, <2>3
<1>10. Used(h.data) < MaxFrame /\ MaxFrame \in Nat
  <2>1. b.data = <<>>
    BY <1>5
  <2>2. Used(b.data) < MaxFrame
    BY <2>1, UsedEmpty, TsStreamAssumption
  <2> QED BY <1>6, <2>2, TsStreamAssumption DEF Bounded
<1>11. Used(g.data) < MaxFrame
  <2>1. CASE Used(h.data) < MaxFrame - n
    <3>1. g.data = Append(h.data, x)
      BY <1>9, <2>1
    <3>2. PICK e \in Seq(Pieces) : e = h.data
      BY <1>9
    <3>3. Used(e) \in Nat /\ Used(Append(e, x)) = Used(e) + n
      BY <1>9, UsedAppend
    <3>4. Used(e) + n < MaxFrame
      BY <1>10, <2>1, <3>2, <3>3
    <3> QED BY <3>1, <3>2, <3>3, <3>4
  <2>2. CASE ~(Used(h.data) < MaxFrame - n)
    BY <1>9, <1>10, <2>2
  <2> QED BY <2>1, <2>2
<1>12. ASSUME NEW j \in Kinds PROVE Used(frame'[j].data) < MaxFrame
  BY <1>8, <1>11 DEF Bounded
<1> QED BY <1>1, <1>12 DEF Bounded

LEMMA BoundedStep == AllInv /\ Bounded /\ [StreamNext]_allVars => Bounded'
<1> SUFFICES ASSUME StreamInv, SendInv, Packaged, PlayInv, Bounded, [StreamNext]_allVars
             PROVE  Bounded'
  BY DEF AllInv, StreamInv
<1>1. CASE UNCHANGED <<gop, gops, frame>>
  BY <1>1 DEF Bounded
<1>2. CASE Encode \/ Packet \/ BeyondBuffer \/ Open \/ SkipPacket \/ Rewind \/ UNCHANGED allVars
  <2>1. UNCHANGED <<gop, gops, frame>>
    BY <1>2 DEF Encode, Packet, BeyondBuffer, Open, SkipPacket, Rewind, allVars, sender, player
  <2> QED BY <1>1, <2>1
<1>3. CASE WriteFrameData
  BY <1>3, BoundedWrite
<1>4. CASE ProcessVideo
  <2>1. "video" \in Kinds
    BY DEF Kinds
  <2> QED BY <1>4, <2>1, VideoIs, BoundedTakes
<1>5. CASE ProcessAudio
  <2>1. "audio" \in Kinds
    BY DEF Kinds
  <2> QED BY <1>5, <2>1, AudioIs, BoundedTakes
<1>6. CASE DeliverFrame
  <2>1. PICK k \in Kinds : Delivers(k)
    BY <1>6, DeliverIs
  <2>2. UNCHANGED <<gop, gops>> /\ frame' = [frame EXCEPT ![k] = EmptyFrame]
    BY <2>1 DEF Delivers, sender
  <2>3. frame \in [Kinds -> Frames]
    BY DEF PlayInv, PlayerTypes
  <2>4. ASSUME NEW j \in Kinds PROVE Used(frame'[j].data) < MaxFrame
    <3>1. CASE j = k
      <4>1. frame'[j].data = <<>>
        BY <2>2, <2>3, <3>1 DEF EmptyFrame
      <4> QED BY <4>1, UsedEmpty, TsStreamAssumption
    <3>2. CASE j # k
      <4>1. frame'[j] = frame[j]
        BY <2>2, <2>3, <3>2
      <4> QED BY <4>1 DEF Bounded
    <3> QED BY <3>1, <3>2
  <2> QED BY <2>2, <2>4 DEF Bounded
<1> QED BY <1>2, <1>3, <1>4, <1>5, <1>6 DEF StreamNext

LEMMA TypesAre == AllInv /\ Bounded => StreamTypeOK
<1> SUFFICES ASSUME AllInv, Bounded PROVE StreamTypeOK
  OBVIOUS
<1>1. TypeOK /\ gop \in Seq(Packets) /\ gops \in Seq(Seq(Packets))
  BY DEF AllInv, StreamInv, SendInv, Inv, Packaged
<1>2. PlayerTypes
  BY DEF AllInv, PlayInv
<1>3. ASSUME NEW g \in ToSet(gops) \union {gop}
      PROVE  g \in Seq(Packets) /\ TS_PACKET_SIZE * Len(g) < GopSize
  <2>1. CASE g = gop
    BY <1>1, <2>1 DEF Bounded, Under
  <2>2. CASE g \in ToSet(gops)
    <3>1. PICK i \in DOMAIN gops : g = gops[i]
      BY <2>2 DEF ToSet
    <3>2. i \in 1 .. Len(gops)
      BY <1>1
    <3>3. gops[i] \in Seq(Packets)
      BY <1>1, <3>2, ElementOfSeq
    <3> QED BY <3>1, <3>2, <3>3 DEF Bounded, Under
  <2> QED BY <2>1, <2>2
<1> QED BY <1>1, <1>2, <1>3 DEF StreamTypeOK, PlayerTypes, Bounded

(* From the encoder to the player the state keeps its types: no GOP        *)
(* outgrows its buffer, no frame its own, whatever is encoded.             *)
THEOREM StreamTypes == StreamSpec => []StreamTypeOK
BY AllHolds, BoundedInit, BoundedStep, TypesAre, PTL DEF StreamSpec
=============================================================================
