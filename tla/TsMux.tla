------------------------------- MODULE TsMux -------------------------------
(***************************************************************************)
(* The transport stream multiplexer CTsMux (tsmux/SimpleTsMux.cpp): Mux    *)
(* turns an access unit into packets of 188 bytes, the clock (PCR) and the *)
(* tables (PAT, PMT) in front of them when they are due.                   *)
(*                                                                         *)
(* A packet carries the bytes of its unit from `from' on; how many, a      *)
(* reader works out from the lengths of padding and PES header in it.      *)
(* Continuity counters and the contents of the tables are left out.  The   *)
(* class is not safe for two threads: calls follow one another here.       *)
(***************************************************************************)
EXTENDS Integers, Sequences

CONSTANTS
  Sizes,     \* sizes of access units, in bytes
  PtsSteps,  \* from the time stamp of a unit to that of the next, in ticks
  PtsLags,   \* the same, where the next is of the other kind and behind
  BufferSize, \* MAX_TS_BUFFER_SIZE of the caller's m_pTsBuffer, in bytes
  MaxUnits   \* bound: access units that are sent

ASSUME TsMuxAssumption ==
  /\ Sizes \subseteq Nat \ {0}
  /\ PtsSteps \subseteq Nat /\ PtsLags \subseteq Nat
  /\ MaxUnits \in Nat
  /\ BufferSize \in Nat /\ BufferSize >= 3 * 188  \* clock and tables fit

TS_PACKET_SIZE == 188
HeaderLength   == 4      \* m_TSHeaderLength and the byte of the counter
PCR_PERIOD     == 9000   \* 100 ms
PSI_PERIOD     == 18000  \* 200 ms
PcrPtsDelay    == 18000  \* mPCR_PTS_Delay

Kinds == {"video", "audio"}
NoUnit == [n |-> 0, kind |-> "video", size |-> 0, pts |-> 0, sps |-> FALSE]
Units == [n : Nat, kind : Kinds, size : Nat, pts : Nat, sps : BOOLEAN]
Packets ==
  [pid : Kinds \union {"pcr", "pat", "pmt"}, unit : Nat, start : BOOLEAN,
   from : Nat, pad : 0 .. TS_PACKET_SIZE, pes : {0, 16, 20}, pts : Nat]

VARIABLES
  pc,        \* "idle", "packets" inside Mux, or "overrun": it wrote beyond
             \* the buffer, and nothing more is said
  unit,      \* the access unit
  left,      \* AUBytes
  src,       \* payloadStartPtr, from the start of the unit
  pos,       \* bitBufPtr, from the start of the buffer
  tsSize,    \* m_TsSize
  buf,       \* the packets in the buffer
  init,      \* m_Init
  pcr,       \* mPCR
  pcrStart,  \* mPCRStart
  prevPcr,   \* mPrevPCR
  audioPts,  \* m_PTS, set by audio only
  psiSent    \* mPSISent

clock == <<init, pcr, pcrStart, prevPcr, audioPts, psiSent>>
vars == <<pc, unit, left, src, pos, tsSize, buf, clock>>

Init ==
  /\ pc = "idle" /\ unit = NoUnit
  /\ left = 0 /\ src = 0 /\ pos = 0 /\ tsSize = 0 /\ buf = <<>>
  /\ init = TRUE
  /\ pcr = 0 /\ pcrStart = 0 /\ prevPcr = 0 /\ audioPts = 0 /\ psiSent = 0

-----------------------------------------------------------------------------
(* Mux up to its loop *)

ClockOf(pts) == IF pts > PcrPtsDelay THEN pts - PcrPtsDelay ELSE 0

(* mPCRInterval is left out: where it is not just computed, the clock was  *)
(* reset and is sent anyway.                                               *)
ClockReset(c) == init \/ c < pcr

(* Mutant: a clock that was reset is not sent until a period later. *)
ClockDuePeriodOnly(c) == ~ClockReset(c) /\ c - prevPcr >= PCR_PERIOD

ClockDue(c) ==
  \/ ClockReset(c) \/ c = pcrStart
  \/ c - prevPcr >= PCR_PERIOD

(* Mutant: the tables are not due before the first period has gone by. *)
TablesDueLate(kind) == kind = "video" /\ audioPts - psiSent > PSI_PERIOD

(* mPSIInterval is unsigned: a time before the last tables is far ahead of *)
(* it.  For video, the time is that of the last audio unit.                *)
TablesDue(kind) ==
  /\ kind = "video"
  /\ psiSent = 0 \/ audioPts < psiSent \/ audioPts - psiSent > PSI_PERIOD

System(pid, pts) ==
  [pid |-> pid, unit |-> 0, start |-> FALSE, from |-> 0, pad |-> 0,
   pes |-> 0, pts |-> pts]

Clock(c) == IF ClockDue(c) THEN <<System("pcr", c)>> ELSE <<>>
Tables(kind) ==
  IF TablesDue(kind) THEN <<System("pat", 0), System("pmt", 0)>> ELSE <<>>

(* Time goes on within a stream; the other stream may lag behind. *)
NextPts(kind) ==
  {unit.pts + d : d \in PtsSteps} \union
  {unit.pts - d : d \in {l \in PtsLags : l <= unit.pts /\ kind # unit.kind}}

(* Mux is called for the next unit: clock and tables go into the buffer. *)
Enter(kind, size, pts, sps) ==
  LET c == ClockOf(pts)
  IN  /\ pc' = "packets"
      /\ unit' = [n |-> unit.n + 1, kind |-> kind, size |-> size,
                  pts |-> pts, sps |-> sps]
      /\ left' = size
      /\ src' = 0
      /\ buf' = Clock(c) \o Tables(kind)
      /\ pos' = TS_PACKET_SIZE * Len(buf')
      /\ tsSize' = size + pos'
      /\ init' = FALSE
      /\ pcr' = c
      /\ pcrStart' = IF ClockReset(c) THEN c ELSE pcrStart
      /\ prevPcr' = IF ClockDue(c) THEN c ELSE prevPcr
      /\ audioPts' = IF kind = "audio" THEN pts ELSE audioPts
      /\ psiSent' = IF TablesDue(kind) THEN audioPts ELSE psiSent

(* SendVideo, which looks for an SPS, and SendAudio. *)
Call ==
  /\ pc = "idle"
  /\ unit.n < MaxUnits
  /\ \E kind \in Kinds, size \in Sizes, sps \in BOOLEAN :
       /\ sps => kind = "video"
       /\ \E pts \in NextPts(kind) : Enter(kind, size, pts, sps)

-----------------------------------------------------------------------------
(* The loop of Mux *)

(* Mutant: a word is missing where nothing is. *)
ToWordWhole(n) == 4 - (n % 4)

ToWord(n) == (4 - (n % 4)) % 4   \* what is missing to a multiple of 4

(* The length AddVPesHeader and AddAPesHeader write, with padding: start   *)
(* code and length, flags, a length, and time stamps of 5 bytes each.      *)
PesWritten(kind) ==
  LET h == 6 + 2 + 1 + (IF kind = "video" THEN 10 ELSE 5)
  IN  h + ToWord(h)

(* Mutant: the length of a video header for audio, too. *)
PesReservedSame(kind) == 20

(* The length Mux reserves for it: VIDEO_ and AUDIO_PES_HEADER_LENGTH. *)
PesReserved(kind) ==
  LET h == IF kind = "video" THEN 19 ELSE 16
  IN  h + ToWord(h)

NewPes == src = 0
Space == TS_PACKET_SIZE - HeaderLength
Reserved == IF NewPes THEN PesReserved(unit.kind) ELSE 0
Fills == left >= Space - Reserved

(* padNum and padNumSource.  The buffer and the unit both start on a word, *)
(* so a packet that is filled needs no padding to align them.              *)
BuffPad == ToWord(pos + HeaderLength)
Aligned == BuffPad + ToWord(src) = 4
PadNum ==
  IF Fills THEN IF Aligned THEN 0 ELSE BuffPad ELSE Space - Reserved - left

PadSource == IF Fills /\ ~Aligned THEN 0 ELSE ToWord(src)

(* Mux is not told how large the buffer is. *)
HasRoom == pos + TS_PACKET_SIZE <= BufferSize

(* What is left after padding and header goes into ES_payload_size, part   *)
(* of it as PadSource, when source or target are not on a word.            *)
AddPacket ==
  LET pes  == IF NewPes THEN PesWritten(unit.kind) ELSE 0
      at   == pos + HeaderLength + PadNum + pes
      lead == IF src % 4 # 0 \/ at % 4 # 0 THEN PadSource ELSE 0
      rest == Space - PadNum - pes - lead
      copied == lead + (IF rest > 0 THEN rest ELSE 0)
  IN  /\ pc = "packets"
      /\ left > 0
      /\ HasRoom
      /\ buf' = Append(buf,
                  [pid |-> unit.kind, unit |-> unit.n, start |-> NewPes,
                   from |-> src, pad |-> PadNum, pes |-> pes,
                   pts |-> unit.pts])
      /\ pos' = at + copied
      /\ src' = src + copied
      /\ left' = left - lead - rest
      /\ tsSize' = tsSize + HeaderLength + PadNum + pes
      /\ UNCHANGED <<pc, unit, clock>>

(* The packet goes beyond the end of the buffer. *)
Overrun ==
  /\ pc = "packets"
  /\ left > 0
  /\ ~HasRoom
  /\ pc' = "overrun"
  /\ UNCHANGED <<unit, left, src, pos, tsSize, buf, clock>>

(* Mux returns; its caller has m_TsSize bytes to hand on. *)
Return ==
  /\ pc = "packets"
  /\ left <= 0
  /\ pc' = "idle"
  /\ UNCHANGED <<unit, left, src, pos, tsSize, buf, clock>>

Next == Call \/ AddPacket \/ Overrun \/ Return

Spec == Init /\ [][Next]_vars

-----------------------------------------------------------------------------
(* The state has its types: no length ever goes below zero, and no packet  *)
(* has a padding or a header that does not exist.                          *)
TypeOK ==
  /\ pc \in {"idle", "packets", "overrun"}
  /\ unit \in Units
  /\ left \in Nat /\ src \in Nat /\ pos \in Nat /\ tsSize \in Nat
  /\ buf \in Seq(Packets)
  /\ init \in BOOLEAN
  /\ pcr \in Nat /\ pcrStart \in Nat /\ prevPcr \in Nat
  /\ audioPts \in Nat /\ psiSent \in Nat

(* m_TsSize, which is added up from the size of the unit and from what is  *)
(* put around it, comes out as the bytes that were written, whole packets, *)
(* and the unit was copied to its last byte and no further: the caller     *)
(* hands on exactly the packets that Mux made.                             *)
WholePackets ==
  pc = "packets" /\ left <= 0 =>
    /\ tsSize = TS_PACKET_SIZE * Len(buf)
    /\ pos = tsSize
    /\ src = unit.size

(* The buffer is overrun by large units only: one that fits into the       *)
(* payload of the packets there is room for, after clock and tables and    *)
(* with the longest header, is taken whatever was due before it (512420    *)
(* bytes for the buffer of CHlsSrvBridge; the encoder reads up to 2 MB).   *)
TakesUnits ==
  pc = "overrun" => unit.size > (BufferSize \div TS_PACKET_SIZE - 3) * Space - 20

(* When the packets of a unit go out, the clock that was sent last is the  *)
(* one the unit asks for or less than a period behind it, never ahead of   *)
(* it, whichever way the time stamps jump between video and audio.         *)
ClockFollows ==
  pc = "packets" => ClockOf(unit.pts) - prevPcr \in 0 .. PCR_PERIOD - 1
=============================================================================
