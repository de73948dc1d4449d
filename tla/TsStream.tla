------------------------------ MODULE TsStream ------------------------------
(***************************************************************************)
(* From the encoder to a player: CHlsSrvBridge multiplexes every frame and *)
(* hands the packets to the segmenter (CHlsSegmnter, CGop), which cuts the *)
(* stream into GOPs; the player (CTsFilter, CTsDemux) opens what was       *)
(* published, from any GOP on, finds the tables and gets frames back.      *)
(*                                                                         *)
(* The player reads when the stream is complete and plays it twice, as     *)
(* CTsFilter does, which goes back to the start at the end of the file.    *)
(***************************************************************************)
EXTENDS TsMux, SequencesExt

CONSTANTS
  GopSize,   \* m_nGopSize, in bytes
  MaxFrame   \* mMaxSize of a CAvFrame

ASSUME TsStreamAssumption == GopSize \in Nat \ {0} /\ MaxFrame \in Nat \ {0}

VARIABLES
  units,     \* the access units sent
  gop,       \* the packets in m_pCrntGop
  gops,      \* the GOPs published
  dropped,   \* the units that lost packets on the way into a GOP
  file,      \* what the player reads
  rd,        \* packets of it that were consumed
  lap,       \* 1, or 2 after the start was gone back to
  frame,     \* per stream, mAvFrame: state, pieces of units, mPts, and where
             \* and on which lap it started
  pesLen,    \* m_lPesLen of the audio parser
  out        \* the frames delivered

sender == <<units, gop, gops, dropped>>
player == <<file, rd, lap, frame, pesLen, out>>
allVars == <<vars, sender, player>>

EmptyFrame == [state |-> "INIT", data |-> <<>>, unit |-> 0, pts |-> 0, lap |-> 0]

StreamInit ==
  /\ Init
  /\ units = <<>> /\ gop = <<>> /\ gops = <<>> /\ dropped = {}
  /\ file = <<>> /\ rd = 0 /\ lap = 0
  /\ frame = [k \in Kinds |-> EmptyFrame]
  /\ pesLen = 0
  /\ out = <<>>

-----------------------------------------------------------------------------
(* The sender *)

Encode ==
  /\ Call
  /\ units' = Append(units, unit')
  /\ UNCHANGED <<gop, gops, dropped, player>>

Packet ==
  /\ AddPacket
  /\ UNCHANGED <<sender, player>>

BeyondBuffer ==
  /\ Overrun
  /\ UNCHANGED <<sender, player>>

(* Mutant: a full GOP starts over. *)
AddDataOver(g, p) ==
  IF TS_PACKET_SIZE * Len(g) + TS_PACKET_SIZE < GopSize
  THEN Append(g, p) ELSE <<p>>

(* CGop.AddData drops a packet that does not fit. *)
AddData(g, p) ==
  IF TS_PACKET_SIZE * Len(g) + TS_PACKET_SIZE < GopSize THEN Append(g, p) ELSE g

(* UpdateOnNewGop: the GOP so far goes out when a frame starts a new one. *)
NewGop == unit.sps

(* Mux returns, and WriteFrameData takes m_TsSize bytes of the buffer. *)
WriteFrameData ==
  LET written == SubSeq(buf, 1, tsSize \div TS_PACKET_SIZE)
      start   == IF NewGop THEN <<>> ELSE gop
      filled  == FoldLeft(AddData, start, written)
  IN  /\ Return
      /\ gops' = IF NewGop /\ gop # <<>> THEN Append(gops, gop) ELSE gops
      /\ gop' = filled
      /\ dropped' = IF Len(filled) < Len(start) + Len(written)
                    THEN dropped \union {unit.n} ELSE dropped
      /\ UNCHANGED <<units, player>>

-----------------------------------------------------------------------------
(* The player *)

HasTables(packets) ==
  {"pat", "pmt"} \subseteq {packets[i].pid : i \in DOMAIN packets}

(* InitProgram completes a frame with an SPS: another one starts after it. *)
HasVideo(packets) ==
  LET starts == {i \in DOMAIN packets : packets[i].start /\ packets[i].pid = "video"}
  IN  \E i, j \in starts : i < j /\ units[packets[i].unit].sps

(* InitFileSrc reads until it has the tables, InitProgram enables their    *)
(* streams and looks for video, without which nothing is played; both      *)
(* leave the file at its start and the parsers reset.                      *)
Open ==
  /\ unit.n = MaxUnits /\ pc = "idle" /\ lap = 0
  /\ \E g \in 1 .. Len(gops) :
       LET from == FlattenSeq(SubSeq(gops, g, Len(gops)))
       IN  HasTables(from) /\ HasVideo(from) /\ file' = from
  /\ lap' = 1
  /\ UNCHANGED <<vars, sender, rd, frame, pesLen, out>>

DataLen(p) == Space - p.pad - p.pes

Used(data) == FoldLeft(LAMBDA n, d : n + d.len, 0, data)

(* The macro PES_PTS_VALUE_LO takes the last byte as pb[4] & (0xFE >> 1):  *)
(* six bits of the time stamp, moved up by one, and the marker.            *)
PtsRead(pts) == (pts - (pts % 128)) + ((2 * pts + 1) % 128)

Filled(f, p, len) ==
  IF Used(f.data) < MaxFrame - len
  THEN [f EXCEPT !.data = Append(@, [unit |-> p.unit, from |-> p.from, len |-> len])]
  ELSE f

Started(p) ==
  [state |-> "FILLING", data |-> <<>>, unit |-> p.unit, pts |-> PtsRead(p.pts),
   lap |-> lap]

(* The packet that starts a frame completes the frame before it, and is    *)
(* looked at again when that frame has been taken.                         *)
Completes(p) == p.start /\ frame[p.pid].data # <<>>

(* Mutant: a packet that completes a frame counts as read. *)
AfterCompleteConsumed == rd + 1

AfterComplete == rd

DeliverFrame ==
  \E k \in Kinds :
    /\ rd < Len(file)
    /\ file[rd + 1].pid = k
    /\ Completes(file[rd + 1])
    /\ out' = Append(out, [kind |-> k, lap |-> frame[k].lap, unit |-> frame[k].unit,
                           data |-> frame[k].data, pts |-> frame[k].pts])
    /\ frame' = [frame EXCEPT ![k] = EmptyFrame]
    /\ rd' = AfterComplete
    /\ UNCHANGED <<vars, sender, file, lap, pesLen>>

ProcessVideo ==
  /\ rd < Len(file)
  /\ LET p == file[rd + 1]
         f == IF p.start THEN Started(p) ELSE frame["video"]
     IN  /\ p.pid = "video"
         /\ ~Completes(p)
         /\ frame' = IF f.state = "FILLING"
                     THEN [frame EXCEPT !["video"] = Filled(f, p, DataLen(p))]
                     ELSE frame
  /\ rd' = rd + 1
  /\ UNCHANGED <<vars, sender, file, lap, pesLen, out>>

(* The length in an audio PES header, less the rest of the header.  Data   *)
(* is taken up to it; 0 is for any length.                                 *)
PesLength(p) == IF p.start THEN units[p.unit].size ELSE pesLen

ProcessAudio ==
  /\ rd < Len(file)
  /\ LET p   == file[rd + 1]
         f   == IF p.start THEN Started(p) ELSE frame["audio"]
         l   == PesLength(p)
         len == IF l > 0 /\ DataLen(p) > l THEN l ELSE DataLen(p)
     IN  /\ p.pid = "audio"
         /\ ~Completes(p)
         /\ frame' = [frame EXCEPT !["audio"] = Filled(f, p, len)]
         /\ pesLen' = IF l > 0 THEN l - len ELSE l
  /\ rd' = rd + 1
  /\ UNCHANGED <<vars, sender, file, lap, out>>

(* Tables and clock: nothing that frames depend on. *)
SkipPacket ==
  /\ rd < Len(file)
  /\ file[rd + 1].pid \notin Kinds
  /\ rd' = rd + 1
  /\ UNCHANGED <<vars, sender, file, lap, frame, pesLen, out>>

(* The end of the file: DemuxStream goes back to its start. *)
Rewind ==
  /\ lap = 1
  /\ rd = Len(file)
  /\ rd' = 0
  /\ lap' = 2
  /\ UNCHANGED <<vars, sender, file, frame, pesLen, out>>

StreamNext ==
  \/ Encode \/ Packet \/ BeyondBuffer \/ WriteFrameData
  \/ Open \/ DeliverFrame \/ ProcessVideo \/ ProcessAudio \/ SkipPacket \/ Rewind

StreamSpec == StreamInit /\ [][StreamNext]_allVars

-----------------------------------------------------------------------------
Frames == [state : {"INIT", "FILLING"}, data : Seq([unit : Nat, from : Nat, len : Nat]),
           unit : Nat, pts : Nat, lap : 0 .. 2]

(* The state has its types; GOPs stay below their size. *)
StreamTypeOK ==
  /\ TypeOK
  /\ \A g \in ToSet(gops) \union {gop} :
       g \in Seq(Packets) /\ TS_PACKET_SIZE * Len(g) < GopSize
  /\ frame \in [Kinds -> Frames]
  /\ \A k \in Kinds : Used(frame[k].data) < MaxFrame
  /\ pesLen \in Nat /\ rd \in 0 .. Len(file)

Whole(f) ==
  /\ \A i \in DOMAIN f.data :
       /\ f.data[i].unit = f.unit
       /\ f.data[i].from = Used(SubSeq(f.data, 1, i - 1))
  /\ Used(f.data) = units[f.unit].size

Fits(n) == n \notin dropped /\ units[n].size < MaxFrame

(* The player gets back what was encoded: a frame delivered is one access  *)
(* unit from its first byte to its last, with the time stamp of its unit   *)
(* to within 128 ticks, unless the unit lost packets in a full GOP or is   *)
(* larger than a frame may be.                                             *)
FramesWhole ==
  \A i \in DOMAIN out :
    /\ Fits(out[i].unit) => Whole(out[i])
    /\ out[i].pts \div 128 = units[out[i].unit].pts \div 128

(* Frames of a stream come in the order in which they were encoded, and    *)
(* between two of them no unit is missing that made it into its GOP, in    *)
(* the last frame of the first lap, which the second lap completes, too.   *)
FramesInOrder ==
  \A i, j \in DOMAIN out :
    i < j /\ out[i].kind = out[j].kind /\ out[i].lap = out[j].lap =>
      /\ out[i].unit < out[j].unit
      /\ \A n \in (out[i].unit + 1) .. (out[j].unit - 1) :
           units[n].kind = out[j].kind /\ n \notin dropped =>
             \E h \in i .. j : out[h].unit = n

(* Without audio every segment can be played on its own: a GOP, except     *)
(* what was sent before the first SPS, starts with the tables and then the *)
(* frame that has the SPS, whatever was dropped before.                    *)
SelfContained ==
  (\A i \in DOMAIN units : units[i].kind = "video") =>
    \A g \in DOMAIN gops :
      LET media == {i \in DOMAIN gops[g] : gops[g][i].pid = "video"}
          first == CHOOSE i \in media : \A j \in media : i <= j
      IN  g > 1 /\ media # {} =>
            /\ HasTables(SubSeq(gops[g], 1, first - 1))
            /\ gops[g][first].start /\ units[gops[g][first].unit].sps
=============================================================================
