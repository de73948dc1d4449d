------------------------------ MODULE RtpVideo ------------------------------
(***************************************************************************)
(* H.264 over RTP, from the packetiser of a delivery (CJdRfc3984Tx) over a *)
(* network that may lose packets to the depacketiser (CJdRfc3984Rx) and    *)
(* the video thread of CRtspClntBridge, which collects a frame up to the   *)
(* marker bit and writes it to its sink.                                   *)
(*                                                                         *)
(* A NAL unit is its number, type and size; a packet or a chunk of data    *)
(* names the bytes it carries, [from, to), byte 0 being the NAL header.    *)
(***************************************************************************)
EXTENDS Naturals, Sequences, SequencesExt

CONSTANTS
  FuLen,    \* payload of a full fragment: MAX_MTU_SIZE - RTP_HDR_SIZE - 2
  Types,    \* NAL unit types of the stream
  Sizes,    \* sizes of the NAL units that are not parameter sets
  MaxNals,  \* NAL units handed to the delivery (bound)
  Loss      \* TRUE: a packet may be lost

ASSUME VideoAssumption ==
  /\ FuLen \in Nat /\ FuLen >= 2
  /\ Types \subseteq 1..23
  /\ Sizes \subseteq Nat \ {0, 1}
  /\ MaxNals \in Nat
  /\ Loss \in BOOLEAN

VARIABLES
  count,    \* NAL units handed to Deliver so far
  waiting,  \* mWaitingForSps
  nal,      \* the NAL unit being fragmented, or NoNal
  off,      \* lSrcOffset
  net,      \* packets under way, and in the socket buffer of the client
  rpc,      \* the client's video thread: waits for the sink, reads, ended
  run,      \* m_fRun
  full,     \* IsFull of the sink
  buf,      \* the chunks in m_pData
  out,      \* the frames written to the sink
  lost      \* history: <<number of the NAL unit, marker>> of the packets lost

txVars == <<count, waiting, nal, off>>
rxVars == <<rpc, run, full, buf, out>>
vars == <<txVars, rxVars, net, lost>>

SPS == 7
PPS == 8
AUD == 9
FU_A == 28
ParamSize == 2
NoNal == [n |-> 0, type |-> 0, size |-> 0]
SizesOf(t) == IF t \in {SPS, PPS} THEN {ParamSize} ELSE Sizes
AllSizes == Sizes \cup {ParamSize}

Nals == [n : 1..MaxNals, type : Types, size : AllSizes]
Packets == [nal : Nals, type : 1..28, s : BOOLEAN, e : BOOLEAN, m : BOOLEAN,
            from : Nat, to : Nat]

Init ==
  /\ count = 0 /\ waiting = TRUE
  /\ nal = NoNal /\ off = 0
  /\ net = <<>>
  /\ rpc = "full" /\ run = TRUE /\ full = FALSE
  /\ buf = <<>> /\ out = <<>>
  /\ lost = {}

(***************************************************************************)
(* The packetiser: CJdRfc3984Tx::Deliver                                   *)
(***************************************************************************)

(* The result of sendto is ignored: a packet that is not sent is lost.     *)
Send(p) ==
  \/ /\ net' = Append(net, p)
     /\ UNCHANGED lost
  \/ /\ Loss
     /\ lost' = lost \cup {<<p.nal.n, p.m>>}
     /\ UNCHANGED net

Skipped(t) == t = AUD \/ (waiting /\ t # SPS)

Fragmented(z) == z > FuLen + 2

(* Mutant: every packet that holds a whole NAL unit is marked.             *)
SingleMarkerAlways(t) == TRUE
SingleMarker(t) == t \notin {SPS, PPS, AUD}

NextNal(t, z) == [n |-> count + 1, type |-> t, size |-> z]

(* An access unit delimiter, or a NAL unit before the first SPS.           *)
SkipNal(t) ==
  /\ nal = NoNal /\ count < MaxNals
  /\ Skipped(t)
  /\ count' = count + 1
  /\ UNCHANGED <<waiting, nal, off, net, rxVars, lost>>

SendSingle(t, z) ==
  /\ nal = NoNal /\ count < MaxNals
  /\ ~Skipped(t) /\ ~Fragmented(z)
  /\ count' = count + 1
  /\ waiting' = FALSE
  /\ Send([nal |-> NextNal(t, z), type |-> t, s |-> FALSE, e |-> FALSE,
           m |-> SingleMarker(t), from |-> 0, to |-> z])
  /\ UNCHANGED <<nal, off, rxVars>>

StartFragments(t, z) ==
  /\ nal = NoNal /\ count < MaxNals
  /\ ~Skipped(t) /\ Fragmented(z)
  /\ count' = count + 1
  /\ waiting' = FALSE
  /\ nal' = NextNal(t, z)
  /\ off' = 0
  /\ UNCHANGED <<net, rxVars, lost>>

Left == nal.size - off

(* Mutant: the last fragment is not cut to what is left of the NAL unit.   *)
PayloadLenUncut == FuLen
PayloadLen == IF FuLen > Left THEN Left ELSE FuLen

From == IF off = 0 THEN 1 ELSE off

MoreToSend == From + PayloadLen < nal.size

(* One turn of the loop.  The marker is set only when the last fragment is *)
(* shorter than a full one; the end bit is compared with what is left.     *)
Fragment ==
  /\ nal # NoNal
  /\ Send([nal |-> nal, type |-> FU_A, s |-> off = 0,
           e |-> off # 0 /\ PayloadLen = Left, m |-> FuLen > Left,
           from |-> From, to |-> From + PayloadLen])
  /\ IF MoreToSend
       THEN off' = From + PayloadLen /\ UNCHANGED nal
       ELSE off' = 0 /\ nal' = NoNal
  /\ UNCHANGED <<count, waiting, rxVars>>

Tx ==
  \/ \E t \in Types : SkipNal(t)
  \/ \E t \in Types : \E z \in SizesOf(t) : SendSingle(t, z)
  \/ \E t \in Types : \E z \in SizesOf(t) : StartFragments(t, z)
  \/ Fragment

(***************************************************************************)
(* The depacketiser and the video thread: CJdRfc3984Rx::GetData and        *)
(* CRtspClntBridge::ProcessVideoFrame                                      *)
(***************************************************************************)
Chunk(p, from, code) == [nal |-> p.nal, from |-> from, to |-> p.to, code |-> code]

(* Mutant: a fragment that is not the first gets a start code too.         *)
ChunksCoded(p) == {Chunk(p, IF p.s THEN 0 ELSE p.from, p.s \/ p.e)}

(* Types 1 to 10 are a whole NAL unit; anything else is taken for a        *)
(* fragment: two bytes are dropped and the second one read as FU header,   *)
(* so what a whole NAL unit of types 11 to 23 becomes depends on its data. *)
Chunks(p) ==
  CASE p.type \in 1..10 -> {Chunk(p, 0, TRUE)}
    [] p.type = FU_A -> {Chunk(p, IF p.s THEN 0 ELSE p.from, p.s)}
    [] p.type \in 11..23 -> {Chunk(p, 2, code) : code \in BOOLEAN}

(* Mutant: Stop does not end the wait for a full sink.                     *)
SinkWaitOverDeaf == ~full
SinkWaitOver == ~full \/ ~run

StartFrame ==
  /\ rpc = "full" /\ SinkWaitOver
  /\ rpc' = "read"
  /\ buf' = <<>>
  /\ UNCHANGED <<run, full, out, txVars, net, lost>>

(* A packet; the marked one completes the frame, which is written.         *)
GetData ==
  /\ rpc = "read" /\ net # <<>>
  /\ net' = Tail(net)
  /\ \E c \in Chunks(Head(net)) :
       IF Head(net).m
         THEN /\ out' = Append(out, [whole |-> TRUE, chunks |-> Append(buf, c)])
              /\ buf' = <<>>
              /\ rpc' = IF run THEN "full" ELSE "ended"
         ELSE /\ buf' = Append(buf, c)
              /\ UNCHANGED <<out, rpc>>
  /\ UNCHANGED <<run, full, txVars, lost>>

(* Ten seconds without a packet end the thread.                            *)
ReadTimeout ==
  /\ rpc = "read" /\ net = <<>>
  /\ rpc' = "ended"
  /\ UNCHANGED <<run, full, buf, out, txVars, net, lost>>

(* m_fRun ends the inner loop: what there is of the frame is written.      *)
StopSeen ==
  /\ rpc = "read" /\ ~run
  /\ out' = Append(out, [whole |-> FALSE, chunks |-> buf])
  /\ buf' = <<>>
  /\ rpc' = "ended"
  /\ UNCHANGED <<run, full, txVars, net, lost>>

(* StopStreaming, which then joins the thread.                             *)
StopStreaming ==
  /\ run /\ run' = FALSE
  /\ UNCHANGED <<rpc, full, buf, out, txVars, net, lost>>

(* The consumer behind the sink fills up and drains as it likes.           *)
Consumer ==
  /\ full' = ~full
  /\ UNCHANGED <<rpc, run, buf, out, txVars, net, lost>>

Rx == StartFrame \/ GetData \/ ReadTimeout \/ StopSeen

Next == Tx \/ Rx \/ StopStreaming \/ Consumer

Spec == Init /\ [][Next]_vars

(* The thread sleeps 1 ms between looks at the sink and waits at most ten  *)
(* seconds for a packet, so it keeps taking steps.                         *)
LiveSpec == Spec /\ WF_vars(Rx)

-----------------------------------------------------------------------------

RangesOK ==
  /\ count \in 0..MaxNals
  /\ \/ nal = NoNal /\ off = 0
     \/ nal \in Nals /\ off \in 0..(nal.size - 1)
  /\ net \in Seq(Packets)
  /\ rpc \in {"full", "read", "ended"}
  /\ lost \subseteq (1..MaxNals) \X BOOLEAN

FlagsOK == waiting \in BOOLEAN /\ run \in BOOLEAN /\ full \in BOOLEAN

(* Ranges, and the fragment loop inside its NAL unit.                      *)
TypeOK == RangesOK /\ FlagsOK

(* Deliver never reads past the NAL unit it was given nor writes past the  *)
(* MTU-sized buffer, although the first fragment skips the NAL header      *)
(* after its length was computed; no fragment is both first and last.      *)
InBounds(p) ==
  /\ p.from < p.to /\ p.to <= p.nal.size
  /\ p.to - p.from <= IF p.type = FU_A THEN FuLen ELSE FuLen + 2
  /\ ~(p.s /\ p.e)
  /\ p.e => p.to = p.nal.size
PacketsInBounds == \A i \in 1..Len(net) : InBounds(net[i])

Received == FlattenSeq([i \in 1..Len(out) |-> out[i].chunks]) \o buf

(* The client gets back the byte stream that was packetised: a start code  *)
(* exactly at the start of each NAL unit, its fragments one after the      *)
(* other without a gap, then the next unit.  A lost packet spoils nothing  *)
(* but its own NAL unit.                                                   *)
StreamIntact ==
  LET r == Received
      Spoiled(i) == \E m \in BOOLEAN : <<r[i].nal.n, m>> \in lost
  IN \A i \in 1..Len(r) :
       /\ r[i].code <=> r[i].from = 0
       /\ IF i > 1 /\ r[i].nal = r[i-1].nal
            THEN r[i].from = r[i-1].to \/ Spoiled(i)
            ELSE /\ r[i].from = 0 \/ Spoiled(i)
                 /\ i > 1 => /\ r[i-1].to = r[i-1].nal.size \/ Spoiled(i-1)
                            /\ r[i-1].nal.n < r[i].nal.n

(* The last fragment is a full one, and so it is not marked.               *)
LastFragmentFull(z) == Fragmented(z) /\ (z - 1) % FuLen = 0

(* A frame given to the sink holds one coded unit, its parameter sets in   *)
(* front; a lost packet spoils its own frame, and runs it into the next    *)
(* one only when it was the marked packet, or none was marked.             *)
UnitPerFrame ==
  \A i \in 1..Len(out) :
    LET c == out[i].chunks
    IN out[i].whole =>
         /\ c[Len(c)].nal.type \notin {SPS, PPS}
         /\ c[Len(c)].to = c[Len(c)].nal.size
         /\ \A k \in 1..Len(c) :
              \/ c[k].nal.type \in {SPS, PPS}
              \/ c[k].nal = c[Len(c)].nal
              \/ <<c[k].nal.n, TRUE>> \in lost
              \/ LastFragmentFull(c[k].nal.size)

(* StopStreaming gets its thread back, whether it waits for the sink, for  *)
(* a packet, or is in the middle of a frame.                               *)
StopJoins == ~run ~> rpc = "ended"
=============================================================================
