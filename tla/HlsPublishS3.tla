---------------------------- MODULE HlsPublishS3 ----------------------------
(***************************************************************************)
(* CHlsPublishS3 (jdnet/src/JdHttpLiveSgmt.cpp): publishes an HLS stream   *)
(* to a sink (CHlsOutBase).  Three threads meet in it.                     *)
(*                                                                         *)
(*   - The segmenter's thread calls ReceiveGop under m_MutexPublish of the *)
(*     segmenter: the GOP goes to the ring and to m_pGopFilledList, or is  *)
(*     counted as lost.  Publish takes the mutex, Receive releases it.     *)
(*   - The uploader's thread runs Process: it waits for a segment's worth  *)
(*     of GOPs, uploads it GOP by GOP, then uploads the playlist.  pc is   *)
(*     its program counter; m_Mutex is held inside single actions only.    *)
(*   - The owner calls Run and later Stop, which does not join the thread. *)
(*     ctl is its program counter.                                         *)
(*                                                                         *)
(* Segments are numbered from 0 instead of m_nSegmentStartIndex, the time  *)
(* of creation: segment is SegmentCount().  Every GOP lasts GopMs, as in   *)
(* CGop and CGopCb.                                                        *)
(***************************************************************************)
EXTENDS Integers, Sequences, FiniteSetsExt, Functions

CONSTANTS
  Size, Lengths,  \* the ring and the GOPs it is given, see GopCircBuff
  GopMs,          \* m_DurationMs, 500
  SegmentMs,      \* m_nSegmentDurationMs
  PollMs,         \* the uploader polls every 100 ms
  LiveOnly,       \* m_fLiveOnly
  Sink,           \* the class behind m_pHlsOut, see below
  Faults,         \* the calls of the sink that may fail
  MaxGops         \* bound: GOPs published

(* "S3" is CHlsOutJdS3 and "Disc" CHlsOutFs, the two sinks of hlsPublish-  *)
(* Start.  "Base" is a sink that reports a failure the way Process expects *)
(* it of a CHlsOutBase, by returning JD_ERROR.                             *)
Sinks == {"S3", "Disc", "Base"}

Calls == {"Start", "Continue", "End", "Send", "Delete"}

PublishAssumption ==
  /\ GopMs \in Nat \ {0}
  /\ SegmentMs \in Nat \ {0}
  /\ PollMs \in Nat \ {0}
  /\ LiveOnly \in BOOLEAN
  /\ Sink \in Sinks
  /\ Faults \subseteq Calls
  /\ MaxGops \in Nat

ASSUME PublishAssumption

VARIABLES
  nRd, nWr,    \* the ring m_pCb
  filled,      \* m_pGopFilledList
  taken,       \* pGop of Process, until it is freed: at most one
  inTime, outTime, lostTime, segTime,  \* m_nInStreamTime ... m_nSegmentTime
  error,       \* m_nError
  running,     \* m_fRunState
  pc,          \* where Process is
  timeout,     \* lTimeout
  crnt,        \* nCrntDuration
  total,       \* nTotlaLen, the length announced for the segment
  sent,        \* nBytesSent
  segment,     \* m_nSegmentIndex - m_nSegmentStartIndex
  handle,      \* m_pHlsOut has a connection or a file open
  whole,       \* every byte of the segment so far has reached the sink
  stored,      \* the segments the sink keeps, complete
  playlist,    \* the playlist the sink keeps
  missed,      \* playlists that failed to upload since that one
  ctl,         \* where the owner is
  pub          \* length of the GOP in ReceiveGop, 0 if none: m_MutexPublish

ring == <<nRd, nWr>>
times == <<inTime, outTime, lostTime, segTime>>
status == <<error, running>>
work == <<timeout, crnt, total, sent, segment>>
out == <<handle, whole, stored, playlist, missed>>
vars == <<ring, filled, taken, times, status, pc, work, out, ctl, pub>>

Ring == INSTANCE GopCircBuff WITH live <- taken \o filled

ASSUME Ring!RingAssumption

(* NUM_SEGS_IN_BCAST_PLAYLIST *)
PlaylistLen == 3

(* The first statuses of JD_STATUS; JD_ERROR is 0x80000000. *)
JD_OK == 0
JD_ERROR == -2147483647 - 1

(* m_nError: HLS_UPLOAD_ERROR_CONN_FAIL and HLS_UPLOAD_ERROR_XFR_FAIL are  *)
(* the same number.                                                        *)
States == {"UNKNOWN", "STOP", "RUN", "FAIL"}

NoPlaylist == [first |-> 0, count |-> 0, ended |-> FALSE]

Listed == playlist.first .. playlist.first + playlist.count - 1

-----------------------------------------------------------------------------
(* Whether a call of the sink does its work. *)
Outcome(call) == IF call \in Faults THEN BOOLEAN ELSE {TRUE}

(* What the sinks return, given that the call did its work or did not.     *)
(* End of the file sink returns -1 whatever happens.  That is not JD_ERROR *)
(* either: Process goes on to the next segment.                            *)
StartResult(ok) ==
  IF Sink = "Disc" \/ ok THEN JD_OK ELSE JD_ERROR

ContinueResult(ok) ==
  CASE Sink = "S3"   -> IF ok THEN 1 ELSE 0
    [] Sink = "Disc" -> IF ok THEN 1 ELSE -1
    [] Sink = "Base" -> IF ok THEN JD_OK ELSE JD_ERROR

EndResult(ok) ==
  CASE Sink = "S3"   -> 1
    [] Sink = "Disc" -> -1
    [] Sink = "Base" -> IF ok THEN JD_OK ELSE JD_ERROR

-----------------------------------------------------------------------------
(* GetAvailBuffDuration and GetSegmentLen *)
AvailMs == GopMs * Len(filled)

(* Mutant: every GOP that is waiting is counted. *)
SegmentLenOfAll ==
  SumFunction([i \in DOMAIN filled |-> filled[i].len])

SegmentLen ==
  LET gops == {i \in DOMAIN filled : GopMs * (i - 1) < SegmentMs}
  IN  SumFunctionOnSet([i \in DOMAIN filled |-> filled[i].len], gops)

Init ==
  /\ nRd = 0 /\ nWr = 0
  /\ filled = << >> /\ taken = << >>
  /\ inTime = 0 /\ outTime = 0 /\ lostTime = 0 /\ segTime = 0
  /\ error = "UNKNOWN" /\ running = FALSE
  /\ pc = "none"
  /\ timeout = 0 /\ crnt = 0 /\ total = 0 /\ sent = 0 /\ segment = 0
  /\ handle = FALSE /\ whole = TRUE /\ stored = {}
  /\ playlist = NoPlaylist /\ missed = 0
  /\ ctl = "add" /\ pub = 0

-----------------------------------------------------------------------------
(* The owner: Run, then Stop. *)

AddPublisher ==
  /\ ctl = "add"
  /\ ctl' = "run"
  /\ UNCHANGED <<ring, filled, taken, times, status, pc, work, out, pub>>

Run ==
  /\ ctl = "run"
  /\ ctl' = "running"
  /\ running' = TRUE
  /\ error' = "RUN"
  /\ pc' = "poll"
  /\ timeout' = 2 * SegmentMs
  /\ UNCHANGED <<ring, filled, taken, times, crnt, total, sent, segment, out,
                 pub>>

(* Mutant: the publisher is removed without the mutex. *)
RemovePublisherUnlocked ==
  /\ ctl = "running"
  /\ ctl' = "clear"
  /\ UNCHANGED <<ring, filled, taken, times, status, pc, work, out, pub>>

(* Stop waits for the mutex that ReceiveGop runs under. *)
RemovePublisher ==
  /\ ctl = "running"
  /\ pub = 0
  /\ ctl' = "clear"
  /\ UNCHANGED <<ring, filled, taken, times, status, pc, work, out, pub>>

ClearRunState ==
  /\ ctl = "clear"
  /\ ctl' = "mark"
  /\ running' = FALSE
  /\ UNCHANGED <<ring, filled, taken, times, error, pc, work, out, pub>>

MarkStopped ==
  /\ ctl = "mark"
  /\ ctl' = "stopped"
  /\ error' = "STOP"
  /\ UNCHANGED <<ring, filled, taken, times, running, pc, work, out, pub>>

Owner == AddPublisher \/ Run \/ RemovePublisher \/ ClearRunState \/ MarkStopped

-----------------------------------------------------------------------------
(* The segmenter's thread: PublishGop and ReceiveGop. *)

Attached == ctl \in {"run", "running"}

Publish(n) ==
  /\ Attached
  /\ pub = 0
  /\ inTime < MaxGops * GopMs
  /\ pub' = n
  /\ inTime' = inTime + GopMs
  /\ UNCHANGED <<ring, filled, taken, outTime, lostTime, segTime, status, pc,
                 work, out, ctl>>

(* Mutant: a GOP that the ring refuses is not counted as lost. *)
LostUncounted == lostTime

Lost == lostTime + GopMs

Receive ==
  /\ pub # 0 /\ ctl # "crashed"
  /\ pub' = 0
  /\ IF Ring!CanAlloc(pub)
     THEN /\ filled' = Append(filled, Ring!Block(pub))
          /\ nWr' = Ring!AllocPos(pub) + pub
          /\ UNCHANGED lostTime
     ELSE lostTime' = Lost /\ UNCHANGED <<filled, nWr>>
  /\ UNCHANGED <<nRd, taken, inTime, outTime, segTime, status, pc, work, out,
                 ctl>>

Segmenter == (\E n \in Lengths : Publish(n)) \/ Receive

-----------------------------------------------------------------------------
(* The uploader's thread: Process. *)

(* Mutant: the wait for GOPs has no end. *)
PollForever ==
  /\ pc = "poll"
  /\ AvailMs >= SegmentMs
  /\ pc' = IF ~running THEN "final" ELSE "measure"
  /\ UNCHANGED <<ring, filled, taken, times, status, work, out, ctl, pub>>

(* Mutant: a wait that has timed out goes on to the segment. *)
GivesUpOnStop == ~running

GivesUp == timeout <= 0 \/ ~running

(* The wait for a segment's worth of GOPs, one poll of it.  When the wait  *)
(* ends, an exhausted timeout comes before GOPs that have just arrived.    *)
Poll ==
  /\ pc = "poll"
  /\ IF AvailMs < SegmentMs /\ timeout > 0 /\ running
     THEN timeout' = timeout - PollMs /\ UNCHANGED pc
     ELSE /\ pc' = IF GivesUp THEN "final" ELSE "measure"
          /\ UNCHANGED timeout
  /\ UNCHANGED <<ring, filled, taken, times, status, crnt, total, sent,
                 segment, out, ctl, pub>>

Measure ==
  /\ pc = "measure"
  /\ pc' = "open"
  /\ total' = SegmentLen
  /\ UNCHANGED <<ring, filled, taken, times, status, timeout, crnt, sent,
                 segment, out, ctl, pub>>

(* Start fails with or without a connection: the name of the host is not   *)
(* resolved, or the request is not sent.                                   *)
Open ==
  /\ pc = "open"
  /\ \E ok \in Outcome("Start"), opened \in BOOLEAN :
        /\ ok => opened
        /\ Sink = "Disc" => opened = ok
        /\ handle' = opened
        /\ whole' = ok
        /\ IF StartResult(ok) = JD_ERROR
           THEN error' = "FAIL" /\ pc' = "leave"
           ELSE pc' = "pop" /\ UNCHANGED error
  /\ crnt' = 0
  /\ sent' = 0
  /\ UNCHANGED <<ring, filled, taken, times, running, timeout, total, segment,
                 stored, playlist, missed, ctl, pub>>

(* The bucket or the host is empty: Start of the S3 sink makes no request  *)
(* and returns JD_ERROR_INVALID_ARG, which is not JD_ERROR.  Process goes  *)
(* on to Continue, which dereferences a null handle.  The names are those  *)
(* of the configuration, so it happens with the first segment or never.    *)
OpenRefused ==
  /\ pc = "open"
  /\ Sink = "S3"
  /\ segment = 0
  /\ pc' = "crash"
  /\ ctl' = "crashed"
  /\ UNCHANGED <<ring, filled, taken, times, status, work, out, pub>>

Pop ==
  /\ pc = "pop"
  /\ pc' = "send"
  /\ taken' = <<Head(filled)>>
  /\ filled' = Tail(filled)
  /\ sent' = sent + Head(filled).len
  /\ UNCHANGED <<ring, times, status, timeout, crnt, total, segment, out, ctl,
                 pub>>

(* A GOP whose transfer fails is not given back to the ring. *)
SendGop ==
  /\ pc = "send"
  /\ \E ok \in Outcome("Continue") :
        /\ whole' = (whole /\ ok)
        /\ IF ContinueResult(ok) = JD_ERROR
           THEN /\ error' = "FAIL"
                /\ pc' = "leave"
                /\ UNCHANGED <<crnt, outTime>>
           ELSE /\ crnt' = crnt + GopMs
                /\ outTime' = outTime + GopMs
                /\ pc' = "free"
                /\ UNCHANGED error
  /\ UNCHANGED <<ring, filled, taken, inTime, lostTime, segTime, running,
                 timeout, total, sent, segment, handle, stored, playlist,
                 missed, ctl, pub>>

MoreToSend == crnt < SegmentMs

(* Mutant: the tail of the buffer that Alloc skipped is not skipped. *)
RdAfterUnskipped(n) == nRd + n

RdAfter(n) == Ring!FreePos(n) + n

FreeGop ==
  /\ pc = "free"
  /\ pc' = IF MoreToSend THEN "pop" ELSE "close"
  /\ nRd' = RdAfter(taken[1].len)
  /\ taken' = << >>
  /\ UNCHANGED <<nWr, filled, times, status, work, out, ctl, pub>>

(* The next turn of the loop of Process. *)
NextSegment ==
  /\ pc' = "poll"
  /\ timeout' = 2 * SegmentMs
  /\ segment' = segment + 1

Close ==
  /\ pc = "close"
  /\ segTime' = segTime + SegmentMs
  /\ handle' = FALSE
  /\ \E ok \in Outcome("End") :
        /\ stored' = IF whole /\ ok THEN stored \union {segment} ELSE stored
        /\ IF EndResult(ok) = JD_ERROR
           THEN /\ error' = "FAIL"
                /\ pc' = "leave"
                /\ UNCHANGED <<timeout, segment>>
           ELSE /\ IF segment >= PlaylistLen
                   THEN pc' = "playlist" /\ UNCHANGED <<timeout, segment>>
                   ELSE NextSegment
                /\ UNCHANGED error
  /\ UNCHANGED <<ring, filled, taken, inTime, outTime, lostTime, running, crnt,
                 total, sent, whole, playlist, missed, ctl, pub>>

(* Mutant: the playlist ends with the segment before. *)
BroadcastPlaylistStale ==
  [first |-> segment - PlaylistLen, count |-> PlaylistLen, ended |-> FALSE]

BroadcastPlaylist ==
  [first |-> segment - PlaylistLen + 1, count |-> PlaylistLen, ended |-> FALSE]

(* Mutant: the deletion starts a segment late. *)
DeletesOldLate == LiveOnly /\ segment > PlaylistLen + 2

DeletesOld == LiveOnly /\ segment > PlaylistLen + 1

(* UpLoadBroadcastPlayList, whose Send nobody checks. *)
SendPlaylist ==
  /\ pc = "playlist"
  /\ \E ok \in Outcome("Send") :
        IF ok
        THEN playlist' = BroadcastPlaylist /\ missed' = 0
        ELSE missed' = missed + 1 /\ UNCHANGED playlist
  /\ IF DeletesOld
     THEN pc' = "delete" /\ UNCHANGED <<timeout, segment>>
     ELSE NextSegment
  /\ UNCHANGED <<ring, filled, taken, times, status, crnt, total, sent, handle,
                 whole, stored, ctl, pub>>

(* Mutant: the segment that has just left the playlist. *)
OldSegmentTooNew == segment - PlaylistLen

OldSegment == segment - PlaylistLen - 1

DeleteOld ==
  /\ pc = "delete"
  /\ \E ok \in Outcome("Delete") :
        stored' = IF ok THEN stored \ {OldSegment} ELSE stored
  /\ NextSegment
  /\ UNCHANGED <<ring, filled, taken, times, status, crnt, total, sent, handle,
                 whole, playlist, missed, ctl, pub>>

(* Mutant: the numbering starts at 1. *)
FullPlaylistFromOne == [first |-> 1, count |-> segment, ended |-> TRUE]

FullPlaylist == [first |-> 0, count |-> segment, ended |-> TRUE]

(* UpLoadFullPlayList, whose Start, Continue and End nobody checks.  With  *)
(* no connection, Continue of the S3 sink dereferences a null handle, and  *)
(* the process is gone.                                                    *)
SendFullPlaylist ==
  /\ pc = "final"
  /\ IF segment > 0 /\ ~LiveOnly
     THEN \E start \in Outcome("Start"), sending \in Outcome("Continue"),
             end \in Outcome("End"), opened \in BOOLEAN :
            /\ start => opened
            /\ handle' = FALSE
            /\ IF Sink = "S3" /\ ~opened
               THEN pc' = "crash" /\ ctl' = "crashed"
               ELSE pc' = "leave" /\ UNCHANGED ctl
            /\ IF start /\ sending /\ end
               THEN playlist' = FullPlaylist /\ missed' = 0
               ELSE missed' = missed + 1 /\ UNCHANGED playlist
     ELSE pc' = "leave" /\ UNCHANGED <<handle, playlist, missed, ctl>>
  /\ UNCHANGED <<ring, filled, taken, times, status, work, whole, stored, pub>>

Leave ==
  /\ pc = "leave"
  /\ pc' = "exit"
  /\ running' = FALSE
  /\ UNCHANGED <<ring, filled, taken, times, error, work, out, ctl, pub>>

Uploader ==
  \/ Poll \/ Measure \/ Open \/ OpenRefused \/ Pop \/ SendGop \/ FreeGop
  \/ Close \/ SendPlaylist \/ DeleteOld \/ SendFullPlaylist \/ Leave

-----------------------------------------------------------------------------
Next == Owner \/ Segmenter \/ Uploader

(* The calls of the sink: connections, requests and replies, on sockets    *)
(* that block.                                                             *)
Transfers == {"open", "send", "close", "playlist", "delete", "final"}

Transferring ==
  /\ pc \in Transfers
  /\ pc = "final" => segment > 0 /\ ~LiveOnly

(* The uploader's thread is scheduled: it sleeps 100 ms in a poll, and     *)
(* what it does between the transfers ends.  A transfer need not: connect  *)
(* and the send of a request wait as long as the peer lets them, and so    *)
(* does the send of a GOP, of which the select before it promises a byte.  *)
Spec == Init /\ [][Next]_vars /\ WF_vars(Uploader /\ ~Transferring)

-----------------------------------------------------------------------------
Gops == [pos : 0 .. Size - 1, len : Lengths]

(* Types of the variables. *)
TypeOK ==
  /\ nRd \in 0 .. Size - 1 /\ nWr \in 0 .. Size - 1
  /\ filled \in Seq(Gops) /\ taken \in Seq(Gops) /\ Len(taken) <= 1
  /\ {inTime, outTime, lostTime, segTime, crnt, total, sent, segment, missed}
       \subseteq Nat
  /\ error \in States /\ running \in BOOLEAN
  /\ pc \in {"none", "poll", "measure", "open", "pop", "send", "free", "close",
             "playlist", "delete", "final", "leave", "exit", "crash"}
  /\ timeout \in Int
  /\ handle \in BOOLEAN /\ whole \in BOOLEAN
  /\ stored \subseteq 0 .. segment
  /\ playlist \in [first : Nat, count : Nat, ended : BOOLEAN]
  /\ ctl \in {"add", "run", "running", "clear", "mark", "stopped",
             "crashed"}
  /\ pub \in Lengths \union {0}

(* The publisher drives its ring as GopCircBuff expects: it allocates from *)
(* one thread and frees, oldest first, what the other has sent, so all     *)
(* that is proved of the ring holds in it.                                 *)
RingSpec == Ring!Spec

(* Process pops m_pGopFilledList without looking at its size (the test     *)
(* there only logs): there is always a GOP to pop.                         *)
PopHasGop == pc = "pop" => filled # << >>

(* The GOPs sent are the ones whose lengths were announced to Start as the *)
(* Content-Length, although GOPs go on arriving after they were measured.  *)
LengthAnnounced == pc \in {"close", "playlist", "delete"} => sent = total

(* What came in is what went out, what was counted as lost, and what is    *)
(* still held: no GOP is counted twice or forgotten, not even the one that *)
(* was being sent when an error ended the upload.                          *)
TimeConserved ==
  LET held == Len(filled) + (IF pc = "free" THEN 0 ELSE Len(taken))
                          + (IF pub = 0 THEN 0 ELSE 1)
  IN  inTime = outTime + lostTime + GopMs * held

(* The segment files a playlist names are on the sink, in full, whatever   *)
(* fails and whenever the upload stops, for as long as no two playlists in *)
(* a row are lost: DeleteOld is one segment behind the oldest playlist.    *)
PlaylistServable == missed <= 1 => Listed \subseteq stored

(* A live-only upload does not pile up segments: apart from the first one, *)
(* which it never deletes, it keeps those of the last four indices, and    *)
(* for a moment the one just uploaded.                                     *)
RetentionBound ==
  LiveOnly => stored \subseteq {0} \union (segment - 4 .. segment)

(* The final playlist of a recording names every segment uploaded. *)
FinalListsAll ==
  playlist.ended => /\ Listed = 0 .. segment - 1
                    /\ Listed \subseteq stored

(* Once Stop has removed the publisher from the segmenter, no GOP reaches  *)
(* it any more, not even one whose delivery had begun: its object can be   *)
(* let go of as far as the segmenter's thread is concerned.                *)
NoGopAfterStop ==
  [][(ctl \in {"clear", "mark", "stopped"}) =>
        UNCHANGED <<inTime, lostTime, nWr>>]_vars

(* Once Stop has cleared m_fRunState the uploader's thread ends, although  *)
(* Stop does not wait for it: the segment under way is its last.  Only a   *)
(* peer that holds one single transfer for ever can keep it.               *)
StopEndsUpload ==
  []<>(ctl \in {"mark", "stopped"}) =>
     \/ <>[](pc \in {"exit", "crash"})
     \/ \E p \in Transfers : <>[](Transferring /\ pc = p)

(* The messages before each goto Exit of Process, "Exiting due to error    *)
(* writing": after a transfer that failed, Process exits, it does not go   *)
(* on to publish the segment.                                              *)
ErrorWritingExits == pc \in {"playlist", "delete"} => whole

-----------------------------------------------------------------------------
Live == INSTANCE HlsLive
          WITH Segments <- 0 .. MaxGops, stored <- stored, listed <- Listed

(* While the calls that nobody checks do not fail, the publisher keeps the *)
(* promise of HlsLive to the players: a segment is listed after it is      *)
(* stored and deleted after it is no longer listed.                        *)
LiveSpec == Live!Spec
=============================================================================
