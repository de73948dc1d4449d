----------------------------- MODULE HlsClient -----------------------------
(***************************************************************************)
(* The HLS player: CHttpLiveGet (jdnet/src/JdHttpLiveClnt.cpp) and the     *)
(* thread of CHlsClntBridge that reads from it, composed with the          *)
(* publisher whose folder it plays, HlsPublishMemFile.                     *)
(*                                                                         *)
(* The client plays the first segment of a playlist, then asks for the     *)
(* playlist until its #EXT-X-MEDIA-SEQUENCE has changed, and plays the     *)
(* first segment of that one.  Its ReadPlaylist is the one of the          *)
(* publisher's module: player is the playlist it last parsed, age counts   *)
(* the playlists written since.                                            *)
(***************************************************************************)
EXTENDS Integers, FiniteSets, FiniteSetsExt

CONSTANTS
  GopMs, SegmentMs, Faults, MaxGops,  \* of the publisher
  Reads,  \* reads it takes to get a segment
  Drops   \* TRUE: requests to the web server may fail

ASSUME ClientAssumption == Reads \in Nat \ {0} /\ Drops \in BOOLEAN

VARIABLES
  inTime, outTime, lostTime, segTime, error, index, count, duration,
  files, damaged, playlist, pc, ctl, player, age, unopened,  \* the publisher
  run,      \* m_fRun
  thread,   \* where the thread is
  prevSeq,  \* m_nPrevSeqNum
  current,  \* the segment last requested
  left      \* reads left of it

reader == <<run, thread, prevSeq, current, left>>

Pub == INSTANCE HlsPublishMemFile

ASSUME PublisherAssumption == Pub!MemFileAssumption

pubVars == <<inTime, outTime, lostTime, segTime, error, index, count, duration,
             files, damaged, playlist, pc, ctl, player, age, unopened>>
vars == <<pubVars, reader>>

Init ==
  /\ Pub!Init
  /\ run = TRUE
  /\ thread = "update"
  /\ prevSeq = -1
  /\ current = 0
  /\ left = 0

Publisher ==
  /\ Pub!Owner \/ Pub!Segmenter
  /\ UNCHANGED reader

MayFail == IF Drops THEN BOOLEAN ELSE {FALSE}

(* Mutant: any playlist that can be read is taken for a new one. *)
IsNewReread == playlist # {}

(* The sequence number has changed.  An empty answer leaves the text of    *)
(* the playlist before in the buffer, with its number.                     *)
IsNew == playlist # {} /\ Min(playlist) # prevSeq

(* UpdatePlayList; while the playlist is not new, it sleeps and asks again *)
(* whatever m_fRun is.                                                     *)
UpdatePlayList ==
  /\ thread = "update"
  /\ IsNew
  /\ Pub!ReadPlaylist
  /\ prevSeq' = Min(playlist)
  /\ thread' = "open"
  /\ UNCHANGED <<run, current, left>>

(* Before the first playlist m_nPrevSeqNum is -1 and m_nSeqNum 0, so an    *)
(* empty one is taken for new: there is no segment, and Read returns -1.   *)
FirstIsEmpty ==
  /\ thread = "update"
  /\ prevSeq = -1
  /\ playlist = {}
  /\ thread' = "ended"
  /\ UNCHANGED <<pubVars, run, prevSeq, current, left>>

(* HttpGet.Open fails: there are no segments left, and Read returns -1.    *)
UpdateFails ==
  /\ thread = "update"
  /\ TRUE \in MayFail
  /\ thread' = "ended"
  /\ UNCHANGED <<pubVars, run, prevSeq, current, left>>

(* GetSegment(0) of a sliding window: never the last of the list. *)
HasSegment == Cardinality(player) - 1 > 0

CrntSegment == Min(player)

(* A request that is not answered reads as the end of the segment.         *)
OpenSegment ==
  /\ thread = "open"
  /\ IF HasSegment
     THEN /\ current' = CrntSegment
          /\ \E fails \in MayFail :
               IF CrntSegment \in files /\ ~fails
               THEN thread' = "read" /\ left' = Reads
               ELSE thread' = "update" /\ UNCHANGED left
     ELSE thread' = "ended" /\ UNCHANGED <<current, left>>
  /\ UNCHANGED <<pubVars, run, prevSeq>>

ReadSegment ==
  /\ thread = "read"
  /\ left > 0
  /\ left' = left - 1
  /\ thread' = "demux"
  /\ UNCHANGED <<pubVars, run, prevSeq, current>>

(* The end of the segment, or a read that failed. *)
EndOfSegment ==
  /\ thread = "read"
  /\ left = 0 \/ TRUE \in MayFail
  /\ thread' = "update"
  /\ UNCHANGED <<pubVars, run, prevSeq, current, left>>

(* DoBufferProcessing hands the data to the demultiplexer; m_fRun is read  *)
(* before the next read only.                                              *)
Demux ==
  /\ thread = "demux"
  /\ thread' = IF run THEN "read" ELSE "ended"
  /\ UNCHANGED <<pubVars, run, prevSeq, current, left>>

StopStreaming ==
  /\ run
  /\ run' = FALSE
  /\ UNCHANGED <<pubVars, thread, prevSeq, current, left>>

Thread ==
  \/ UpdatePlayList \/ FirstIsEmpty \/ UpdateFails \/ OpenSegment
  \/ ReadSegment \/ EndOfSegment \/ Demux

Next == Publisher \/ Thread \/ StopStreaming

(* The thread runs, and its requests are answered or fail: connecting ends *)
(* with the retries of TCP, a request fits the buffer of its new socket,   *)
(* and every recv follows a select of 30 s.  While m_fRun is set the frame *)
(* may wait for a sink that is full.  That a request fails is never owed   *)
(* to anybody: fairness is on the rest.                                    *)
Spec ==
  /\ Init /\ [][Next]_vars
  /\ WF_vars(UpdatePlayList \/ FirstIsEmpty \/ OpenSegment \/ ReadSegment
             \/ EndOfSegment \/ (Demux /\ ~run))

-----------------------------------------------------------------------------
(* Types of the variables. *)
TypeOK ==
  /\ Pub!TypeOK
  /\ run \in BOOLEAN
  /\ thread \in {"update", "open", "read", "demux", "ended"}
  /\ prevSeq \in {-1} \union (1 .. index)
  /\ current \in 0 .. index
  /\ left \in 0 .. Reads

Starts == thread = "open" /\ thread' = "read"

(* What the client finds in its playlist is there, in full, although it    *)
(* requests it some time after it read the playlist and the publisher has  *)
(* gone on writing and deleting, for as long as at most                    *)
(* MEM_FILE_CACHE_DELAY newer playlists have replaced the one it has.      *)
PlayerServed == age <= Pub!CacheDelay => player \subseteq Pub!Complete

(* The folder does not grow, however slow its players are: it holds the    *)
(* last segments only.                                                     *)
RetentionBound == Pub!RetentionBound

(* The segments are played in order and none twice: the heads of the       *)
(* publisher's playlists never go back, and the client waits for the next. *)
(* It falls back by no more than it was late, though: from one playlist to *)
(* the next it skips a segment for each further one written in between.    *)
PlaysInOrder ==
  [][/\ Starts => current' > current
     /\ (thread = "update" /\ thread' = "open" /\ player # {}) =>
          prevSeq' <= prevSeq + age]_vars

(* After StopStreaming, which joins the thread, and once the publisher is  *)
(* stopped too, the thread ends or waits for a playlist that will not come *)
(* any more; it does not play the last one over and over, although m_fRun  *)
(* is not looked at by the loop of Read.  (While a publisher goes on, and  *)
(* every request for a segment fails, that loop need not end at all.)      *)
StopEndsOrWaits ==
  []<>(~run /\ ctl \in {"mark", "stopped"}) =>
     <>[](thread = "ended" \/ (thread = "update" /\ ~IsNew))

(* With players at work, the publisher still does what HlsLive promises:   *)
(* it lists only what is stored, in full, and deletes nothing listed.      *)
LiveSpec == Pub!LiveSpec
=============================================================================
