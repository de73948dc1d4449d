-------------------------- MODULE HlsPublishMemFile -------------------------
(***************************************************************************)
(* CHlsPublishMemFile (jdnet/src/JdHttpLiveSgmt.cpp): publishes an HLS     *)
(* stream into a folder that a web server serves.  It has no thread: the   *)
(* segmenter's thread runs ReceiveGop, with the segmenter's mutex held, so *)
(* Stop waits for a GOP under way; but each call on the file system in it  *)
(* is a step that a player reading the folder sees.  pc is where           *)
(* ReceiveGop is; the owner is at ctl.                                     *)
(*                                                                         *)
(* Segments are numbered from m_nSegmentStartIndex, so the first is 1.     *)
(***************************************************************************)
EXTENDS Integers, FiniteSets

CONSTANTS
  GopMs,      \* m_DurationMs of a GOP
  SegmentMs,  \* m_nSegmentDurationMs
  Faults,     \* the calls of the file system that may fail
  MaxGops     \* bound: GOPs published

Calls == {"Open", "Write", "OpenPlaylist", "WritePlaylist"}

MemFileAssumption ==
  /\ GopMs \in Nat \ {0}
  /\ SegmentMs \in Nat \ {0}
  /\ Faults \subseteq Calls
  /\ MaxGops \in Nat

VARIABLES
  inTime, outTime, lostTime, segTime,  \* m_nInStreamTime ... m_nSegmentTime
  error,      \* m_nError
  index,      \* m_nSegmentIndex
  count,      \* m_nSegmentCount
  duration,   \* m_CrntSegmentDuration
  files,      \* the segment files in the folder
  damaged,    \* those of them that lack some GOP, or part of it
  playlist,   \* what the playlist names; empty while it is rewritten
  pc,         \* where ReceiveGop is
  ctl,        \* where the owner is
  player,     \* the playlist a player has last read
  age,        \* how often the playlist has been replaced since then
  unopened    \* the time of the GOPs for which no file could be opened

times == <<inTime, outTime, lostTime, segTime>>
segment == <<index, count, duration>>
folder == <<files, damaged, playlist>>
client == <<player, age>>
vars == <<times, error, segment, folder, pc, ctl, client, unopened>>

(* NUM_SEGS_IN_BCAST_PLAYLIST and MEM_FILE_CACHE_DELAY *)
PlaylistLen == 3
CacheDelay == 3

Outcome(call) == IF call \in Faults THEN BOOLEAN ELSE {TRUE}

Init ==
  /\ inTime = 0 /\ outTime = 0 /\ lostTime = 0 /\ segTime = 0
  /\ error = "UNKNOWN"
  /\ index = 0 /\ count = 0 /\ duration = 0
  /\ files = {} /\ damaged = {} /\ playlist = {}
  /\ pc = "idle"
  /\ ctl = "add"
  /\ player = {} /\ age = 0
  /\ unopened = 0

-----------------------------------------------------------------------------
(* The owner: Run, then Stop. *)

Run ==
  /\ ctl = "add"
  /\ ctl' = "running"
  /\ error' = "RUN"
  /\ UNCHANGED <<times, segment, folder, pc, client, unopened>>

RemovePublisher ==
  /\ ctl = "running"
  /\ pc = "idle"
  /\ ctl' = "mark"
  /\ UNCHANGED <<times, error, segment, folder, pc, client, unopened>>

MarkStopped ==
  /\ ctl = "mark"
  /\ ctl' = "stopped"
  /\ error' = "STOP"
  /\ UNCHANGED <<times, segment, folder, pc, client, unopened>>

Owner == Run \/ RemovePublisher \/ MarkStopped

-----------------------------------------------------------------------------
(* The segmenter's thread: ReceiveGop, one call on the file system at a    *)
(* time.                                                                   *)

Receive ==
  /\ ctl = "running"
  /\ pc = "idle"
  /\ inTime < MaxGops * GopMs
  /\ inTime' = inTime + GopMs
  /\ IF duration = 0
     THEN pc' = "open" /\ index' = index + 1
     ELSE pc' = "write" /\ UNCHANGED index
  /\ UNCHANGED <<outTime, lostTime, segTime, error, count, duration, folder,
                 ctl, client, unopened>>

(* A GOP that comes while no file can be opened is not counted as lost. *)
OpenSegment ==
  /\ pc = "open"
  /\ \E ok \in Outcome("Open") :
       IF ok
       THEN /\ files' = files \union {index}
            /\ pc' = "write"
            /\ UNCHANGED <<error, unopened>>
       ELSE /\ error' = "FAIL"
            /\ pc' = "idle"
            /\ unopened' = unopened + GopMs
            /\ UNCHANGED files
  /\ UNCHANGED <<times, segment, damaged, playlist, ctl, client>>

(* Mutant: a GOP that is not written is not counted as lost. *)
LostUncounted == lostTime

Lost == lostTime + GopMs

WriteGop ==
  /\ pc = "write"
  /\ \E ok \in Outcome("Write") :
       IF ok
       THEN /\ duration' = duration + GopMs
            /\ outTime' = outTime + GopMs
            /\ pc' = IF duration + GopMs >= SegmentMs THEN "close" ELSE "idle"
            /\ UNCHANGED <<lostTime, damaged, error>>
       ELSE /\ lostTime' = Lost
            /\ damaged' = damaged \union {index}
            /\ error' = "FAIL"
            /\ pc' = "idle"
            /\ UNCHANGED <<duration, outTime>>
  /\ UNCHANGED <<inTime, segTime, index, count, files, playlist, ctl,
                 client, unopened>>

CloseSegment ==
  /\ pc = "close"
  /\ pc' = "truncate"
  /\ segTime' = segTime + duration
  /\ duration' = 0
  /\ count' = count + 1
  /\ UNCHANGED <<inTime, outTime, lostTime, error, index, folder, ctl,
                 client, unopened>>

(* Mutant: the deletion starts a segment late. *)
AfterPlaylistLate ==
  IF count > PlaylistLen + CacheDelay + 1 THEN "unlink" ELSE "idle"

AfterPlaylist ==
  IF count > PlaylistLen + CacheDelay THEN "unlink" ELSE "idle"

(* UpdatePlayList: the playlist is opened, which empties it, then written. *)
(* Nobody checks whether it was.                                           *)
TruncatePlaylist ==
  /\ pc = "truncate"
  /\ \E ok \in Outcome("OpenPlaylist") :
       IF ok
       THEN playlist' = {} /\ pc' = "list"
       ELSE pc' = AfterPlaylist /\ UNCHANGED playlist
  /\ UNCHANGED <<times, error, segment, files, damaged, ctl, client, unopened>>

(* Mutant: one segment too many. *)
WindowWide ==
  LET n == IF count > PlaylistLen THEN PlaylistLen ELSE count
  IN  index - n .. index

(* Mutant: the playlist ends with the segment before. *)
WindowStale ==
  LET n == IF count > PlaylistLen THEN PlaylistLen ELSE count
  IN  index - n .. index - 1

(* Mutant: the window that slides is a segment short. *)
WindowNarrow ==
  LET n == IF count > PlaylistLen THEN PlaylistLen - 1 ELSE count
  IN  index - (n - 1) .. index

Window ==
  LET n == IF count > PlaylistLen THEN PlaylistLen ELSE count
  IN  index - (n - 1) .. index

WritePlaylist ==
  /\ pc = "list"
  /\ pc' = AfterPlaylist
  /\ \E ok \in Outcome("WritePlaylist") :
       playlist' = IF ok THEN Window ELSE {}
  /\ age' = age + 1
  /\ UNCHANGED <<times, error, segment, files, damaged, ctl, player,
                 unopened>>

(* Mutant: the delay for caches is a segment short. *)
OldSegmentTooNew == index - (PlaylistLen + CacheDelay) + 1

OldSegment == index - (PlaylistLen + CacheDelay)

DeleteOld ==
  /\ pc = "unlink"
  /\ pc' = "idle"
  /\ files' = files \ {OldSegment}
  /\ damaged' = damaged \intersect files'
  /\ UNCHANGED <<times, error, segment, playlist, ctl, client, unopened>>

Segmenter ==
  \/ Receive \/ OpenSegment \/ WriteGop \/ CloseSegment
  \/ TruncatePlaylist \/ WritePlaylist \/ DeleteOld

-----------------------------------------------------------------------------
(* A player reads the playlist, through the web server: a step of the      *)
(* module that composes this one with a player.                            *)
ReadPlaylist ==
  /\ player' = playlist
  /\ age' = 0
  /\ UNCHANGED <<times, error, segment, folder, pc, ctl, unopened>>

Next == Owner \/ Segmenter

Spec == Init /\ [][Next]_vars

-----------------------------------------------------------------------------
(* The file being written is the one of index. *)
Writing == pc \in {"write", "close"} \/ duration > 0

Complete == files \ (damaged \union (IF Writing THEN {index} ELSE {}))

(* Types of the variables. *)
TypeOK ==
  /\ {inTime, outTime, lostTime, segTime, index, count, duration, age,
      unopened} \subseteq Nat
  /\ error \in {"UNKNOWN", "STOP", "RUN", "FAIL"}
  /\ damaged \subseteq files /\ files \subseteq 1 .. index
  /\ playlist \subseteq 1 .. index /\ player \subseteq 1 .. index
  /\ pc \in {"idle", "open", "write", "close", "truncate", "list", "unlink"}
  /\ ctl \in {"add", "running", "mark", "stopped"}

(* The folder does not grow: it holds the last segments only. *)
RetentionBound == files \subseteq index - (PlaylistLen + CacheDelay) .. index

(* What came in is what was written, what was counted as lost, and the GOP *)
(* under way, but for the GOPs that came while no file could be opened: a  *)
(* GOP is not counted as lost and then written, nor forgotten otherwise.   *)
TimeConserved ==
  LET underWay == IF pc \in {"open", "write"} THEN GopMs ELSE 0
  IN  inTime = outTime + lostTime + underWay + unopened

-----------------------------------------------------------------------------
Live == INSTANCE HlsLive
          WITH Segments <- 1 .. MaxGops, stored <- Complete, listed <- playlist

LiveSpec == Live!Spec
=============================================================================
