-------------------------- MODULE HlsClient_proofs --------------------------
(***************************************************************************)
(* The publisher to a folder and the player that plays it, for every       *)
(* duration of GOPs and segments, any number of them, and any number of    *)
(* reads of a segment, whether or not requests fail.  What depends on the  *)
(* calls on the file system that may fail says so.                         *)
(***************************************************************************)
EXTENDS HlsClient, TLAPS

(* A segment has a number and is not closed yet.                           *)
Opened == pc \in {"open", "write", "close"} \/ duration > 0
Numbers == count + (IF Opened THEN 1 ELSE 0)

(* The steps of ReceiveGop after a segment is closed.                      *)
Closing == {"truncate", "list", "unlink"}

Phases ==
  /\ pc \in Closing \union {"open"} => duration = 0
  /\ pc \in Closing => count > 0
  /\ pc = "write" \/ duration > 0 => index \in files

(* Every GOP received so far opened at most one segment.                   *)
Budget == \E n \in 0 .. MaxGops : inTime = n * GopMs /\ index <= n

Base == TypeOK /\ Phases /\ Numbers <= index

(* The least segment that a playlist written now, or at the end of the     *)
(* segment that is open, names.                                            *)
First == index - (IF Numbers < 3 THEN Numbers ELSE 3) + 1

(* A segment is numbered, or kept, closed or given up.                     *)
Moves ==
  \/ index' = index + 1 /\ Numbers' = Numbers + 1
  \/ index' = index /\ Numbers' \in {Numbers, Numbers - 1}

-----------------------------------------------------------------------------
(* Sets of consecutive segments.                                           *)

LEMMA MinInterval ==
  ASSUME NEW a \in Int, NEW b \in Int, a <= b
  PROVE  Min(a .. b) = a
<1>1. a \in a .. b /\ \A y \in a .. b : a <= y
  OBVIOUS
<1>2. \A x \in a .. b : (\A y \in a .. b : x <= y) => x = a
  OBVIOUS
<1> QED BY <1>1, <1>2 DEF Min

(* What a playlist names is stored under numbers already given.            *)
LEMMA WindowBounds ==
  ASSUME Base, pc = "list"
  PROVE  /\ Pub!Window = First .. index
         /\ First \in Nat /\ 1 <= First /\ First <= index
<1>1. count \in Nat /\ index \in Nat /\ duration \in Nat
  BY DEF Base, TypeOK, Pub!TypeOK
<1>2. duration = 0 /\ count > 0
  BY DEF Base, Phases, Closing
<1>3. Numbers = count
  BY <1>1, <1>2 DEF Numbers, Opened
<1>4. count <= index
  BY <1>3 DEF Base
<1>5. First = index - (IF count < 3 THEN count ELSE 3) + 1
  BY <1>3 DEF First
<1>6. Pub!Window = index - ((IF count > 3 THEN 3 ELSE count) - 1) .. index
  BY DEF Pub!Window, Pub!PlaylistLen
<1>7. CASE count < 3
  <2>1. index - (count - 1) = index - count + 1
    BY <1>1
  <2> QED BY <1>1, <1>2, <1>4, <1>5, <1>6, <1>7, <2>1
<1>8. CASE count >= 3
  <2>1. index - (3 - 1) = index - 3 + 1 /\ (count > 3 \/ count = 3)
    BY <1>1, <1>8
  <2>2. Pub!Window = index - 3 + 1 .. index
    BY <1>6, <2>1
  <2>3. First = index - 3 + 1
    BY <1>1, <1>5, <1>8
  <2> QED BY <1>1, <1>4, <1>8, <2>2, <2>3
<1> QED BY <1>1, <1>7, <1>8

-----------------------------------------------------------------------------
(* Types and phases.                                                       *)

LEMMA InitBase == Init => Base
<1> SUFFICES ASSUME Init PROVE Base
  OBVIOUS
<1>1. /\ inTime = 0 /\ outTime = 0 /\ lostTime = 0 /\ segTime = 0 /\ unopened = 0
      /\ error = "UNKNOWN" /\ index = 0 /\ count = 0 /\ duration = 0 /\ age = 0
      /\ files = {} /\ damaged = {} /\ playlist = {} /\ player = {}
      /\ pc = "idle" /\ ctl = "add"
      /\ run = TRUE /\ thread = "update" /\ prevSeq = -1 /\ current = 0 /\ left = 0
  BY DEF Init, Pub!Init
<1>2. Pub!TypeOK
  BY <1>1 DEF Pub!TypeOK
<1>3. Reads \in Nat
  BY ClientAssumption
<1>4. TypeOK
  BY <1>1, <1>2, <1>3 DEF TypeOK
<1>5. Phases /\ Numbers = 0
  BY <1>1 DEF Phases, Closing, Numbers, Opened
<1> QED BY <1>1, <1>4, <1>5 DEF Base

(* What the reader leaves alone when the publisher steps keeps its type,   *)
(* as long as segments are only added.                                     *)
LEMMA PublisherTypes ==
  ASSUME Base, UNCHANGED reader, Pub!TypeOK', index' \in Nat, index <= index'
  PROVE  TypeOK'
<1>1. index \in Nat
  BY DEF Base, TypeOK, Pub!TypeOK
<1>2. \A n \in 1 .. index : n \in 1 .. index'
  BY <1>1
<1>3. \A n \in 0 .. index : n \in 0 .. index'
  BY <1>1
<1>4. prevSeq \in {-1} \union (1 .. index) /\ current \in 0 .. index
  BY DEF Base, TypeOK
<1>5. UNCHANGED <<run, thread, prevSeq, current, left>>
  BY DEF reader
<1>6. prevSeq' \in {-1} \union (1 .. index') /\ current' \in 0 .. index'
  BY <1>2, <1>3, <1>4, <1>5
<1>7. run' \in BOOLEAN /\ thread' \in {"update", "open", "read", "demux", "ended"} /\ left' \in 0 .. Reads
  BY <1>5 DEF Base, TypeOK
<1> QED BY <1>6, <1>7 DEF TypeOK

(* The owner calls nothing that concerns the segments.                     *)
LEMMA OwnerBase ==
  ASSUME Base, Pub!Owner, UNCHANGED reader
  PROVE  /\ Base' /\ Moves
         /\ UNCHANGED <<inTime, outTime, lostTime, segTime, index, count, duration, files, damaged, playlist,
                        pc, player, age, unopened>>
<1>1. /\ UNCHANGED <<inTime, outTime, lostTime, segTime, index, count, duration, files, damaged, playlist,
                     pc, player, age, unopened>>
      /\ error' \in {error, "RUN", "STOP"} /\ ctl' \in {"running", "mark", "stopped"}
  BY DEF Pub!Owner, Pub!Run, Pub!RemovePublisher, Pub!MarkStopped, Pub!times, Pub!segment, Pub!folder, Pub!client
<1>2. Pub!TypeOK
  BY DEF Base, TypeOK
<1>3. error' \in {"UNKNOWN", "STOP", "RUN", "FAIL"} /\ ctl' \in {"add", "running", "mark", "stopped"}
  BY <1>1, <1>2 DEF Pub!TypeOK
<1>4. Pub!TypeOK'
  BY <1>1, <1>2, <1>3 DEF Pub!TypeOK
<1>5. index' \in Nat /\ index <= index'
  BY <1>1, <1>2 DEF Pub!TypeOK
<1>6. TypeOK'
  BY <1>4, <1>5, PublisherTypes
<1>7. Phases' /\ Numbers' = Numbers
  BY <1>1 DEF Base, Phases, Numbers, Opened
<1> QED BY <1>1, <1>6, <1>7 DEF Base, Moves

(* The calls of ReceiveGop.                                                *)
LEMMA SegmenterBase == ASSUME Base, Pub!Segmenter, UNCHANGED reader PROVE Base' /\ Moves
<1> USE DEF Pub!times, Pub!segment, Pub!folder, Pub!client
<1> DEFINE typed == /\ {inTime', outTime', lostTime', segTime', index', count', duration', age', unopened'} \subseteq Nat
                    /\ error' \in {"UNKNOWN", "STOP", "RUN", "FAIL"}
                    /\ damaged' \subseteq files' /\ files' \subseteq 1 .. index'
                    /\ playlist' \subseteq 1 .. index' /\ player' \subseteq 1 .. index'
                    /\ pc' \in {"idle", "open", "write", "close", "truncate", "list", "unlink"}
                    /\ ctl' \in {"add", "running", "mark", "stopped"}
<1>0. /\ {inTime, outTime, lostTime, segTime, index, count, duration, age, unopened} \subseteq Nat
      /\ error \in {"UNKNOWN", "STOP", "RUN", "FAIL"}
      /\ damaged \subseteq files /\ files \subseteq 1 .. index
      /\ playlist \subseteq 1 .. index /\ player \subseteq 1 .. index
      /\ ctl \in {"add", "running", "mark", "stopped"}
  BY DEF Base, TypeOK, Pub!TypeOK
<1>a. GopMs \in Nat \ {0}
  BY PublisherAssumption DEF Pub!MemFileAssumption
<1>b. ASSUME typed, index <= index', Phases', Numbers' <= index', Moves PROVE Base' /\ Moves
  <2>1. Pub!TypeOK'
    BY <1>b DEF Pub!TypeOK
  <2> QED BY <1>b, <2>1, PublisherTypes DEF Base
<1>1. CASE Pub!Receive
  <2>1. /\ inTime' = inTime + GopMs
        /\ \/ duration = 0 /\ pc' = "open" /\ index' = index + 1
           \/ duration > 0 /\ pc' = "write" /\ index' = index
        /\ UNCHANGED <<outTime, lostTime, segTime, error, count, duration, files, damaged, playlist, ctl,
                       player, age, unopened>>
        /\ pc = "idle"
    BY <1>1, <1>0 DEF Pub!Receive
  <2>2. 1 .. index \subseteq 1 .. index' /\ index' \in Nat /\ index <= index'
    BY <1>0, <2>1
  <2>3. inTime' \in Nat
    BY <1>0, <1>a, <2>1
  <2>4. typed
    BY <1>0, <2>1, <2>2, <2>3
  <2>5. Phases'
    BY <1>0, <2>1 DEF Base, Phases, Closing
  <2>6. Numbers <= index
    BY DEF Base
  <2>7. Numbers' <= index' /\ Moves
    <3>1. CASE duration = 0
      <4>1. Numbers = count /\ Numbers' = count + 1 /\ index' = index + 1
        BY <1>0, <2>1, <3>1 DEF Numbers, Opened
      <4> QED BY <1>0, <2>6, <4>1 DEF Moves
    <3>2. CASE duration > 0
      <4>1. Numbers = count + 1 /\ Numbers' = count + 1 /\ index' = index
        BY <1>0, <2>1, <3>2 DEF Numbers, Opened
      <4> QED BY <2>6, <4>1 DEF Moves
    <3> QED BY <2>1, <3>1, <3>2
  <2> QED BY <1>b, <2>2, <2>4, <2>5, <2>7
<1>2. CASE Pub!OpenSegment
  <2>1. /\ pc = "open"
        /\ \/ pc' = "write" /\ files' = files \union {index}
           \/ pc' = "idle" /\ files' = files
        /\ error' \in {error, "FAIL"} /\ unopened' \in {unopened, unopened + GopMs}
        /\ UNCHANGED <<inTime, outTime, lostTime, segTime, index, count, duration, damaged, playlist, ctl,
                       player, age>>
    BY <1>2 DEF Pub!OpenSegment
  <2>2. duration = 0 /\ Numbers = count + 1 /\ Numbers <= index
    BY <2>1 DEF Base, Phases, Numbers, Opened
  <2>3. unopened' \in Nat
    BY <1>0, <1>a, <2>1
  <2>4. files' \subseteq 1 .. index' /\ damaged' \subseteq files'
    <3>1. index \in 1 .. index
      BY <1>0, <2>2
    <3> QED BY <1>0, <2>1, <3>1
  <2>5. typed
    BY <1>0, <2>1, <2>3, <2>4
  <2>6. Phases'
    BY <2>1, <2>2 DEF Phases, Closing
  <2>7. Numbers' \in {count, count + 1}
    BY <1>0, <2>1 DEF Numbers
  <2>8. index <= index' /\ Numbers' <= index' /\ Moves
    BY <1>0, <2>1, <2>2, <2>7 DEF Moves
  <2> QED BY <1>b, <2>5, <2>6, <2>8
<1>3. CASE Pub!WriteGop
  <2>1. /\ pc = "write" /\ pc' \in {"close", "idle"}
        /\ damaged' \in {damaged, damaged \union {index}} /\ error' \in {error, "FAIL"}
        /\ duration' \in {duration, duration + GopMs} /\ outTime' \in {outTime, outTime + GopMs}
        /\ lostTime' \in {lostTime, lostTime + GopMs}
        /\ UNCHANGED <<inTime, segTime, index, count, files, playlist, ctl, player, age, unopened>>
    BY <1>3 DEF Pub!WriteGop, Pub!Lost
  <2>2. /\ outTime' \in Nat /\ lostTime' \in Nat /\ duration' \in Nat
    BY <1>0, <1>a, <2>1
  <2>3. index \in files
    BY <2>1 DEF Base, Phases
  <2>4. typed
    BY <1>0, <2>1, <2>2, <2>3
  <2>5. Phases'
    BY <2>1, <2>3 DEF Phases, Closing
  <2>6. Numbers = count + 1 /\ Numbers <= index
    BY <2>1 DEF Base, Numbers, Opened
  <2>7. Numbers' \in {count, count + 1}
    BY <1>0, <2>1 DEF Numbers
  <2>8. index <= index' /\ Numbers' <= index' /\ Moves
    BY <1>0, <2>1, <2>6, <2>7 DEF Moves
  <2> QED BY <1>b, <2>4, <2>5, <2>8
<1>4. CASE Pub!CloseSegment
  <2>1. /\ pc = "close" /\ pc' = "truncate" /\ segTime' = segTime + duration
        /\ duration' = 0 /\ count' = count + 1
        /\ UNCHANGED <<inTime, outTime, lostTime, error, index, files, damaged, playlist, ctl, player, age,
                       unopened>>
    BY <1>4 DEF Pub!CloseSegment
  <2>2. typed
    BY <1>0, <2>1
  <2>3. Phases'
    BY <1>0, <2>1 DEF Phases, Closing
  <2>4. Numbers = count + 1 /\ Numbers <= index
    BY <2>1 DEF Base, Numbers, Opened
  <2>5. Numbers' = count + 1
    BY <1>0, <2>1 DEF Numbers, Opened
  <2>6. index <= index' /\ Numbers' <= index' /\ Moves
    BY <1>0, <2>1, <2>4, <2>5 DEF Moves
  <2> QED BY <1>b, <2>2, <2>3, <2>6
<1>5. CASE Pub!TruncatePlaylist \/ Pub!WritePlaylist
  <2>1. /\ pc \in {"truncate", "list"} /\ pc' \in {"list", "unlink", "idle"}
        /\ age' \in {age, age + 1}
        /\ UNCHANGED <<inTime, outTime, lostTime, segTime, error, index, count, duration, files, damaged, ctl,
                       player, unopened>>
    BY <1>5 DEF Pub!TruncatePlaylist, Pub!WritePlaylist, Pub!AfterPlaylist
  <2>2. playlist' \subseteq 1 .. index
    <3>1. CASE Pub!TruncatePlaylist
      BY <1>0, <3>1 DEF Pub!TruncatePlaylist
    <3>2. CASE Pub!WritePlaylist
      <4>1. pc = "list" /\ playlist' \in {Pub!Window, {}}
        BY <3>2 DEF Pub!WritePlaylist
      <4>2. First .. index \subseteq 1 .. index
        BY <1>0, <4>1, WindowBounds
      <4> QED BY <4>1, <4>2, WindowBounds
    <3> QED BY <1>5, <3>1, <3>2
  <2>3. typed
    BY <1>0, <2>1, <2>2
  <2>4. duration = 0 /\ count > 0
    BY <2>1 DEF Base, Phases, Closing
  <2>5. Phases'
    BY <2>1, <2>4 DEF Phases, Closing
  <2>6. Numbers' = Numbers
    BY <2>1 DEF Numbers, Opened
  <2>7. index <= index' /\ Numbers' <= index' /\ Moves
    BY <1>0, <2>1, <2>6 DEF Base, Moves
  <2> QED BY <1>b, <2>3, <2>5, <2>7
<1>6. CASE Pub!DeleteOld
  <2>1. /\ pc = "unlink" /\ pc' = "idle"
        /\ files' \subseteq files /\ damaged' = damaged \intersect files'
        /\ UNCHANGED <<inTime, outTime, lostTime, segTime, error, index, count, duration, playlist, ctl,
                       player, age, unopened>>
    BY <1>6 DEF Pub!DeleteOld
  <2>2. typed
    BY <1>0, <2>1
  <2>3. duration = 0
    BY <2>1 DEF Base, Phases, Closing
  <2>4. Phases'
    BY <2>1, <2>3 DEF Phases, Closing
  <2>5. Numbers' = Numbers
    BY <2>1 DEF Numbers, Opened
  <2>6. index <= index' /\ Numbers' <= index' /\ Moves
    BY <1>0, <2>1, <2>5 DEF Base, Moves
  <2> QED BY <1>b, <2>2, <2>4, <2>6
<1> QED BY <1>1, <1>2, <1>3, <1>4, <1>5, <1>6 DEF Pub!Segmenter

(* The reader, and its owner: only the playlist it has read changes in the *)
(* publisher's module.                                                     *)
LEMMA ReaderSteps ==
  ASSUME Base, Thread \/ StopStreaming
  PROVE  /\ UNCHANGED <<inTime, outTime, lostTime, segTime, error, index, count, duration, files, damaged,
                        playlist, pc, ctl, unopened>>
         /\ \/ UpdatePlayList
            \/ /\ UNCHANGED <<player, age, prevSeq>>
               /\ thread' # "open" \/ thread' = thread
               /\ \/ UNCHANGED current
                  \/ thread = "open" /\ thread' # "open" /\ current' = CrntSegment /\ HasSegment
         /\ run' \in BOOLEAN
         /\ thread' \in {"update", "open", "read", "demux", "ended"}
         /\ left' \in 0 .. Reads
<1> USE DEF pubVars
<1>0. /\ run \in BOOLEAN /\ thread \in {"update", "open", "read", "demux", "ended"}
      /\ left \in 0 .. Reads
  BY DEF Base, TypeOK
<1>1. CASE UpdatePlayList
  BY <1>0, <1>1 DEF UpdatePlayList, Pub!ReadPlaylist, Pub!times, Pub!segment, Pub!folder
<1>2. CASE FirstIsEmpty \/ UpdateFails
  BY <1>0, <1>2 DEF FirstIsEmpty, UpdateFails
<1>3. CASE OpenSegment
  <2>1. Reads \in 0 .. Reads
    BY ClientAssumption
  <2> QED BY <1>0, <1>3, <2>1 DEF OpenSegment
<1>4. CASE ReadSegment
  <2>1. left > 0 /\ left' = left - 1
    BY <1>4 DEF ReadSegment
  <2>2. left' \in 0 .. Reads
    BY <1>0, <2>1, ClientAssumption
  <2> QED BY <1>0, <1>4, <2>2 DEF ReadSegment
<1>5. CASE EndOfSegment
  BY <1>0, <1>5 DEF EndOfSegment
<1>6. CASE Demux
  BY <1>0, <1>6 DEF Demux
<1>7. CASE StopStreaming
  BY <1>0, <1>7 DEF StopStreaming
<1> QED BY <1>1, <1>2, <1>3, <1>4, <1>5, <1>6, <1>7 DEF Thread

-----------------------------------------------------------------------------
(* Where playlists begin, whatever calls fail.                             *)

(* No playlist begins before the one the player has read, and those to     *)
(* come do not begin before the last.                                      *)
Listed ==
  /\ prevSeq <= First
  /\ \E a, b \in Nat : playlist = a .. b /\ (a <= b => prevSeq <= a /\ a <= First)

(* The player has requested the first segment of its playlist, or a        *)
(* segment before it.                                                      *)
Played ==
  \/ player = {} /\ prevSeq = -1 /\ current = 0 /\ thread # "open"
  \/ /\ \E a, b \in Nat : a <= b /\ player = a .. b /\ prevSeq = a
     /\ current <= prevSeq
     /\ thread = "open" => current < prevSeq

IInv == Base /\ Listed /\ Played

LEMMA FirstGrows ==
  ASSUME Base, Base', Moves
  PROVE  First \in Int /\ First' \in Int /\ First <= First'
<1>1. /\ index \in Nat /\ index' \in Nat /\ Numbers \in Nat /\ Numbers' \in Nat
  BY DEF Base, TypeOK, Pub!TypeOK, Numbers
<1>2. \A n \in Nat : LET f(m) == IF m < 3 THEN m ELSE 3
                     IN  f(n) \in Nat /\ f(n + 1) \in {f(n), f(n) + 1} /\ (n > 0 => f(n - 1) <= f(n))
  OBVIOUS
<1>3. CASE index' = index + 1 /\ Numbers' = Numbers + 1
  BY <1>1, <1>2, <1>3 DEF First
<1>4. CASE index' = index /\ Numbers' = Numbers
  BY <1>1, <1>4 DEF First
<1>5. CASE index' = index /\ Numbers' = Numbers - 1
  BY <1>1, <1>5 DEF First
<1> QED BY <1>3, <1>4, <1>5 DEF Moves

LEMMA PublisherLists ==
  ASSUME IInv, Publisher
  PROVE  IInv' /\ UNCHANGED <<player, prevSeq>>
<1> USE DEF IInv
<1>1. UNCHANGED <<run, thread, prevSeq, current, left, player>>
  BY DEF Publisher, reader, Pub!Owner, Pub!Run, Pub!RemovePublisher, Pub!MarkStopped, Pub!Segmenter, Pub!Receive,
         Pub!OpenSegment, Pub!WriteGop, Pub!CloseSegment, Pub!TruncatePlaylist, Pub!WritePlaylist, Pub!DeleteOld,
         Pub!client
<1>2. Base' /\ Moves
  BY OwnerBase, SegmenterBase DEF Publisher
<1>3. First \in Int /\ First' \in Int /\ First <= First' /\ prevSeq \in Int
  BY <1>2, FirstGrows DEF Base, TypeOK
<1>4. Played'
  BY <1>1 DEF Played
<1>5. \/ playlist' \in {playlist, {}}
      \/ pc = "list" /\ playlist' = Pub!Window /\ index' = index
  BY DEF Publisher, Pub!Owner, Pub!Run, Pub!RemovePublisher, Pub!MarkStopped, Pub!Segmenter, Pub!Receive,
         Pub!OpenSegment, Pub!WriteGop, Pub!CloseSegment, Pub!TruncatePlaylist, Pub!WritePlaylist, Pub!DeleteOld,
         Pub!folder, Pub!segment
<1>6. prevSeq <= First'
  BY <1>3 DEF Listed
<1>7. \E a, b \in Nat : playlist' = a .. b /\ (a <= b => prevSeq <= a /\ a <= First')
  <2>1. CASE playlist' = playlist
    <3>1. PICK a \in Nat, b \in Nat : playlist = a .. b /\ (a <= b => prevSeq <= a /\ a <= First)
      BY DEF Listed
    <3>2. a <= b => a <= First'
      BY <1>3, <3>1
    <3> QED BY <2>1, <3>1, <3>2
  <2>2. CASE playlist' = {}
    <3>1. {} = 1 .. 0 /\ ~(1 <= 0)
      OBVIOUS
    <3> QED BY <2>2, <3>1
  <2>3. CASE pc = "list" /\ playlist' = Pub!Window /\ index' = index
    <3>1. playlist' = First .. index /\ First \in Nat /\ First <= index
      BY <2>3, WindowBounds
    <3>2. index \in Nat
      BY DEF Base, TypeOK, Pub!TypeOK
    <3>3. prevSeq <= First
      BY DEF Listed
    <3> QED BY <1>3, <3>1, <3>2, <3>3
  <2> QED BY <1>5, <2>1, <2>2, <2>3
<1>8. Listed'
  BY <1>1, <1>6, <1>7 DEF Listed
<1> QED BY <1>1, <1>2, <1>4, <1>8

(* A playlist is read only if its head is not the one before.              *)
LEMMA UpdateLists ==
  ASSUME IInv, UpdatePlayList
  PROVE  /\ IInv'
         /\ \E a, b \in Nat : /\ a <= b /\ playlist = a .. b /\ prevSeq' = a /\ a <= First
                              /\ prevSeq < a
<1> USE DEF IInv
<1>1. /\ UNCHANGED <<inTime, outTime, lostTime, segTime, error, index, count, duration, files, damaged,
                     playlist, pc, ctl, unopened, run, current, left>>
      /\ playlist # {} /\ Min(playlist) # prevSeq
      /\ player' = playlist /\ age' = 0
      /\ prevSeq' = Min(playlist) /\ thread' = "open"
  BY DEF UpdatePlayList, IsNew, Pub!ReadPlaylist, Pub!times, Pub!segment, Pub!folder
<1>2. PICK a \in Nat, b \in Nat : playlist = a .. b /\ (a <= b => prevSeq <= a /\ a <= First)
  BY DEF Listed
<1>3. a <= b
  BY <1>1, <1>2
<1>4. prevSeq' = a /\ prevSeq # a
  BY <1>1, <1>2, <1>3, MinInterval
<1>5. /\ prevSeq \in Int /\ current \in Int /\ index \in Nat /\ playlist \subseteq 1 .. index
      /\ {inTime, outTime, lostTime, segTime, index, count, duration, age, unopened} \subseteq Nat
  BY DEF Base, TypeOK, Pub!TypeOK
<1>6. prevSeq < a /\ a <= First
  BY <1>2, <1>3, <1>4, <1>5
<1>7. a \in 1 .. index
  BY <1>2, <1>3, <1>5
<1>8. TypeOK'
  <2>1. Pub!TypeOK'
    <3>1. Pub!TypeOK
      BY DEF Base, TypeOK
    <3> QED BY <1>1, <3>1 DEF Pub!TypeOK
  <2>2. prevSeq' \in {-1} \union (1 .. index')
    BY <1>1, <1>4, <1>7
  <2>3. run' \in BOOLEAN /\ current' \in 0 .. index' /\ left' \in 0 .. Reads
    BY <1>1 DEF Base, TypeOK
  <2> QED BY <1>1, <2>1, <2>2, <2>3 DEF TypeOK
<1>9. Phases' /\ Numbers' = Numbers /\ First' = First
  BY <1>1 DEF Base, Phases, Numbers, Opened, First
<1>10. Base'
  BY <1>1, <1>8, <1>9 DEF Base
<1>11. Listed'
  BY <1>1, <1>2, <1>3, <1>4, <1>6, <1>9 DEF Listed
<1>12. current < a
  <2>1. CASE current = 0
    BY <1>7, <2>1
  <2>2. CASE current <= prevSeq
    BY <1>5, <1>6, <2>2
  <2> QED BY <2>1, <2>2 DEF Played
<1>13. Played'
  BY <1>1, <1>2, <1>3, <1>4, <1>5, <1>12 DEF Played
<1> QED BY <1>2, <1>3, <1>4, <1>6, <1>10, <1>11, <1>13

(* The other steps of the reader: what it opens is the head of its         *)
(* playlist.                                                               *)
LEMMA ReaderLists ==
  ASSUME IInv, Thread \/ StopStreaming, ~UpdatePlayList
  PROVE  /\ IInv'
         /\ UNCHANGED <<index, count, duration, files, damaged, playlist, pc, player, age, prevSeq>>
         /\ Starts => current' > current
<1> USE DEF IInv
<1>1. Base
  OBVIOUS
<1>2. /\ UNCHANGED <<inTime, outTime, lostTime, segTime, error, index, count, duration, files, damaged,
                     playlist, pc, ctl, unopened, player, age, prevSeq>>
      /\ thread' # "open" \/ thread' = thread
      /\ \/ UNCHANGED current
         \/ thread = "open" /\ thread' # "open" /\ current' = CrntSegment
      /\ run' \in BOOLEAN
      /\ thread' \in {"update", "open", "read", "demux", "ended"}
      /\ left' \in 0 .. Reads
  BY <1>1, ReaderSteps
<1>3. ASSUME thread = "open"
      PROVE  CrntSegment = prevSeq /\ current < prevSeq /\ prevSeq \in 1 .. index
  <2>1. current < prevSeq /\ \E a, b \in Nat : a <= b /\ player = a .. b /\ prevSeq = a
    BY <1>3 DEF Played
  <2>2. PICK a \in Nat, b \in Nat : a <= b /\ player = a .. b /\ prevSeq = a
    BY <2>1
  <2>3. a \in player /\ player \subseteq 1 .. index
    BY <2>2 DEF Base, TypeOK, Pub!TypeOK
  <2>4. Min(player) = a
    BY <2>2, MinInterval
  <2> QED BY <2>1, <2>2, <2>3, <2>4 DEF CrntSegment
<1>4. index \in Nat /\ current \in 0 .. index
  BY DEF Base, TypeOK, Pub!TypeOK
<1>5. current' \in 0 .. index
  BY <1>2, <1>3, <1>4
<1>6. TypeOK'
  <2>1. Pub!TypeOK /\ prevSeq \in {-1} \union (1 .. index)
    BY DEF Base, TypeOK
  <2>2. Pub!TypeOK'
    BY <1>2, <2>1 DEF Pub!TypeOK
  <2> QED BY <1>2, <1>5, <2>1, <2>2 DEF TypeOK
<1>7. Phases' /\ Numbers' = Numbers /\ First' = First
  BY <1>2 DEF Base, Phases, Numbers, Opened, First
<1>8. Base' /\ Listed'
  BY <1>2, <1>6, <1>7 DEF Base, Listed
<1>9. Played'
  <2>1. CASE thread = "open" /\ thread' # "open" /\ current' = CrntSegment
    <3>1. current' = prevSeq /\ prevSeq \in Int
      BY <1>3, <2>1
    <3>2. \E a, b \in Nat : a <= b /\ player = a .. b /\ prevSeq = a
      BY <2>1 DEF Played
    <3> QED BY <1>2, <2>1, <3>1, <3>2 DEF Played
  <2>2. CASE UNCHANGED current
    BY <1>2, <2>2 DEF Played
  <2> QED BY <1>2, <2>1, <2>2
<1>10. Starts => current' > current
  <2> SUFFICES ASSUME Starts PROVE current' > current
    OBVIOUS
  <2>1. thread = "open" /\ thread' = "read"
    BY DEF Starts
  <2>2. OpenSegment
    BY <2>1 DEF Thread, FirstIsEmpty, UpdateFails, ReadSegment, EndOfSegment, Demux, StopStreaming
  <2>3. current' = CrntSegment
    BY <2>1, <2>2 DEF OpenSegment
  <2> QED BY <1>3, <1>4, <2>1, <2>3
<1> QED BY <1>2, <1>8, <1>9, <1>10

LEMMA InitLists == Init => IInv
<1> SUFFICES ASSUME Init PROVE IInv
  OBVIOUS
<1>1. /\ index = 0 /\ count = 0 /\ duration = 0 /\ playlist = {} /\ player = {} /\ pc = "idle"
      /\ thread = "update" /\ prevSeq = -1 /\ current = 0
  BY DEF Init, Pub!Init
<1>2. First = 1
  BY <1>1 DEF First, Numbers, Opened
<1>3. {} = 1 .. 0 /\ ~(1 <= 0)
  OBVIOUS
<1>4. Listed
  BY <1>1, <1>2, <1>3 DEF Listed
<1>5. Played
  BY <1>1 DEF Played
<1> QED BY <1>4, <1>5, InitBase DEF IInv

LEMMA StutterLists == IInv /\ UNCHANGED vars => IInv' /\ UNCHANGED <<thread, current>>
<1> SUFFICES ASSUME IInv, UNCHANGED vars PROVE IInv' /\ UNCHANGED <<thread, current>>
  OBVIOUS
<1>1. UNCHANGED <<inTime, outTime, lostTime, segTime, error, index, count, duration, files, damaged, playlist, pc,
                  ctl, player, age, unopened, run, thread, prevSeq, current, left>>
  BY DEF vars, pubVars, reader
<1>2. TypeOK /\ Pub!TypeOK
  BY DEF IInv, Base, TypeOK
<1>3. Pub!TypeOK'
  BY <1>1, <1>2 DEF Pub!TypeOK
<1>4. TypeOK'
  BY <1>1, <1>2, <1>3 DEF TypeOK
<1>5. Phases' /\ Numbers' = Numbers /\ First' = First
  BY <1>1 DEF IInv, Base, Phases, Numbers, Opened, First
<1> QED BY <1>1, <1>4, <1>5 DEF IInv, Base, Listed, Played

LEMMA ListsInvariant == Spec => []IInv
<1>1. IInv /\ [Next]_vars => IInv'
  BY PublisherLists, UpdateLists, ReaderLists, StutterLists DEF Next
<1> QED BY InitLists, <1>1, PTL DEF Spec

(* The variables of publisher and player keep their types, whatever calls  *)
(* on the file system and requests fail: segments are never listed or      *)
(* played under a number that was not given.                               *)
THEOREM FolderAndPlayerTypes == Spec => []TypeOK
<1>1. IInv => TypeOK
  BY DEF IInv, Base
<1> QED BY <1>1, ListsInvariant, PTL

(* Whatever calls on the file system and requests fail, and however often  *)
(* the player asks again: no segment is played twice, and none after a     *)
(* later one.                                                              *)
THEOREM NoneTwice == Spec => [][Starts => current' > current]_vars
<1>1. IInv /\ [Next]_vars => [Starts => current' > current]_vars
  <2> SUFFICES ASSUME IInv, Next PROVE Starts => current' > current
    BY DEF Next
  <2>1. CASE Publisher
    BY <2>1 DEF Publisher, reader, Starts
  <2>2. CASE UpdatePlayList
    BY <2>2 DEF UpdatePlayList, Starts
  <2>3. CASE (Thread \/ StopStreaming) /\ ~UpdatePlayList
    BY <2>3, ReaderLists
  <2> QED BY <2>1, <2>2, <2>3 DEF Next
<1> QED BY <1>1, ListsInvariant, PTL DEF Spec

-----------------------------------------------------------------------------
(* The time of the GOPs.                                                   *)

UnderWay == IF pc \in {"open", "write"} THEN GopMs ELSE 0

LEMMA TimeSteps ==
  ASSUME IInv, Pub!TimeConserved, [Next]_vars
  PROVE  Pub!TimeConserved'
<1> USE DEF Pub!times, Pub!segment, Pub!folder, Pub!client
<1>0. /\ {inTime, outTime, lostTime, unopened, duration} \subseteq Nat
      /\ inTime = outTime + lostTime + UnderWay + unopened
      /\ GopMs \in Nat
  BY PublisherAssumption DEF IInv, Base, TypeOK, Pub!TypeOK, Pub!TimeConserved, UnderWay, Pub!MemFileAssumption
<1>a. Pub!TimeConserved' <=> inTime' = outTime' + lostTime' + UnderWay' + unopened'
  BY DEF Pub!TimeConserved, UnderWay
<1>1. CASE Pub!Receive
  <2>1. /\ inTime' = inTime + GopMs /\ UnderWay = 0 /\ UnderWay' = GopMs
        /\ UNCHANGED <<outTime, lostTime, unopened>>
    BY <1>1 DEF Pub!Receive, UnderWay
  <2> QED BY <1>0, <1>a, <2>1
<1>2. CASE Pub!OpenSegment
  <2>1. /\ UNCHANGED <<inTime, outTime, lostTime>> /\ UnderWay = GopMs
        /\ \/ UnderWay' = GopMs /\ unopened' = unopened
           \/ UnderWay' = 0 /\ unopened' = unopened + GopMs
    BY <1>2 DEF Pub!OpenSegment, UnderWay
  <2> QED BY <1>0, <1>a, <2>1
<1>3. CASE Pub!WriteGop
  <2>1. /\ UNCHANGED <<inTime, unopened>> /\ UnderWay = GopMs /\ UnderWay' = 0
        /\ \/ outTime' = outTime + GopMs /\ lostTime' = lostTime
           \/ lostTime' = lostTime + GopMs /\ outTime' = outTime
    BY <1>3 DEF Pub!WriteGop, Pub!Lost, UnderWay
  <2> QED BY <1>0, <1>a, <2>1
<1>4. CASE Pub!CloseSegment \/ Pub!TruncatePlaylist \/ Pub!WritePlaylist \/ Pub!DeleteOld
  <2>1. UNCHANGED <<inTime, outTime, lostTime, unopened>> /\ UnderWay = 0 /\ UnderWay' = 0
    BY <1>4 DEF Pub!CloseSegment, Pub!TruncatePlaylist, Pub!WritePlaylist, Pub!DeleteOld, Pub!AfterPlaylist,
                UnderWay
  <2> QED BY <1>0, <1>a, <2>1
<1>5. CASE Pub!Owner /\ UNCHANGED reader
  <2>1. UNCHANGED <<inTime, outTime, lostTime, unopened, pc>>
    BY <1>5, OwnerBase DEF IInv
  <2> QED BY <1>0, <1>a, <2>1 DEF UnderWay
<1>6. CASE Thread \/ StopStreaming \/ UNCHANGED vars
  <2>1. UNCHANGED <<inTime, outTime, lostTime, unopened, pc>>
    BY <1>6, ReaderSteps DEF IInv, vars, pubVars
  <2> QED BY <1>0, <1>a, <2>1 DEF UnderWay
<1> QED BY <1>1, <1>2, <1>3, <1>4, <1>5, <1>6 DEF Next, Publisher, Pub!Segmenter

(* Every GOP that came in was written, counted as lost, or came while no   *)
(* file could be opened, but for the one under way, whatever calls fail.   *)
THEOREM TimeOfGops == Spec => []Pub!TimeConserved
<1>1. Init => Pub!TimeConserved
  BY DEF Init, Pub!Init, Pub!TimeConserved
<1>2. IInv /\ Pub!TimeConserved /\ [Next]_vars => Pub!TimeConserved'
  BY TimeSteps
<1> QED BY <1>1, <1>2, ListsInvariant, PTL DEF Spec

-----------------------------------------------------------------------------
(* The files, if every segment can be opened and written.                  *)

Steady == Faults \intersect {"Open", "Write"} = {}

(* The last segments: one more until the oldest is deleted.                *)
AtLeast1(n) == IF n < 1 THEN 1 ELSE n
Oldest == AtLeast1(IF pc \in Closing THEN count - 6 ELSE count - 5)

Folder ==
  /\ damaged = {} /\ index = Numbers
  /\ files = Oldest .. (IF pc = "open" THEN count ELSE index)
  /\ pc = "unlink" => count > 6

LEMMA Intervals ==
  /\ \A a, b \in Int : a <= b + 1 => (a .. b) \union {b + 1} = a .. (b + 1)
  /\ \A a, b \in Int : a <= b => (a .. b) \ {a} = (a + 1) .. b
  /\ \A a, b \in Int : a <= b + 1 => (a .. (b + 1)) \ {b + 1} = a .. b
  OBVIOUS

LEMMA FolderSteps ==
  ASSUME Steady, Base, Base', Folder, Publisher
  PROVE  Folder'
<1> USE DEF Pub!times, Pub!segment, Pub!folder, Pub!client
<1>0. /\ count \in Nat /\ index \in Nat /\ duration \in Nat
      /\ damaged = {} /\ index = Numbers /\ files = Oldest .. (IF pc = "open" THEN count ELSE index)
      /\ GopMs \in Nat \ {0}
  BY PublisherAssumption DEF Base, TypeOK, Pub!TypeOK, Folder, Pub!MemFileAssumption
<1>1. CASE Pub!Receive
  <2>1. /\ pc = "idle" /\ UNCHANGED <<count, duration, files, damaged>>
        /\ \/ duration = 0 /\ pc' = "open" /\ index' = index + 1
           \/ duration > 0 /\ pc' = "write" /\ index' = index
    BY <1>0, <1>1 DEF Pub!Receive
  <2>2. Oldest' = Oldest
    BY <2>1 DEF Oldest, Closing
  <2>3. CASE duration = 0
    <3>1. Numbers = count /\ Numbers' = count + 1 /\ pc' = "open" /\ index' = index + 1
      BY <1>0, <2>1, <2>3 DEF Numbers, Opened
    <3> QED BY <1>0, <2>1, <2>2, <3>1 DEF Folder
  <2>4. CASE duration > 0
    <3>1. Numbers' = Numbers /\ pc' = "write" /\ index' = index
      BY <1>0, <2>1, <2>4 DEF Numbers, Opened
    <3> QED BY <1>0, <2>1, <2>2, <3>1 DEF Folder
  <2> QED BY <2>1, <2>3, <2>4
<1>2. CASE Pub!OpenSegment
  <2>1. /\ pc = "open" /\ pc' = "write" /\ files' = files \union {index}
        /\ UNCHANGED <<index, count, duration, damaged>>
    BY <1>2 DEF Pub!OpenSegment, Pub!Outcome, Steady
  <2>2. Numbers = count + 1 /\ Numbers' = count + 1 /\ Oldest' = Oldest
    BY <2>1 DEF Numbers, Opened, Oldest, Closing
  <2>3. Oldest \in Int /\ Oldest <= count + 1
    BY <1>0, <2>1 DEF Oldest, AtLeast1, Closing
  <2>4. files' = Oldest .. (count + 1)
    BY <1>0, <2>1, <2>2, <2>3, Intervals
  <2> QED BY <1>0, <2>1, <2>2, <2>4 DEF Folder
<1>3. CASE Pub!WriteGop
  <2>1. /\ pc = "write" /\ pc' \in {"close", "idle"} /\ duration' = duration + GopMs
        /\ UNCHANGED <<index, count, files, damaged>>
    BY <1>3 DEF Pub!WriteGop, Pub!Outcome, Steady
  <2>2. Numbers = count + 1 /\ Numbers' = count + 1 /\ Oldest' = Oldest
    BY <1>0, <2>1 DEF Numbers, Opened, Oldest, Closing
  <2> QED BY <1>0, <2>1, <2>2 DEF Folder
<1>4. CASE Pub!CloseSegment
  <2>1. /\ pc = "close" /\ pc' = "truncate" /\ duration' = 0 /\ count' = count + 1
        /\ UNCHANGED <<index, files, damaged>>
    BY <1>4 DEF Pub!CloseSegment
  <2>2. Numbers = count + 1 /\ Numbers' = count + 1
    BY <1>0, <2>1 DEF Numbers, Opened
  <2>3. (count + 1) - 6 = count - 5
    BY <1>0
  <2>4. Oldest' = Oldest
    BY <2>1, <2>3 DEF Oldest, Closing
  <2> QED BY <1>0, <2>1, <2>2, <2>4 DEF Folder
<1>5. CASE Pub!TruncatePlaylist \/ Pub!WritePlaylist
  <2>1. /\ pc \in {"truncate", "list"} /\ pc' \in {"list", "unlink", "idle"}
        /\ pc' = "unlink" => count > 6
        /\ pc' = "idle" => ~(count > 6)
        /\ UNCHANGED <<index, count, duration, files, damaged>>
    BY <1>0, <1>5 DEF Pub!TruncatePlaylist, Pub!WritePlaylist, Pub!AfterPlaylist, Pub!PlaylistLen, Pub!CacheDelay
  <2>2. Numbers' = Numbers
    BY <2>1 DEF Numbers, Opened
  <2>3. Oldest' = Oldest
    BY <1>0, <2>1 DEF Oldest, Closing, AtLeast1
  <2> QED BY <1>0, <2>1, <2>2, <2>3 DEF Folder
<1>6. CASE Pub!DeleteOld
  <2>1. /\ pc = "unlink" /\ pc' = "idle" /\ files' = files \ {index - 6} /\ damaged' = damaged \intersect files'
        /\ UNCHANGED <<index, count, duration>> /\ count > 6
    BY <1>6 DEF Pub!DeleteOld, Pub!OldSegment, Pub!PlaylistLen, Pub!CacheDelay, Folder
  <2>2. duration = 0 /\ Numbers = count /\ Numbers' = count
    BY <1>0, <2>1 DEF Base, Phases, Closing, Numbers, Opened
  <2>3. Oldest = count - 6 /\ Oldest' = count - 5
    BY <1>0, <2>1 DEF Oldest, Closing, AtLeast1
  <2>4. files' = (count - 5) .. count
    <3>1. files = (count - 6) .. count /\ files' = files \ {count - 6}
      BY <1>0, <2>1, <2>2, <2>3
    <3>2. count - 6 \in Int /\ count - 6 <= count /\ (count - 6) + 1 = count - 5
      BY <1>0
    <3> QED BY <1>0, <3>1, <3>2, Intervals
  <2> QED BY <1>0, <2>1, <2>2, <2>3, <2>4 DEF Folder
<1>7. CASE Pub!Owner /\ UNCHANGED reader
  <2>1. UNCHANGED <<index, count, duration, files, damaged, pc>>
    BY <1>7, OwnerBase
  <2>2. Numbers' = Numbers /\ Oldest' = Oldest
    BY <2>1 DEF Numbers, Opened, Oldest
  <2> QED BY <2>1, <2>2 DEF Folder
<1> QED BY <1>1, <1>2, <1>3, <1>4, <1>5, <1>6, <1>7 DEF Publisher, Pub!Segmenter

LEMMA FolderInvariant ==
  ASSUME Steady
  PROVE  Spec => [](IInv /\ Folder)
<1>1. Init => Folder
  <2> SUFFICES ASSUME Init PROVE Folder
    OBVIOUS
  <2>1. index = 0 /\ count = 0 /\ duration = 0 /\ files = {} /\ damaged = {} /\ pc = "idle"
    BY DEF Init, Pub!Init
  <2>2. Numbers = 0 /\ Oldest = 1
    BY <2>1 DEF Numbers, Opened, Oldest, Closing, AtLeast1
  <2> QED BY <2>1, <2>2 DEF Folder
<1>2. IInv /\ Folder /\ [Next]_vars => Folder'
  <2> SUFFICES ASSUME IInv, Folder, [Next]_vars PROVE Folder'
    OBVIOUS
  <2>1. CASE Publisher
    BY <2>1, PublisherLists, FolderSteps DEF IInv
  <2>2. CASE Thread \/ StopStreaming \/ UNCHANGED vars
    <3>1. UNCHANGED <<index, count, duration, files, damaged, pc>>
      BY <2>2, ReaderSteps DEF IInv, vars, pubVars
    <3>2. Numbers' = Numbers /\ Oldest' = Oldest
      BY <3>1 DEF Numbers, Opened, Oldest
    <3> QED BY <3>1, <3>2 DEF Folder
  <2> QED BY <2>1, <2>2 DEF Next
<1> QED BY <1>1, <1>2, ListsInvariant, PTL DEF Spec

(* The folder does not grow while segments can be opened and written,      *)
(* whatever becomes of the playlists: a file is deleted for each that is   *)
(* added.                                                                  *)
THEOREM FolderBounded ==
  ASSUME Steady
  PROVE  Spec => []RetentionBound
<1>1. IInv /\ Folder => RetentionBound
  <2> SUFFICES ASSUME IInv, Folder PROVE RetentionBound
    OBVIOUS
  <2>1. count \in Nat /\ index \in Nat /\ index \in {count, count + 1}
    BY DEF IInv, Base, TypeOK, Pub!TypeOK, Folder, Numbers
  <2>2. pc \in Closing => index = count
    <3>1. pc \in Closing => duration = 0
      BY DEF IInv, Base, Phases
    <3> QED BY <2>1, <3>1 DEF Folder, Numbers, Opened, Closing
  <2>3. index - 6 <= Oldest
    BY <2>1, <2>2 DEF Oldest, AtLeast1
  <2>4. Oldest \in Int
    BY <2>1 DEF Oldest, AtLeast1
  <2>5. files \subseteq Oldest .. index
    BY <2>1, <2>4 DEF Folder
  <2>6. files \subseteq index - 6 .. index
    BY <2>1, <2>3, <2>4, <2>5
  <2> QED BY <2>6 DEF RetentionBound, Pub!RetentionBound, Pub!PlaylistLen, Pub!CacheDelay
<1> QED BY <1>1, FolderInvariant, PTL

-----------------------------------------------------------------------------
(* The playlists, if in addition every playlist can be opened; it may be   *)
(* that it is not written.                                                 *)

Opens == Faults \subseteq {"WritePlaylist"}

(* How many playlists were written, and what the last of them names.       *)
Written == IF pc \in {"truncate", "list"} THEN count - 1 ELSE count
Last3(n) == AtLeast1(n - 2) .. n

Playlists ==
  /\ playlist \in {{}, Last3(Written)}
  /\ pc = "list" => playlist = {}
  /\ age <= Written
  /\ player \in {{}, Last3(Written - age)}

FullInv == IInv /\ Folder /\ Playlists

LEMMA OpensSteady == Opens => Steady
  BY DEF Opens, Steady

(* At pc = "list" the window is that of the segments closed so far.        *)
LEMMA WindowLast3 ==
  ASSUME Base, Folder, pc = "list"
  PROVE  Pub!Window = Last3(count)
<1>1. count \in Nat /\ count > 0 /\ duration = 0
  BY DEF Base, TypeOK, Pub!TypeOK, Phases, Closing
<1>2. Numbers = count /\ index = count
  BY <1>1 DEF Numbers, Opened, Folder
<1>3. First = count - (IF count < 3 THEN count ELSE 3) + 1
  BY <1>2 DEF First
<1>4. First = AtLeast1(count - 2)
  BY <1>1, <1>3 DEF AtLeast1
<1> QED BY <1>2, <1>4, WindowBounds DEF Last3

LEMMA PlaylistSteps ==
  ASSUME Opens, FullInv, Publisher
  PROVE  Playlists'
<1> USE DEF Pub!times, Pub!segment, Pub!folder, Pub!client, FullInv
<1>0. /\ count \in Nat /\ age \in Nat /\ Base
      /\ playlist \in {{}, Last3(Written)} /\ (pc = "list" => playlist = {})
      /\ age <= Written /\ player \in {{}, Last3(Written - age)}
      /\ UNCHANGED player
  BY PublisherLists DEF IInv, Base, TypeOK, Pub!TypeOK, Playlists
<1>1. CASE Pub!Receive \/ Pub!OpenSegment \/ Pub!WriteGop \/ Pub!DeleteOld \/ (Pub!Owner /\ UNCHANGED reader)
  <2>1. /\ UNCHANGED <<count, playlist, age>>
        /\ \/ pc \notin {"truncate", "list"} /\ pc' \notin {"truncate", "list"}
           \/ pc' = pc
    BY <1>0, <1>1, OwnerBase
       DEF Pub!Receive, Pub!OpenSegment, Pub!WriteGop, Pub!DeleteOld
  <2>2. Written' = Written
    BY <2>1 DEF Written
  <2>3. pc' = "list" => pc = "list"
    BY <2>1
  <2> QED BY <1>0, <2>1, <2>2, <2>3 DEF Playlists
<1>2. CASE Pub!CloseSegment
  <2>1. /\ pc = "close" /\ pc' = "truncate" /\ count' = count + 1
        /\ UNCHANGED <<playlist, age>>
    BY <1>2 DEF Pub!CloseSegment
  <2>2. Written = count /\ Written' = (count + 1) - 1
    BY <2>1 DEF Written
  <2>3. Written' = Written
    BY <1>0, <2>2
  <2> QED BY <1>0, <2>1, <2>3 DEF Playlists
<1>3. CASE Pub!TruncatePlaylist
  <2>1. /\ pc = "truncate" /\ pc' = "list" /\ playlist' = {}
        /\ UNCHANGED <<count, age>>
    BY <1>3 DEF Pub!TruncatePlaylist, Pub!Outcome, Opens
  <2>2. Written' = Written
    BY <2>1 DEF Written
  <2> QED BY <1>0, <2>1, <2>2 DEF Playlists
<1>4. CASE Pub!WritePlaylist
  <2>1. /\ pc = "list" /\ pc' \in {"unlink", "idle"} /\ playlist' \in {{}, Pub!Window} /\ age' = age + 1
        /\ UNCHANGED count
    BY <1>4 DEF Pub!WritePlaylist, Pub!AfterPlaylist
  <2>2. Written = count - 1 /\ Written' = count
    BY <2>1 DEF Written
  <2>3. playlist' \in {{}, Last3(Written')}
    BY <1>0, <2>1, <2>2, WindowLast3
  <2>4. age' <= Written' /\ Written' - age' = Written - age
    BY <1>0, <2>1, <2>2
  <2>5. player' \in {{}, Last3(Written' - age')}
    BY <1>0, <2>4
  <2> QED BY <2>1, <2>3, <2>4, <2>5 DEF Playlists, Last3
<1> QED BY <1>1, <1>2, <1>3, <1>4 DEF Publisher, Pub!Segmenter

LEMMA FullInvariant ==
  ASSUME Opens
  PROVE  Spec => []FullInv
<1>1. Init => Playlists
  <2> SUFFICES ASSUME Init PROVE Playlists
    OBVIOUS
  <2>1. playlist = {} /\ player = {} /\ age = 0 /\ count = 0 /\ pc = "idle"
    BY DEF Init, Pub!Init
  <2> QED BY <2>1 DEF Playlists, Written
<1>2. FullInv /\ [Next]_vars => Playlists'
  <2> SUFFICES ASSUME FullInv, [Next]_vars PROVE Playlists'
    OBVIOUS
  <2> USE DEF FullInv
  <2>1. CASE Publisher
    BY <2>1, PlaylistSteps
  <2>2. CASE UpdatePlayList
    <3>1. UNCHANGED <<count, pc, playlist>> /\ player' = playlist /\ age' = 0
      BY <2>2 DEF UpdatePlayList, Pub!ReadPlaylist, Pub!segment, Pub!folder
    <3>2. Written' = Written /\ Written \in Nat
      <4>1. count \in Nat /\ (pc \in {"truncate", "list"} => count > 0)
        BY DEF IInv, Base, TypeOK, Pub!TypeOK, Phases, Closing
      <4> QED BY <3>1, <4>1 DEF Written
    <3>3. Written' - age' = Written /\ age' <= Written'
      BY <3>1, <3>2
    <3> QED BY <3>1, <3>2, <3>3 DEF Playlists
  <2>3. CASE (Thread \/ StopStreaming) /\ ~UpdatePlayList
    <3>1. UNCHANGED <<count, pc, playlist, player, age>>
      BY <2>3, ReaderLists
    <3> QED BY <3>1 DEF Playlists, Written
  <2>4. CASE UNCHANGED vars
    <3>1. UNCHANGED <<count, pc, playlist, player, age>>
      BY <2>4 DEF vars, pubVars
    <3> QED BY <3>1 DEF Playlists, Written
  <2> QED BY <2>1, <2>2, <2>3, <2>4 DEF Next
<1>3. Spec => [](IInv /\ Folder)
  BY OpensSteady, FolderInvariant
<1> QED BY <1>1, <1>2, <1>3, PTL DEF Spec, FullInv

(* What can be fetched in full.                                            *)
LastStored == Pub!Complete = Oldest .. count

LEMMA CompleteIs ==
  ASSUME IInv, Folder
  PROVE  Pub!Complete = Oldest .. count /\ Oldest \in Nat /\ 1 <= Oldest /\ Oldest <= count + 1
<1>1. count \in Nat /\ damaged = {} /\ index = Numbers /\ duration \in Nat
      /\ files = Oldest .. (IF pc = "open" THEN count ELSE index)
  BY DEF IInv, Base, TypeOK, Pub!TypeOK, Folder
<1>2. Oldest \in Nat /\ 1 <= Oldest /\ Oldest <= count + 1
  BY <1>1 DEF Oldest, AtLeast1
<1>3. CASE Pub!Writing
  <2>1. pc # "open" /\ index = count + 1
    BY <1>1, <1>3 DEF Pub!Writing, Numbers, Opened, IInv, Base, Phases
  <2>2. Pub!Complete = (Oldest .. (count + 1)) \ {count + 1}
    BY <1>1, <1>3, <2>1 DEF Pub!Complete
  <2> QED BY <1>1, <1>2, <2>2, Intervals
<1>4. CASE ~Pub!Writing
  <2>1. pc = "open" \/ index = count
    BY <1>1, <1>4 DEF Pub!Writing, Numbers, Opened
  <2> QED BY <1>1, <1>2, <1>4, <2>1 DEF Pub!Complete
<1> QED BY <1>2, <1>3, <1>4

(* A player whose playlist at most CacheDelay newer ones have replaced     *)
(* finds in the folder, in full, every segment that it names, although the *)
(* publisher goes on writing and deleting.                                 *)
THEOREM PlayerIsServed ==
  ASSUME Opens
  PROVE  Spec => []PlayerServed
<1>1. FullInv => PlayerServed
  <2> SUFFICES ASSUME FullInv, age <= 3 PROVE player \subseteq Pub!Complete
    BY DEF PlayerServed, Pub!CacheDelay
  <2> USE DEF FullInv
  <2>1. count \in Nat /\ age \in Nat /\ (pc \in {"truncate", "list"} => count > 0)
    BY DEF IInv, Base, TypeOK, Pub!TypeOK, Phases, Closing
  <2>2. age <= Written /\ player \in {{}, Last3(Written - age)}
    BY DEF Playlists
  <2>3. Pub!Complete = Oldest .. count
    BY CompleteIs
  <2>4. Oldest <= AtLeast1((Written - age) - 2) /\ Written - age <= count
    <3>1. CASE pc \in {"truncate", "list"}
      <4>1. Written = count - 1 /\ Oldest = AtLeast1(count - 6)
        BY <3>1 DEF Written, Oldest, Closing
      <4> QED BY <2>1, <4>1, <3>1 DEF AtLeast1
    <3>2. CASE pc \notin {"truncate", "list"}
      <4>1. Written = count /\ Oldest \in {AtLeast1(count - 6), AtLeast1(count - 5)}
        BY <3>2 DEF Written, Oldest
      <4> QED BY <2>1, <4>1 DEF AtLeast1
    <3> QED BY <3>1, <3>2
  <2>5. Oldest \in Int /\ Written - age \in Int
    BY <2>1 DEF Oldest, AtLeast1, Written
  <2>6. AtLeast1((Written - age) - 2) \in Int
    BY <2>5 DEF AtLeast1
  <2> HIDE DEF FullInv
  <2>7. Last3(Written - age) \subseteq Oldest .. count
    BY <2>1, <2>4, <2>5, <2>6 DEF Last3
  <2> QED BY <2>2, <2>3, <2>7
<1> QED BY <1>1, FullInvariant, PTL

(* The player plays in order and nothing twice, and falls back, from one   *)
(* playlist to the next, by no more than it was late.                      *)
THEOREM PlayerKeepsUp ==
  ASSUME Opens
  PROVE  Spec => PlaysInOrder
<1>1. FullInv /\ [Next]_vars
        => [/\ Starts => current' > current
            /\ (thread = "update" /\ thread' = "open" /\ player # {}) => prevSeq' <= prevSeq + age]_vars
  <2> SUFFICES ASSUME FullInv, Next
               PROVE  /\ Starts => current' > current
                      /\ (thread = "update" /\ thread' = "open" /\ player # {}) => prevSeq' <= prevSeq + age
    OBVIOUS
  <2> USE DEF FullInv
  <2>1. CASE Publisher
    BY <2>1 DEF Publisher, reader, Starts
  <2>2. CASE UpdatePlayList
    <3>1. ~Starts
      BY <2>2 DEF UpdatePlayList, Starts
    <3>2. ASSUME player # {} PROVE prevSeq' <= prevSeq + age
      <4>1. PICK a \in Nat, b \in Nat : a <= b /\ playlist = a .. b /\ prevSeq' = a
        BY <2>2, UpdateLists
      <4>2. PICK c \in Nat, d \in Nat : c <= d /\ player = c .. d /\ prevSeq = c
        BY <3>2 DEF IInv, Played
      <4>3. Written \in Nat /\ age \in Nat /\ age <= Written
        <5>1. count \in Nat /\ age \in Nat /\ (pc \in {"truncate", "list"} => count > 0)
          BY DEF IInv, Base, TypeOK, Pub!TypeOK, Phases, Closing
        <5> QED BY <5>1 DEF Written, Playlists
      <4>4. playlist = AtLeast1(Written - 2) .. Written
        <5>1. a \in playlist
          BY <4>1
        <5> QED BY <5>1 DEF Playlists, Last3
      <4>5. player = AtLeast1((Written - age) - 2) .. (Written - age)
        BY <3>2 DEF Playlists, Last3
      <4>6. \A e, f, g, h \in Int : e <= f /\ e .. f = g .. h => e = g
        <5>1. SUFFICES ASSUME NEW e \in Int, NEW f \in Int, NEW g \in Int, NEW h \in Int,
                              e <= f, e .. f = g .. h
                       PROVE  e = g
          OBVIOUS
        <5>2. e \in g .. h /\ (g <= h => g \in e .. f)
          BY <5>1
        <5> QED BY <5>2
      <4>7. AtLeast1(Written - 2) \in Int /\ AtLeast1((Written - age) - 2) \in Int /\ Written - age \in Int
        BY <4>3 DEF AtLeast1
      <4>8. a = AtLeast1(Written - 2)
        BY <4>1, <4>3, <4>4, <4>6, <4>7
      <4>9. c = AtLeast1((Written - age) - 2)
        BY <4>2, <4>3, <4>5, <4>6, <4>7
      <4>10. AtLeast1(Written - 2) <= AtLeast1((Written - age) - 2) + age
        BY <4>3 DEF AtLeast1
      <4> QED BY <4>1, <4>2, <4>8, <4>9, <4>10
    <3> QED BY <3>1, <3>2
  <2>3. CASE (Thread \/ StopStreaming) /\ ~UpdatePlayList
    <3>1. ~(thread = "update" /\ thread' = "open")
      BY <2>3, ReaderSteps DEF IInv
    <3> QED BY <2>3, <3>1, ReaderLists
  <2> QED BY <2>1, <2>2, <2>3 DEF Next
<1> QED BY <1>1, FullInvariant, PTL DEF Spec, PlaysInOrder

-----------------------------------------------------------------------------
(* The publisher with its player implements HlsLive.                       *)

LEMMA Multiples ==
  ASSUME NEW g \in Nat \ {0}
  PROVE  /\ \A m, n \in Nat : m * g < n * g => m < n
         /\ \A m \in Nat : (m + 1) * g = m * g + g
<1>1. \A m, n \in Nat : n <= m => n * g <= m * g
  <2> SUFFICES ASSUME NEW m \in Nat, NEW n \in Nat, n <= m PROVE n * g <= m * g
    OBVIOUS
  <2>1. PICK d \in Nat : m = n + d
    <3>1. m - n \in Nat /\ m = n + (m - n)
      OBVIOUS
    <3> QED BY <3>1
  <2>2. m * g = n * g + d * g
    BY <2>1
  <2>3. d * g \in Nat /\ n * g \in Nat
    OBVIOUS
  <2> QED BY <2>2, <2>3
<1>2. \A m, n \in Nat : m * g \in Nat /\ n * g \in Nat
  OBVIOUS
<1>3. \A m, n \in Nat : m * g < n * g => m < n
  BY <1>1, <1>2
<1>4. \A m \in Nat : (m + 1) * g = m * g + g
  OBVIOUS
<1> QED BY <1>3, <1>4

(* Of every GOP received at most one segment was made.                     *)
LEMMA BudgetInvariant == Spec => [](IInv /\ Budget)
<1>0. GopMs \in Nat \ {0} /\ MaxGops \in Nat
  BY PublisherAssumption DEF Pub!MemFileAssumption
<1>1. Init => Budget
  <2> SUFFICES ASSUME Init PROVE Budget
    OBVIOUS
  <2>1. inTime = 0 /\ index = 0 /\ 0 \in 0 .. MaxGops /\ 0 * GopMs = 0
    BY <1>0 DEF Init, Pub!Init
  <2> QED BY <2>1 DEF Budget
<1>2. IInv /\ Budget /\ [Next]_vars => Budget'
  <2> SUFFICES ASSUME IInv, Budget, [Next]_vars PROVE Budget'
    OBVIOUS
  <2>1. index \in Nat
    BY DEF IInv, Base, TypeOK, Pub!TypeOK
  <2>2. CASE Pub!Receive
    <3>1. PICK n \in 0 .. MaxGops : inTime = n * GopMs /\ index <= n
      BY DEF Budget
    <3>2. inTime < MaxGops * GopMs /\ inTime' = inTime + GopMs /\ index' \in {index, index + 1}
      BY <2>2 DEF Pub!Receive
    <3>3. n \in Nat /\ n < MaxGops
      BY <1>0, <3>1, <3>2, Multiples
    <3>4. inTime' = (n + 1) * GopMs
      BY <1>0, <3>1, <3>2, <3>3, Multiples
    <3>5. n + 1 \in 0 .. MaxGops /\ index' <= n + 1
      BY <1>0, <2>1, <3>1, <3>2, <3>3
    <3> QED BY <3>4, <3>5 DEF Budget
  <2>3. CASE Publisher /\ ~Pub!Receive
    <3>1. UNCHANGED <<inTime, index>>
      BY <2>3, OwnerBase
         DEF IInv, Publisher, Pub!Segmenter, Pub!OpenSegment, Pub!WriteGop, Pub!CloseSegment, Pub!TruncatePlaylist,
             Pub!WritePlaylist, Pub!DeleteOld, Pub!times, Pub!segment
    <3> QED BY <3>1 DEF Budget
  <2>4. CASE Thread \/ StopStreaming \/ UNCHANGED vars
    <3>1. UNCHANGED <<inTime, index>>
      BY <2>4, ReaderSteps DEF IInv, vars, pubVars
    <3> QED BY <3>1 DEF Budget
  <2> QED BY <2>2, <2>3, <2>4 DEF Next
<1> QED BY <1>1, <1>2, ListsInvariant, PTL DEF Spec

(* The last of the segments stored is the newest.                          *)
LEMMA NewestIs ==
  ASSUME IInv, Folder, count > 0
  PROVE  Pub!Live!Newest = count /\ count \in Pub!Complete
<1>1. Pub!Complete = Oldest .. count /\ Oldest \in Nat /\ count \in Nat
  BY CompleteIs DEF IInv, Base, TypeOK, Pub!TypeOK
<1>2. Oldest <= count
  BY <1>1 DEF Oldest, AtLeast1
<1>3. count \in Oldest .. count /\ \A t \in Oldest .. count : t <= count
  BY <1>1, <1>2
<1>4. \A s \in Oldest .. count : (\A t \in Oldest .. count : t <= s) => s = count
  BY <1>1, <1>3
<1> QED BY <1>1, <1>3, <1>4 DEF Pub!Live!Newest

(* Steps of the publisher: storing, listing, withdrawing and deleting are  *)
(* those of HlsLive, and all others change nothing that it sees.           *)
LEMMA LiveSteps ==
  ASSUME Opens, FullInv, LastStored', Budget, Publisher
  PROVE  [Pub!Live!Next]_<<Pub!Complete, playlist>>
<1> USE DEF Pub!times, Pub!segment, Pub!folder, Pub!client, FullInv
<1>0. /\ count \in Nat /\ index \in Nat /\ duration \in Nat
      /\ Oldest \in Nat /\ 1 <= Oldest /\ Oldest <= count + 1 /\ Pub!Complete = Oldest .. count
  BY CompleteIs DEF IInv, Base, TypeOK, Pub!TypeOK
<1>1. Pub!Complete' = Oldest' .. count'
  BY DEF LastStored
<1>2. CASE Pub!Receive \/ Pub!OpenSegment \/ Pub!WriteGop \/ (Pub!Owner /\ UNCHANGED reader)
  <2>1. UNCHANGED <<count, playlist>> /\ (pc \in Closing <=> pc' \in Closing)
    <3>1. Base
      BY DEF IInv
    <3>2. CASE Pub!Owner /\ UNCHANGED reader
      BY <3>1, <3>2, OwnerBase
    <3>3. CASE Pub!Receive \/ Pub!OpenSegment \/ Pub!WriteGop
      BY <3>3 DEF Pub!Receive, Pub!OpenSegment, Pub!WriteGop, Closing
    <3> QED BY <1>2, <3>2, <3>3
  <2>2. Oldest' = Oldest
    BY <2>1 DEF Oldest
  <2> QED BY <1>0, <1>1, <2>1, <2>2
<1>3. CASE Pub!CloseSegment
  <2>1. pc = "close" /\ pc' = "truncate" /\ count' = count + 1 /\ UNCHANGED playlist
    BY <1>3 DEF Pub!CloseSegment
  <2>2. Oldest = AtLeast1(count - 5) /\ Oldest' = AtLeast1((count + 1) - 6)
    BY <2>1 DEF Oldest, Closing
  <2>3. (count + 1) - 6 = count - 5
    BY <1>0
  <2>4. Pub!Complete' = Pub!Complete \union {count + 1}
    <3>1. Oldest' = Oldest
      BY <2>2, <2>3
    <3>2. Pub!Complete' = Oldest .. (count + 1)
      BY <1>1, <2>1, <3>1
    <3>3. Oldest .. (count + 1) = (Oldest .. count) \union {count + 1}
      BY <1>0
    <3> QED BY <1>0, <3>2, <3>3, Zenon
  <2>5. \A t \in Pub!Complete : t < count + 1
    BY <1>0
  <2>6. count + 1 \in 1 .. MaxGops
    <3>1. PICK n \in 0 .. MaxGops : index <= n
      BY DEF Budget
    <3>2. index = count + 1
      BY <2>1 DEF Folder, Numbers, Opened
    <3>3. MaxGops \in Nat
      BY PublisherAssumption DEF Pub!MemFileAssumption
    <3> QED BY <1>0, <3>1, <3>2, <3>3
  <2>7. Pub!Live!Store
    BY <2>1, <2>4, <2>5, <2>6 DEF Pub!Live!Store
  <2> QED BY <2>7 DEF Pub!Live!Next
<1>4. CASE Pub!TruncatePlaylist
  <2>1. pc = "truncate" /\ pc' = "list" /\ playlist' = {} /\ count' = count
    BY <1>4 DEF Pub!TruncatePlaylist, Pub!Outcome, Opens
  <2>2. Oldest' = Oldest
    BY <2>1 DEF Oldest, Closing
  <2>3. Pub!Live!Withdraw
    BY <1>0, <1>1, <2>1, <2>2 DEF Pub!Live!Withdraw
  <2> QED BY <2>3 DEF Pub!Live!Next
<1>5. CASE Pub!WritePlaylist
  <2>1. /\ pc = "list" /\ count' = count
        /\ \/ pc' = "unlink" /\ count > 6
           \/ pc' = "idle" /\ ~(count > 6)
        /\ playlist' \in {{}, Pub!Window}
    BY <1>5 DEF Pub!WritePlaylist, Pub!AfterPlaylist, Pub!PlaylistLen, Pub!CacheDelay
  <2>2. playlist = {} /\ count > 0
    BY <2>1 DEF Playlists, IInv, Base, Phases, Closing
  <2>3. Oldest' = Oldest /\ Oldest = AtLeast1(count - 6)
    BY <1>0, <2>1 DEF Oldest, Closing, AtLeast1
  <2>4. Pub!Complete' = Pub!Complete
    BY <1>0, <1>1, <2>1, <2>3
  <2>5. CASE playlist' = {}
    BY <2>2, <2>4, <2>5
  <2>6. CASE playlist' = Pub!Window
    <3>1. playlist' = AtLeast1(count - 2) .. count
      BY <2>1, <2>6, WindowLast3 DEF IInv, Last3
    <3>2. /\ AtLeast1(count - 2) \in Pub!Complete
          /\ AtLeast1(count - 2) .. count \subseteq Pub!Complete
      BY <1>0, <2>2, <2>3 DEF AtLeast1
    <3>3. Pub!Live!Newest = count /\ Pub!Complete # {}
      BY <2>2, NewestIs
    <3>4. Pub!Live!List
      BY <2>4, <3>1, <3>2, <3>3 DEF Pub!Live!List
    <3> QED BY <3>4 DEF Pub!Live!Next
  <2> QED BY <2>1, <2>5, <2>6
<1>6. CASE Pub!DeleteOld
  <2>1. pc = "unlink" /\ pc' = "idle" /\ UNCHANGED <<count, playlist>> /\ count > 6
    BY <1>6 DEF Pub!DeleteOld, Folder
  <2>2. Oldest = count - 6 /\ Oldest' = (count - 6) + 1
    BY <1>0, <2>1 DEF Oldest, Closing, AtLeast1
  <2>3. Pub!Complete' = Pub!Complete \ {count - 6} /\ count - 6 \in Pub!Complete
    BY <1>0, <1>1, <2>1, <2>2, Intervals
  <2>4. count - 6 \notin playlist
    <3>1. Written = count
      BY <2>1 DEF Written
    <3>2. count - 6 \notin Last3(count)
      BY <1>0, <2>1 DEF Last3, AtLeast1
    <3> QED BY <3>1, <3>2 DEF Playlists
  <2>5. Pub!Live!Delete
    BY <2>1, <2>3, <2>4 DEF Pub!Live!Delete
  <2> QED BY <2>5 DEF Pub!Live!Next
<1> QED BY <1>2, <1>3, <1>4, <1>5, <1>6 DEF Publisher, Pub!Segmenter

(* The publisher to a folder, with players at work, is a publisher of a    *)
(* live stream, while segments can be opened and written and every         *)
(* playlist can be opened: it lists only what is stored in full, ends the  *)
(* list with the newest segment, and deletes nothing listed.               *)
THEOREM FolderIsLive ==
  ASSUME Opens
  PROVE  Spec => LiveSpec
<1>1. Init => Pub!Live!Init
  BY DEF Init, Pub!Init, Pub!Live!Init, Pub!Complete
<1>2. FullInv => LastStored
  BY CompleteIs DEF FullInv, LastStored
<1>3. FullInv /\ LastStored' /\ Budget /\ [Next]_vars => [Pub!Live!Next]_<<Pub!Complete, playlist>>
  <2> SUFFICES ASSUME FullInv, LastStored', Budget, [Next]_vars
               PROVE  [Pub!Live!Next]_<<Pub!Complete, playlist>>
    OBVIOUS
  <2>1. CASE Publisher
    BY <2>1, LiveSteps
  <2>2. CASE Thread \/ StopStreaming \/ UNCHANGED vars
    <3>1. UNCHANGED <<files, damaged, index, pc, duration, playlist>>
      BY <2>2, ReaderSteps DEF FullInv, IInv, vars, pubVars
    <3> QED BY <3>1 DEF Pub!Complete, Pub!Writing
  <2> QED BY <2>1, <2>2 DEF Next
<1> QED BY <1>1, <1>2, <1>3, FullInvariant, BudgetInvariant, PTL
       DEF Spec, LiveSpec, Pub!LiveSpec, Pub!Live!Spec
=============================================================================
