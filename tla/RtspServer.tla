----------------------------- MODULE RtspServer -----------------------------
(***************************************************************************)
(* The RTSP server of jdnet and the media tracks it plays.                 *)
(*                                                                         *)
(* Three kinds of threads meet at a CMediaTrack: one session thread per    *)
(* client (CJdRtspSrvSession), the encoder threads that hand every frame   *)
(* to the deliveries attached to the track (CMediaTrack::Deliver), and the *)
(* main thread, which withdraws the stream (RemoveMediaDelivery).  A       *)
(* delivery is the RTP packetiser of one PLAY of one track by one session; *)
(* the track keeps it in mDeliveries, the session in mTrackDeliveries.     *)
(***************************************************************************)
EXTENDS Naturals, Sequences, SequencesExt

CONSTANTS
  Sessions,    \* the clients that may connect
  Tracks,      \* the tracks of the aggregate, a subset of {"video", "audio"}
  MaxPlays,    \* PLAY requests of one session (bound)
  MaxFrames,   \* frames the encoder hands to one track (bound)
  SetupFirst,  \* TRUE: a client plays only the tracks it has set up
  Removal      \* TRUE: the main thread may withdraw the stream

ASSUME ServerAssumption ==
  /\ Tracks \subseteq {"video", "audio"}
  /\ MaxPlays \in Nat \ {0}
  /\ MaxFrames \in Nat
  /\ {SetupFirst, Removal} \subseteq BOOLEAN

VARIABLES
  pc,        \* what the thread of a session does
  rtp,       \* the tracks for which m_pVRtp or m_pARtp was set by SETUP
  plays,     \* PLAY requests handled (numbers the deliveries)
  todo,      \* the tracks the current handler has still to visit
  saved,     \* mTrackDeliveries, the track name gives the delivery
  replaced,  \* history: the deliveries whose place in mTrackDeliveries was overwritten
  doomed,    \* the delivery between DeleteDelivery and its delete
  attached,  \* mDeliveries of a track
  alive,     \* the deliveries allocated and not deleted
  idx,       \* position in the loop of Deliver, 0: the mutex is free
  frame,     \* the last frame handed to a track
  sent,      \* the frames packetised by a delivery
  removal,   \* how far RemoveMediaDelivery has come
  fault      \* the first access to memory that is not there

session == <<pc, rtp, plays, todo, saved, replaced, doomed>>
media == <<attached, alive, idx, frame, sent>>
vars == <<session, media, removal, fault>>

Deliveries == Sessions \X Tracks \X (1..MaxPlays)
SessionOf(d) == d[1]
NoDelivery == <<>>

TypeOK ==
  /\ pc \in [Sessions -> {"none", "read", "play", "teardown", "exit", "closed"}]
  /\ rtp \in [Sessions -> SUBSET Tracks]
  /\ plays \in [Sessions -> 0..MaxPlays]
  /\ todo \in [Sessions -> Seq(Tracks)]
  /\ \A s \in Sessions : /\ DOMAIN saved[s] \subseteq Tracks
                         /\ doomed[s] \in Deliveries \cup {NoDelivery}
  /\ attached \in [Tracks -> Seq(Deliveries)]
  /\ alive \cup replaced \subseteq Deliveries
  /\ \A t \in Tracks : idx[t] \in 0..(Len(attached[t]) + 1)
  /\ frame \in [Tracks -> 0..MaxFrames]
  /\ sent \in [Deliveries -> SUBSET (1..MaxFrames)]
  /\ removal \in {"none", "stopped", "untracked", "unlisted", "deleted"}
  /\ fault \in {"none", "noRtp", "gone", "freed"}

(* RemoveMediaDelivery takes the video track out of the aggregate, deletes *)
(* it, takes the aggregate out of the manager, and deletes that too.       *)
Intact == removal \in {"none", "stopped"}
Listed == removal \notin {"unlisted", "deleted"}
InAggregate(t) == Intact \/ t # "video"

Init ==
  /\ pc = [s \in Sessions |-> "none"]
  /\ rtp = [s \in Sessions |-> {}]
  /\ plays = [s \in Sessions |-> 0]
  /\ todo = [s \in Sessions |-> <<>>]
  /\ saved = [s \in Sessions |-> <<>>]
  /\ replaced = {}
  /\ doomed = [s \in Sessions |-> NoDelivery]
  /\ attached = [t \in Tracks |-> <<>>]
  /\ alive = {}
  /\ idx = [t \in Tracks |-> 0]
  /\ frame = [t \in Tracks |-> 0]
  /\ sent = [d \in Deliveries |-> {}]
  /\ removal = "none"
  /\ fault = "none"

(* After an access to memory that is not there nothing more is said.       *)
Up == fault = "none"
Fail(what) == fault' = what /\ UNCHANGED <<session, media, removal>>

Only(t, S) == IF t \in S THEN <<t>> ELSE << >>

(* find and erase                                                          *)
Without(s, e) ==
  IF e \in ToSet(s) THEN RemoveAt(s, CHOOSE i \in DOMAIN s : s[i] = e) ELSE s

(* All tracks of the aggregate in the order PrepareMediaDelivery adds them. *)
AllTracks == Only("video", Tracks) \o Only("audio", Tracks)

(***************************************************************************)
(* The session thread                                                      *)
(***************************************************************************)

(* A new connection gets a session and a thread.  Once Stop has closed the *)
(* listening socket accept() fails, and no session is created.             *)
Connect(s) ==
  /\ Up /\ pc[s] = "none" /\ removal = "none"
  /\ pc' = [pc EXCEPT ![s] = "read"]
  /\ UNCHANGED <<rtp, plays, todo, saved, replaced, doomed, media, removal, fault>>

(* HandleSetup: 453 when the aggregate or the track is not found.          *)
HandleSetup(s, t) ==
  /\ Up /\ pc[s] = "read"
  /\ Listed /\ InAggregate(t)
  /\ rtp' = [rtp EXCEPT ![s] = @ \cup {t}]
  /\ UNCHANGED <<pc, plays, todo, saved, replaced, doomed, media, removal, fault>>

(* HandlePlay: one track when the URL names one, else every track of the   *)
(* aggregate.  Neither lookup is checked for NULL.                         *)
HandlePlay(s, order) ==
  /\ Up /\ pc[s] = "read" /\ plays[s] < MaxPlays
  /\ SetupFirst => ToSet(order) \subseteq rtp[s]
  /\ IF Listed /\ \A t \in ToSet(order) : InAggregate(t)
       THEN /\ pc' = [pc EXCEPT ![s] = "play"]
            /\ plays' = [plays EXCEPT ![s] = @ + 1]
            /\ todo' = [todo EXCEPT ![s] = order]
            /\ UNCHANGED <<rtp, saved, replaced, doomed, media, removal, fault>>
       ELSE Fail("gone")

(* PlayTrack: a new packetiser on the session's RTP sender, appended to    *)
(* the track's list under the track's mutex and saved under its name, in   *)
(* the place of what an earlier PLAY of the session saved there.           *)
PlayTrack(s) ==
  LET t == Head(todo[s])
      d == <<s, t, plays[s]>>
  IN /\ Up /\ pc[s] = "play" /\ todo[s] # <<>>
     /\ Intact /\ t \in rtp[s] /\ idx[t] = 0
     /\ alive' = alive \cup {d}
     /\ attached' = [attached EXCEPT ![t] = Append(@, d)]
     /\ saved' = [saved EXCEPT ![s] =
                    [u \in DOMAIN @ \cup {t} |-> IF u = t THEN d ELSE @[u]]]
     /\ replaced' = replaced \cup {saved[s][u] : u \in DOMAIN saved[s] \cap {t}}
     /\ todo' = [todo EXCEPT ![s] = Tail(@)]
     /\ UNCHANGED <<pc, rtp, plays, doomed, idx, frame, sent, removal, fault>>

(* Without a SETUP the sender is an uninitialised pointer; the aggregate   *)
(* and its track may have been deleted since HandlePlay looked them up.    *)
PlayTrackFails(s) ==
  /\ Up /\ pc[s] = "play" /\ todo[s] # <<>>
  /\ \/ ~Intact /\ Fail("gone")
     \/ Intact /\ Head(todo[s]) \notin rtp[s] /\ Fail("noRtp")

PlayReply(s) ==
  /\ Up /\ pc[s] = "play" /\ todo[s] = <<>>
  /\ pc' = [pc EXCEPT ![s] = "read"]
  /\ UNCHANGED <<rtp, plays, todo, saved, replaced, doomed, media, removal, fault>>

(* TEARDOWN, or the end of the connection: RemoveMediaDeliveries starts    *)
(* by looking the aggregate up, and uses the result unchecked; it visits   *)
(* the map in the order of the names.                                      *)
StartRemoving(s, how) ==
  /\ Up
  /\ IF Listed \/ DOMAIN saved[s] = {}
       THEN /\ pc' = [pc EXCEPT ![s] = how]
            /\ todo' = [todo EXCEPT ![s] = Only("audio", DOMAIN saved[s]) \o Only("video", DOMAIN saved[s])]
            /\ UNCHANGED <<rtp, plays, saved, replaced, doomed, media, removal, fault>>
       ELSE Fail("gone")

HandleTearDown(s) == pc[s] = "read" /\ StartRemoving(s, "teardown")
Disconnect(s) == pc[s] = "read" /\ StartRemoving(s, "exit")

(* Mutant: the session deletes the delivery but never tells the track.     *)
MediaAfterNotTold(t, d) == attached[t]
MediaAfter(t, d) == Without(attached[t], d)

(* Mutant: the list is changed without taking the mutex of the track.      *)
MayDetachUnlocked(t) == TRUE
MayDetach(t) == idx[t] = 0

(* CMediaTrack::DeleteDelivery, once per delivery the session has saved.   *)
DeleteDelivery(s) ==
  LET t == Head(todo[s])
      d == saved[s][t]
  IN /\ Up /\ pc[s] \in {"teardown", "exit"} /\ todo[s] # <<>> /\ doomed[s] = NoDelivery
     /\ removal # "deleted" /\ InAggregate(t) /\ MayDetach(t)
     /\ attached' = [attached EXCEPT ![t] = MediaAfter(t, d)]
     /\ doomed' = [doomed EXCEPT ![s] = d]
     /\ UNCHANGED <<pc, rtp, plays, todo, saved, replaced, alive, idx, frame, sent, removal, fault>>

(* Mutant: the delivery is taken out of the track and never deleted.       *)
AliveAfterLeak(d) == alive
AliveAfter(d) == alive \ {d}

(* delete of the delivery that was just taken out of the track.            *)
Delete(s) ==
  /\ Up /\ doomed[s] # NoDelivery
  /\ alive' = AliveAfter(doomed[s])
  /\ doomed' = [doomed EXCEPT ![s] = NoDelivery]
  /\ todo' = [todo EXCEPT ![s] = Tail(@)]
  /\ UNCHANGED <<pc, rtp, plays, saved, replaced, attached, idx, frame, sent, removal, fault>>

(* GetTrack finds no track of that name any more: the delivery stays.      *)
SkipDelivery(s) ==
  /\ Up /\ pc[s] \in {"teardown", "exit"} /\ todo[s] # <<>> /\ doomed[s] = NoDelivery
  /\ IF removal = "deleted"
       THEN Fail("gone")
       ELSE /\ ~InAggregate(Head(todo[s]))
            /\ todo' = [todo EXCEPT ![s] = Tail(@)]
            /\ UNCHANGED <<pc, rtp, plays, saved, replaced, doomed, media, removal, fault>>

(* The map is cleared; after TEARDOWN the thread leaves its loop and       *)
(* removes the deliveries a second time, of which there are none left.     *)
FinishRemoving(s) ==
  /\ Up /\ pc[s] \in {"teardown", "exit"} /\ todo[s] = <<>> /\ doomed[s] = NoDelivery
  /\ saved' = [saved EXCEPT ![s] = <<>>]
  /\ pc' = [pc EXCEPT ![s] = IF @ = "teardown" THEN "exit" ELSE "closed"]
  /\ UNCHANGED <<rtp, plays, todo, replaced, doomed, media, removal, fault>>

Session(s) ==
  \/ PlayTrack(s)
  \/ PlayTrackFails(s)
  \/ PlayReply(s)
  \/ DeleteDelivery(s)
  \/ Delete(s)
  \/ SkipDelivery(s)
  \/ FinishRemoving(s)

Client(s) ==
  \/ Connect(s)
  \/ \E t \in Tracks : HandleSetup(s, t)
  \/ \E order \in {AllTracks} \cup {<<t>> : t \in Tracks} : HandlePlay(s, order)
  \/ HandleTearDown(s)
  \/ Disconnect(s)

(***************************************************************************)
(* The encoder threads: CMediaTrack::Deliver                               *)
(***************************************************************************)

TrackFreed(t) == ~InAggregate(t)

(* A new frame: the mutex is taken and the loop starts.  The bridge keeps  *)
(* its pointer to the video track after deleting it.                       *)
Deliver(t) ==
  /\ Up /\ idx[t] = 0 /\ frame[t] < MaxFrames
  /\ IF TrackFreed(t)
       THEN Fail("gone")
       ELSE /\ idx' = [idx EXCEPT ![t] = 1]
            /\ frame' = [frame EXCEPT ![t] = @ + 1]
            /\ UNCHANGED <<session, attached, alive, sent, removal, fault>>

(* The next delivery of the list packetises and sends the frame.           *)
DeliverTo(t) ==
  LET d == attached[t][idx[t]]
  IN /\ Up /\ idx[t] \in DOMAIN attached[t]
     /\ IF TrackFreed(t) \/ d \notin alive
          THEN Fail(IF TrackFreed(t) THEN "gone" ELSE "freed")
          ELSE /\ sent' = [sent EXCEPT ![d] = @ \cup {frame[t]}]
               /\ idx' = [idx EXCEPT ![t] = @ + 1]
               /\ UNCHANGED <<session, attached, alive, frame, removal, fault>>

(* The end of the list: the mutex is released.                             *)
Delivered(t) ==
  /\ Up /\ idx[t] > Len(attached[t])
  /\ IF TrackFreed(t)
       THEN Fail("gone")
       ELSE /\ idx' = [idx EXCEPT ![t] = 0]
            /\ UNCHANGED <<session, attached, alive, frame, sent, removal, fault>>

Encoder(t) == Deliver(t) \/ DeliverTo(t) \/ Delivered(t)

(***************************************************************************)
(* The main thread: CRtspPublishBridge::RemoveMediaDelivery                *)
(***************************************************************************)
RemoveMediaDelivery ==
  /\ Up /\ Removal /\ removal # "deleted"
  /\ removal' = CASE removal = "none" -> "stopped"          \* mRtspSrv->Stop
                  [] removal = "stopped" -> "untracked"     \* delete mVideoTrack
                  [] removal = "untracked" -> "unlisted"    \* RemoveAggregate
                  [] removal = "unlisted" -> "deleted"      \* delete mAggregate
  /\ UNCHANGED <<session, media, fault>>

Next ==
  \/ \E s \in Sessions : Client(s)
  \/ \E s \in Sessions : Session(s)
  \/ \E t \in Tracks : Encoder(t)
  \/ RemoveMediaDelivery

Spec == Init /\ [][Next]_vars

(* The session threads and the encoders do not stop in the middle of a     *)
(* handler or of a frame; the mutex is free again and again, so a session  *)
(* waiting for it gets it in the end.  Clients promise nothing.            *)
LiveSpec ==
  /\ Spec
  /\ \A s \in Sessions : SF_vars(Session(s))
  /\ \A t \in Tracks : WF_vars(DeliverTo(t) \/ Delivered(t))

-----------------------------------------------------------------------------

(* No delivery that an encoder may still reach has been deleted, whatever  *)
(* the order of TEARDOWN, disconnection and frames (RemoveMediaDeliveries  *)
(* detaches under the mutex before it deletes), and none is called after.  *)
AttachedAlive ==
  /\ \A t \in Tracks : ToSet(attached[t]) \subseteq alive
  /\ fault # "freed"

(* "Save it in the session for future use": what is attached to a track is *)
(* in mTrackDeliveries of its session, so that the session can remove it.  *)
AttachedSaved ==
  Intact => \A t \in Tracks : \A d \in ToSet(attached[t]) :
     /\ t \in DOMAIN saved[SessionOf(d)]
     /\ saved[SessionOf(d)][t] = d

(* Nothing but a second PLAY of the same track makes a session forget what *)
(* it has attached: neither the two passes of RemoveMediaDeliveries nor    *)
(* another session's PLAY or end do.                                       *)
SavedUnlessReplaced ==
  Intact => \A t \in Tracks : \A d \in ToSet(attached[t]) \ replaced :
     /\ t \in DOMAIN saved[SessionOf(d)]
     /\ saved[SessionOf(d)][t] = d

(* When a session thread has ended, no track sends to its client any more, *)
(* and what the session allocated has been deleted, but for the deliveries *)
(* it had forgotten when it played a track a second time.                  *)
NothingLeftBehind ==
  \A d \in Deliveries \ replaced : (Intact /\ pc[SessionOf(d)] = "closed") =>
     /\ d \notin alive
     /\ \A t \in Tracks : d \notin ToSet(attached[t])

(* A player gets an unbroken run of frames: the deliveries that come and   *)
(* go around it (erase shifts the list under the loop) cost it no frame,   *)
(* and while it is on a list no loop that has come to its end left it out. *)
ContiguousFrames ==
  /\ \A d \in Deliveries : \A f, g \in sent[d] :
       \A h \in f..g : h \in sent[d]
  /\ \A t \in Tracks : idx[t] = 0 =>
       \A d \in ToSet(attached[t]) : sent[d] = {} \/ frame[t] \in sent[d]

(* A client that goes away is forgotten: its deliveries leave every track, *)
(* but for those of a track it played twice.                               *)
Released ==
  \A s \in Sessions :
     (pc[s] \in {"teardown", "exit"}) ~>
        (\/ \A t \in Tracks : \A d \in ToSet(attached[t]) \ replaced : SessionOf(d) # s
         \/ ~Intact \/ ~Up)
=============================================================================
