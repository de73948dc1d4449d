----------------------------- MODULE RtspClient -----------------------------
(***************************************************************************)
(* The two clients of RTSP, each against a server it does not control:     *)
(* the player (CJdRtspClntSession with the bridge CRtspClntBridge), which  *)
(* asks for a description, sets up what it can play and starts a thread    *)
(* per track, and the recorder (CJdRtspClntRecSession), which announces    *)
(* the stream of the middleware and sends it.                              *)
(*                                                                         *)
(* Both write a request and take the next reply on the connection for its  *)
(* answer: CSeq is sent and never compared.  The server answers requests   *)
(* in order, late or not at all, keeps back the body it announced, or      *)
(* hangs up.                                                               *)
(***************************************************************************)
EXTENDS Naturals, Sequences

CONSTANTS
  Offers,        \* what a description may hold, as far as it was received
  MaxRedirects,  \* followRedirects
  Fits           \* requests that fit behind one another in headerBuf

Codecs == {"H264", "MP2T", "PCMU", "AAC"}

ASSUME ClientAssumption ==
  /\ Offers \subseteq SUBSET Codecs
  /\ \A o \in Offers : ~({"H264", "MP2T"} \subseteq o)
  /\ MaxRedirects \in Nat /\ Fits \in Nat

Tracks == {"video", "audio"}
SetupOf == [video |-> "setupVideo", audio |-> "setupAudio"]
PlayOf == [video |-> "playVideo", audio |-> "playAudio"]
Setups == {"setupVideo", "setupAudio"}
Plays == {"playVideo", "playAudio"}
Requests == Setups \union Plays \union {"describe", "announce", "record"}

VARIABLES
  role,    \* "player" or "recorder"
  audio,   \* m_fEnableAud
  pc,      \* where the caller's thread is
  req,     \* the request it makes
  tries,   \* redirects followed, or announcements repeated
  seen,    \* the media found in the description
  rtp,     \* whose reply gave the RTP session of a track its ports
  asked,   \* requests the server has not answered
  wire,    \* replies not read
  body,    \* the description that follows the reply to DESCRIBE
  closed,  \* the server has hung up
  late,    \* history: a SETUP was given up before it was answered
  run,     \* m_fRun
  thread,  \* the threads of the bridge
  fault    \* what ended the program

config == <<role, audio>>
call == <<pc, req, tries>>
session == <<seen, rtp, late>>
peer == <<asked, wire, body, closed>>
bridge == <<run, thread>>
vars == <<config, call, session, peer, bridge, fault>>

NoReply == [to |-> "nobody", status |-> "none"]

Init ==
  /\ role \in {"player", "recorder"} /\ audio \in BOOLEAN
  /\ pc = "connect" /\ req = (IF role = "player" THEN "describe" ELSE "announce")
  /\ tries = 0
  /\ seen = {} /\ rtp = [t \in Tracks |-> "null"] /\ late = FALSE
  /\ asked = << >> /\ wire = << >> /\ body = "none" /\ closed = FALSE
  /\ run = FALSE /\ thread = [t \in Tracks |-> "none"]
  /\ fault = "none"

Up == fault = "none"
Fail(what) ==
  /\ fault' = what
  /\ UNCHANGED <<config, call, session, peer, bridge>>

-----------------------------------------------------------------------------
(* The server.                                                             *)

Statuses(r) ==
  {"ok", "refused"} \union (IF r = "describe" THEN {"moved"} ELSE {})
                    \union (IF r = "announce" THEN {"unauthorized"} ELSE {})

Answer ==
  /\ Up /\ ~closed /\ asked # << >>
  /\ \E s \in Statuses(Head(asked)) :
       /\ wire' = Append(wire, [to |-> Head(asked), status |-> s])
       /\ body' \in IF Head(asked) = "describe" /\ s = "ok" THEN {"none", "due"} ELSE {body}
  /\ asked' = Tail(asked)
  /\ UNCHANGED <<config, call, session, closed, bridge, fault>>

SendBody ==
  /\ Up /\ ~closed /\ body = "due"
  /\ body' = "here"
  /\ UNCHANGED <<config, call, session, asked, wire, closed, bridge, fault>>

HangUp ==
  /\ Up /\ ~closed /\ pc # "connect"
  /\ closed' = TRUE /\ asked' = << >>
  /\ UNCHANGED <<config, call, session, wire, body, bridge, fault>>

-----------------------------------------------------------------------------
(* The caller's thread.                                                    *)

(* The socket of a server that redirects is not closed: nothing more is    *)
(* heard of it.                                                            *)
Connect ==
  /\ Up /\ pc = "connect"
  /\ pc' \in {"send", "failed"}
  /\ asked' = << >> /\ wire' = << >> /\ body' = "none" /\ closed' = FALSE
  /\ UNCHANGED <<config, req, tries, session, bridge, fault>>

(* The result is not looked at.  A request after the server has hung up    *)
(* goes unanswered, or raises SIGPIPE, which nobody ignores.               *)
Send ==
  /\ Up /\ pc = "send"
  /\ \/ closed /\ Fail("pipe")
     \/ /\ pc' = "wait"
        /\ asked' = IF closed THEN asked ELSE Append(asked, req)
        /\ UNCHANGED <<config, req, tries, session, wire, body, closed, bridge, fault>>

Ask(r) == pc' = "send" /\ req' = r
GiveUp == pc' = "failed" /\ UNCHANGED req

(* Handling of the answer to DESCRIBE in Open.  A redirect starts all over *)
(* with the new server.                                                    *)
AfterDescribe(r) ==
  /\ \/ r.status = "ok" /\ body # "none" /\ pc' = "body" /\ UNCHANGED tries
     \/ r.status = "ok" /\ body = "none" /\ pc' = "failed" /\ UNCHANGED tries
     \/ /\ r.status = "moved"
        /\ tries' = tries + 1
        /\ pc' = IF tries' <= MaxRedirects THEN "connect" ELSE "failed"
     \/ r.status \notin {"ok", "moved"} /\ pc' = "failed" /\ UNCHANGED tries
  /\ UNCHANGED <<req, session, bridge>>

(* One recv, without a timeout, takes what is there of the description.    *)
(* What is not there yet is read with the next header, which it precedes.  *)
RecvBody ==
  /\ Up /\ pc = "body"
  /\ \/ body = "here" /\ seen' \in Offers
     \/ body = "due" /\ closed /\ UNCHANGED seen
  /\ body' = "none"
  /\ IF seen' \intersect {"H264", "MP2T"} # {} THEN Ask("setupVideo")
     ELSE IF "PCMU" \in seen' THEN Ask("setupAudio")
     ELSE GiveUp
  /\ UNCHANGED <<config, tries, rtp, late, asked, wire, closed, bridge, fault>>

(* Mutant: the bridge is started whatever it could set up.                 *)
PlayableAnything == TRUE
(* Only the pin of an H.264 stream gives CreatePlayerSession a locator.    *)
Playable == "H264" \in seen

(* HandleAnswerSetup looks for ports in whatever it has got.  The player   *)
(* goes on, with the audio track or to StartStreaming; the recorder keeps  *)
(* the transport it has, unless the status is 200.                         *)
AfterSetup(r) ==
  LET t == CHOOSE x \in Tracks : SetupOf[x] = req
      got == IF r.status = "ok" THEN r.to ELSE "nobody"
  IN /\ late' = (late \/ r = NoReply)
     /\ \/ /\ role = "player"
           /\ rtp' = [rtp EXCEPT ![t] = got]
           /\ IF t = "video" /\ {"H264", "PCMU"} \subseteq seen
              THEN Ask("setupAudio") /\ UNCHANGED run
              ELSE IF Playable
              THEN Ask("playVideo") /\ run' = TRUE
              ELSE GiveUp /\ UNCHANGED run
        \/ /\ role = "recorder"
           /\ rtp' = [rtp EXCEPT ![t] = IF got = "nobody" THEN @ ELSE got]
           /\ Ask("record") /\ UNCHANGED run
     /\ UNCHANGED <<tries, seen, thread>>

(* The thread of a track starts when its PLAY has been answered or given   *)
(* up.                                                                     *)
AfterPlay ==
  LET t == CHOOSE x \in Tracks : PlayOf[x] = req
  IN /\ thread' = [thread EXCEPT ![t] = "running"]
     /\ IF t = "video" /\ audio THEN Ask("playAudio") ELSE pc' = "up" /\ UNCHANGED req
     /\ UNCHANGED <<tries, session, run>>

(* The handler looks for "WWW-Authenticate" among names in lower case, so  *)
(* the digest is never found.  The reply is in the buffer by then: the new *)
(* header goes behind the place of the last one, and what is sent starts   *)
(* with the text of the reply, which a server may answer as it likes.      *)
AfterAnnounce(r) ==
  /\ \/ r = NoReply /\ GiveUp /\ UNCHANGED tries
     \/ r.status = "unauthorized" /\ Ask("announce") /\ tries' = tries + 1
     \/ r.status \in {"ok", "refused"} /\ Ask("setupVideo") /\ UNCHANGED tries
  /\ UNCHANGED <<session, bridge>>

(* StartPublish, whatever the answer: without a peer there is nobody to    *)
(* send to.                                                                *)
AfterRecord ==
  /\ pc' \in IF closed THEN {"up", "failed"} ELSE {"up"}
  /\ UNCHANGED <<req, tries, session, bridge>>

Handle(r) ==
  /\ \/ req = "describe" /\ AfterDescribe(r)
     \/ req \in Setups /\ AfterSetup(r)
     \/ req \in Plays /\ AfterPlay
     \/ req = "announce" /\ AfterAnnounce(r)
     \/ req = "record" /\ AfterRecord
  /\ UNCHANGED <<config, asked, body, closed, fault>>

Overruns == req = "announce" /\ tries = Fits /\ Head(wire).status = "unauthorized"

ReadHeader ==
  /\ Up /\ pc = "wait" /\ wire # << >> /\ ~Overruns
  /\ Handle(Head(wire))
  /\ wire' = Tail(wire)

Overrun == Up /\ pc = "wait" /\ wire # << >> /\ Overruns /\ Fail("overrun")

(* Mutant: a timeout of 0, which select takes for none.                    *)
TimesOutNever == FALSE
TimesOut == TRUE

ReadTimesOut ==
  /\ Up /\ pc = "wait" /\ wire = << >> /\ TimesOut
  /\ Handle(NoReply)
  /\ UNCHANGED wire

StopStreaming ==
  /\ Up /\ pc = "up" /\ role = "player"
  /\ run' = FALSE /\ pc' = "join"
  /\ UNCHANGED <<config, req, tries, session, peer, thread, fault>>

Join ==
  /\ Up /\ pc = "join" /\ \A t \in Tracks : thread[t] # "running"
  /\ pc' = "stopped"
  /\ UNCHANGED <<config, req, tries, session, peer, bridge, fault>>

Caller ==
  \/ Connect \/ Send \/ RecvBody \/ ReadHeader \/ Overrun \/ ReadTimesOut \/ Join

-----------------------------------------------------------------------------
(* The threads of the bridge.  A thread reads packets until none comes for *)
(* ten seconds or it finds m_fRun reset; that of a track without an RTP    *)
(* session reads through a null pointer.                                   *)

ThreadEnds(t) ==
  /\ Up /\ thread[t] = "running"
  /\ rtp[t] # "null" \/ ~run
  /\ thread' = [thread EXCEPT ![t] = "ended"]
  /\ UNCHANGED <<config, call, session, peer, run, fault>>

NullRead(t) ==
  /\ Up /\ thread[t] = "running" /\ rtp[t] = "null"
  /\ Fail("null")

Next ==
  \/ Answer \/ SendBody \/ HangUp
  \/ Caller \/ StopStreaming
  \/ \E t \in Tracks : ThreadEnds(t) \/ NullRead(t)

(* Nothing is owed by the server; select waits no longer than the timeout. *)
Spec ==
  /\ Init /\ [][Next]_vars
  /\ WF_vars(Caller)
  /\ \A t \in Tracks : WF_vars(~run /\ ThreadEnds(t))

-----------------------------------------------------------------------------
(* Types of the variables. *)
TypeOK ==
  /\ role \in {"player", "recorder"} /\ audio \in BOOLEAN
  /\ pc \in {"connect", "send", "wait", "body", "up", "join", "stopped", "failed"}
  /\ req \in Requests /\ tries \in Nat
  /\ seen \subseteq Codecs
  /\ rtp \in [Tracks -> Requests \union {"null", "nobody"}]
  /\ asked \in Seq(Requests)
  /\ wire \in Seq([to : Requests, status : {"ok", "refused", "moved", "unauthorized"}])
  /\ body \in {"none", "due", "here"} /\ closed \in BOOLEAN /\ late \in BOOLEAN
  /\ run \in BOOLEAN /\ thread \in [Tracks -> {"none", "running", "ended"}]
  /\ fault \in {"none", "pipe", "overrun", "null"}

(* A running thread reads an RTP session with the ports of the answer to   *)
(* its own SETUP, or with none if that was refused or not answered.  Audio *)
(* has no session if no PCMU was offered (SETUP is not sent, the thread is *)
(* started all the same), and may have that of the video track, if the     *)
(* answer for video came too late for its own SETUP.  The recorder never   *)
(* sends to ports that were given for another request.                     *)
ReadsItsOwn ==
  /\ \A t \in Tracks :
       thread[t] = "running" =>
         \/ rtp[t] \in {SetupOf[t], "nobody"}
         \/ t = "audio" /\ rtp[t] = "null" /\ "PCMU" \notin seen
         \/ t = "audio" /\ rtp[t] = SetupOf["video"] /\ late
  /\ role = "recorder" => rtp["video"] \in {"null", "setupVideo"}

(* The caller is the main thread of the middleware: opening, starting and  *)
(* stopping return, whatever the server does, unless it announces a        *)
(* description, keeps it back and keeps the connection.                    *)
Returns ==
  []<>(\/ pc \in {"up", "stopped", "failed"}
       \/ pc = "body" /\ body = "due" /\ ~closed
       \/ fault # "none")
=============================================================================
