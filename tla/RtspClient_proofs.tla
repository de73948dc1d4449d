-------------------------- MODULE RtspClient_proofs --------------------------
(***************************************************************************)
(* Proofs about the RTSP clients, for every set of descriptions and every  *)
(* bound on redirects and repeated announcements.                          *)
(*                                                                         *)
(* ReadsItsOwn is about the answers that were taken for those of SETUP;    *)
(* what makes it inductive is Line, what may be on its way to the client   *)
(* when it waits for which answer.                                         *)
(***************************************************************************)
EXTENDS RtspClient, TLAPS

(* Whatever has been asked or answered is one of S.                        *)
Pending(S) ==
  /\ \A i \in 1 .. Len(asked) : asked[i] \in S
  /\ \A i \in 1 .. Len(wire) : wire[i].to \in S

Silent == asked = << >> /\ wire = << >>
AtMostOne == Len(asked) + Len(wire) <= 1

(* The client has given up no request that could still be answered.        *)
InStep == req \in {"describe", "announce", "setupVideo"} \/ (req = "setupAudio" /\ ~late)

(* The requests of a role, in their order. *)
Script ==
  /\ role = "player" => req \in {"describe"} \union Setups \union Plays
  /\ role = "recorder" => req \in {"announce", "setupVideo", "record"}
  /\ pc = "body" => req = "describe"
  /\ req \in {"describe", "announce", "setupVideo"} /\ pc # "failed" => ~late

(* Mutual silence between two requests; the one waited for, or in the case *)
(* of audio perhaps that of video, too, while the client waits.            *)
Line ==
  /\ InStep /\ pc \in {"send", "body"} => Silent
  /\ InStep /\ pc = "wait" => Pending({req}) /\ AtMostOne
  /\ req = "setupAudio" /\ pc \in {"send", "wait"} => Pending(Setups)

(* Where the ports of a session come from. *)
Ports ==
  /\ rtp["video"] \in {"null", "nobody", "setupVideo"}
  /\ rtp["audio"] \in {"null", "nobody", "setupAudio"} \/ (rtp["audio"] = "setupVideo" /\ late)
  /\ req = "setupAudio" /\ "H264" \in seen => rtp["video"] # "null"
  /\ req \in Plays => rtp["video"] # "null"
  /\ req \in Plays /\ "PCMU" \in seen => rtp["audio"] # "null"
  /\ \A t \in Tracks : thread[t] # "none" => req \in Plays
  /\ role = "recorder" => rtp["video"] \in {"null", "setupVideo"}

IInv == TypeOK /\ Script /\ Line /\ Ports

-----------------------------------------------------------------------------
(* Sequences, as the line uses them. *)
LEMMA EmptySequence == ASSUME NEW S PROVE << >> \in Seq(S)
OBVIOUS

LEMMA TailElements ==
  ASSUME NEW S, NEW s \in Seq(S), s # << >>
  PROVE  /\ Tail(s) \in Seq(S) /\ Head(s) \in S /\ Head(s) = s[1]
         /\ Len(Tail(s)) = Len(s) - 1 /\ Len(s) \in Nat \ {0}
         /\ \A i \in 1 .. Len(Tail(s)) : Tail(s)[i] = s[i + 1] /\ i + 1 \in 1 .. Len(s)
OBVIOUS

LEMMA AppendElements ==
  ASSUME NEW S, NEW s \in Seq(S), NEW e \in S
  PROVE  /\ Append(s, e) \in Seq(S) /\ Len(Append(s, e)) = Len(s) + 1 /\ Len(s) \in Nat
         /\ \A i \in 1 .. Len(Append(s, e)) :
              \/ i \in 1 .. Len(s) /\ Append(s, e)[i] = s[i]
              \/ i = Len(s) + 1 /\ Append(s, e)[i] = e
OBVIOUS

LEMMA InitIInv == Init => IInv
<1> SUFFICES ASSUME Init PROVE IInv
  OBVIOUS
<1> USE DEF Init
<1>1. TypeOK
  <2>1. /\ role \in {"player", "recorder"} /\ audio \in BOOLEAN
        /\ pc = "connect" /\ req \in Requests /\ tries \in Nat /\ seen \subseteq Codecs
    BY DEF Requests, Setups, Plays
  <2>2. /\ rtp \in [Tracks -> Requests \union {"null", "nobody"}]
        /\ thread \in [Tracks -> {"none", "running", "ended"}]
    OBVIOUS
  <2>3. /\ asked = << >> /\ wire = << >> /\ body = "none" /\ closed = FALSE /\ late = FALSE
        /\ run = FALSE /\ fault = "none"
    OBVIOUS
  <2> HIDE DEF Init
  <2> QED
    BY <2>1, <2>2, <2>3, EmptySequence DEF TypeOK
<1>2. Script
  BY DEF Script, Setups, Plays
<1>3. Line
  BY DEF Line, Silent, Pending, AtMostOne, InStep
<1>4. Ports
  BY DEF Ports, Tracks, Plays
<1> QED
  BY <1>1, <1>2, <1>3, <1>4 DEF IInv

(* What the server does leaves the client alone. *)
LEMMA AnswerStep == IInv /\ Answer => IInv'
<1> SUFFICES ASSUME IInv, Answer PROVE IInv'
  OBVIOUS
<1> DEFINE Reply == [to : Requests, status : {"ok", "refused", "moved", "unauthorized"}]
<1>1. /\ asked \in Seq(Requests) /\ wire \in Seq(Reply)
  BY DEF IInv, TypeOK
<1>2. PICK e \in Reply : wire' = Append(wire, e) /\ e.to = Head(asked) /\ asked' = Tail(asked) /\ asked # << >>
  BY <1>1, TailElements DEF Answer, Statuses
<1>3. /\ asked' \in Seq(Requests) /\ Len(asked') = Len(asked) - 1 /\ Len(asked) \in Nat \ {0}
      /\ \A i \in 1 .. Len(asked') : asked'[i] = asked[i + 1] /\ i + 1 \in 1 .. Len(asked)
      /\ Head(asked) = asked[1]
  BY <1>1, <1>2, TailElements
<1>4. /\ wire' \in Seq(Reply) /\ Len(wire') = Len(wire) + 1 /\ Len(wire) \in Nat
      /\ \A i \in 1 .. Len(wire') :
           \/ i \in 1 .. Len(wire) /\ wire'[i] = wire[i]
           \/ i = Len(wire) + 1 /\ wire'[i] = e
  BY <1>1, <1>2, AppendElements
<1>5. UNCHANGED <<role, audio, pc, req, tries, seen, rtp, late, closed, run, thread, fault>>
  BY DEF Answer, config, call, session, bridge
<1>6. body' \in {"none", "due", "here"}
  BY DEF Answer, IInv, TypeOK
<1>7. TypeOK'
  BY <1>3, <1>4, <1>5, <1>6 DEF IInv, TypeOK
<1>8. Script' /\ Ports'
  BY <1>5 DEF IInv, Script, Ports
<1>9. \A S : Pending(S) => Pending(S)'
  BY <1>2, <1>3, <1>4 DEF Pending
<1>10. AtMostOne => AtMostOne'
  BY <1>3, <1>4 DEF AtMostOne
<1>11. ~Silent
  BY <1>2 DEF Silent
<1>12. Line'
  <2>1. ~(InStep /\ pc \in {"send", "body"})
    BY <1>11 DEF IInv, Line
  <2>2. InStep' = InStep
    BY <1>5 DEF InStep
  <2> QED
    BY <2>1, <2>2, <1>5, <1>9, <1>10 DEF IInv, Line
<1> QED
  BY <1>7, <1>8, <1>12 DEF IInv

LEMMA ServerStep == IInv /\ (SendBody \/ HangUp) => IInv'
<1> SUFFICES ASSUME IInv, SendBody \/ HangUp PROVE IInv'
  OBVIOUS
<1>1. /\ UNCHANGED <<role, audio, pc, req, tries, seen, rtp, late, run, thread, fault, wire>>
      /\ asked' \in {asked, << >>} /\ body' \in {body, "here"} /\ closed' \in {closed, TRUE}
  BY DEF SendBody, HangUp, config, call, session, bridge
<1>2. TypeOK'
  <2>1. asked' \in Seq(Requests)
    BY <1>1, EmptySequence DEF IInv, TypeOK
  <2>2. body' \in {"none", "due", "here"} /\ closed' \in BOOLEAN
    BY <1>1 DEF IInv, TypeOK
  <2>3. TypeOK
    BY DEF IInv
  <2> QED
    BY <1>1, <2>1, <2>2, <2>3 DEF TypeOK
<1>3. Script' /\ Ports'
  BY <1>1 DEF IInv, Script, Ports
<1>4. /\ \A S : Pending(S) => Pending(S)'
      /\ AtMostOne => AtMostOne'
      /\ Silent => Silent'
  <2>1. Len(asked) \in Nat /\ Len(wire) \in Nat
    BY DEF IInv, TypeOK
  <2> QED
    BY <1>1, <2>1 DEF Pending, AtMostOne, Silent
<1>5. Line'
  BY <1>1, <1>4 DEF IInv, Line, InStep
<1> QED
  BY <1>2, <1>3, <1>5 DEF IInv

(* The line when the client sends: what the server has not heard of it     *)
(* cannot answer.                                                          *)
LEMMA ConnectStep == IInv /\ Connect => IInv'
<1> SUFFICES ASSUME IInv, Connect PROVE IInv'
  OBVIOUS
<1>1. /\ UNCHANGED <<role, audio, req, tries, seen, rtp, late, run, thread, fault>>
      /\ pc = "connect" /\ pc' \in {"send", "failed"}
      /\ asked' = << >> /\ wire' = << >> /\ body' = "none" /\ closed' = FALSE
  BY DEF Connect, config, session, bridge
<1>2. TypeOK'
  BY <1>1, EmptySequence DEF IInv, TypeOK
<1>3. Script' /\ Ports'
  BY <1>1 DEF IInv, Script, Ports
<1>4. Line'
  <2>1. Silent' /\ \A S : Pending(S)'
    BY <1>1 DEF Silent, Pending
  <2> QED
    BY <1>1, <2>1 DEF Line
<1> QED
  BY <1>2, <1>3, <1>4 DEF IInv

LEMMA SendStep == IInv /\ Send => IInv'
<1> SUFFICES ASSUME IInv, Send PROVE IInv'
  OBVIOUS
<1>1. CASE Fail("pipe")
  <2>1. /\ UNCHANGED <<role, audio, pc, req, tries, seen, rtp, late, asked, wire, body, closed, run, thread>>
        /\ fault' = "pipe"
    BY <1>1 DEF Fail, config, call, session, peer, bridge
  <2> QED
    BY <2>1 DEF IInv, TypeOK, Script, Line, Ports, InStep, Silent, Pending, AtMostOne
<1>2. CASE pc' = "wait" /\ ~Fail("pipe")
  <2>1. /\ UNCHANGED <<role, audio, req, tries, seen, rtp, late, wire, body, closed, run, thread, fault>>
        /\ pc = "send" /\ asked' \in {asked, Append(asked, req)}
    BY <1>2 DEF Send, config, session, bridge
  <2>2. asked \in Seq(Requests) /\ req \in Requests /\ Len(wire) \in Nat
    BY DEF IInv, TypeOK
  <2>3. /\ asked' \in Seq(Requests) /\ Len(asked') <= Len(asked) + 1 /\ Len(asked) \in Nat /\ Len(asked') \in Nat
        /\ \A i \in 1 .. Len(asked') : asked'[i] = req \/ (i \in 1 .. Len(asked) /\ asked'[i] = asked[i])
    <3>1. CASE asked' = asked
      BY <2>2, <3>1
    <3>2. CASE asked' = Append(asked, req)
      <4>1. /\ asked' \in Seq(Requests) /\ Len(asked') = Len(asked) + 1 /\ Len(asked) \in Nat
            /\ \A i \in 1 .. Len(asked') :
                 \/ i \in 1 .. Len(asked) /\ asked'[i] = asked[i]
                 \/ i = Len(asked) + 1 /\ asked'[i] = req
        BY <2>2, <3>2, AppendElements
      <4>2. Len(asked') \in Nat /\ Len(asked') <= Len(asked) + 1
        BY ONLY <4>1
      <4> QED
        BY <4>1, <4>2
    <3> QED
      BY <2>1, <3>1, <3>2
  <2>4. TypeOK'
    BY <1>2, <2>1, <2>3 DEF IInv, TypeOK
  <2>5. Script' /\ Ports'
    BY <1>2, <2>1 DEF IInv, Script, Ports
  <2>6. \A S : Pending(S) /\ req \in S => Pending(S)'
    BY <2>1, <2>3 DEF Pending
  <2>7. Silent => Pending({req})' /\ AtMostOne'
    BY <2>1, <2>2, <2>3 DEF Silent, Pending, AtMostOne
  <2>8. Line'
    BY <1>2, <2>1, <2>6, <2>7 DEF IInv, Line, InStep, Setups
  <2> QED
    BY <2>4, <2>5, <2>8 DEF IInv
<1> QED
  BY <1>1, <1>2 DEF Send

(* Taking the next reply off the wire.                                     *)
LEMMA TakeReply ==
  ASSUME IInv, wire # << >>, asked' = asked, wire' = Tail(wire)
  PROVE  /\ wire' \in Seq([to : Requests, status : {"ok", "refused", "moved", "unauthorized"}])
         /\ Head(wire) \in [to : Requests, status : {"ok", "refused", "moved", "unauthorized"}]
         /\ \A S : Pending(S) => Pending(S)' /\ Head(wire).to \in S
         /\ AtMostOne => Silent'
<1> DEFINE Reply == [to : Requests, status : {"ok", "refused", "moved", "unauthorized"}]
<1>1. asked \in Seq(Requests) /\ wire \in Seq(Reply)
  BY DEF IInv, TypeOK
<1>2. /\ wire' \in Seq(Reply) /\ Head(wire) \in Reply /\ Head(wire) = wire[1]
      /\ Len(wire') = Len(wire) - 1 /\ Len(wire) \in Nat \ {0}
      /\ \A i \in 1 .. Len(wire') : wire'[i] = wire[i + 1] /\ i + 1 \in 1 .. Len(wire)
  BY <1>1, TailElements
<1>3. \A S : Pending(S) => Pending(S)' /\ Head(wire).to \in S
  BY <1>2 DEF Pending
<1>4. AtMostOne => Silent'
  <2> SUFFICES ASSUME AtMostOne PROVE Silent'
    OBVIOUS
  <2>1. Len(asked) \in Nat /\ Len(asked) + Len(wire) <= 1
    BY <1>1 DEF AtMostOne
  <2>2. Len(asked) = 0 /\ Len(wire') = 0
    BY <1>2, <2>1
  <2> QED
    BY <1>1, <1>2, <2>2 DEF Silent
<1> QED
  BY <1>2, <1>3, <1>4

(* What every handler leaves as it was, and what it may do with the rest:  *)
(* the kinds of the variables it writes.                                   *)
LEMMA HandledTypes ==
  ASSUME IInv, NEW r, Handle(r), r.to \in Requests \union {"nobody"}
  PROVE  /\ UNCHANGED <<role, audio, asked, body, closed, fault, seen>>
         /\ pc' \in {"connect", "send", "body", "up", "failed"} /\ req' \in Requests
         /\ tries' \in Nat /\ late' \in BOOLEAN /\ run' \in BOOLEAN
         /\ rtp' \in [Tracks -> Requests \union {"null", "nobody"}]
         /\ thread' \in [Tracks -> {"none", "running", "ended"}]
<1>0. /\ req \in Requests /\ tries \in Nat /\ late \in BOOLEAN /\ run \in BOOLEAN /\ MaxRedirects \in Nat
      /\ rtp \in [Tracks -> Requests \union {"null", "nobody"}]
      /\ thread \in [Tracks -> {"none", "running", "ended"}]
  BY ClientAssumption DEF IInv, TypeOK
<1>1. UNCHANGED <<role, audio, asked, body, closed, fault>>
  BY DEF Handle, config
<1>2. CASE AfterDescribe(r)
  BY <1>0, <1>1, <1>2 DEF AfterDescribe, session, bridge
<1>3. CASE req \in Setups /\ AfterSetup(r)
  <2>1. /\ UNCHANGED <<tries, seen, thread>> /\ late' \in BOOLEAN /\ run' \in BOOLEAN
        /\ pc' \in {"send", "failed"} /\ req' \in Requests
    BY <1>0, <1>3 DEF AfterSetup, Ask, GiveUp, Requests, Setups, Plays
  <2>2. rtp' \in [Tracks -> Requests \union {"null", "nobody"}]
    BY <1>0, <1>3 DEF AfterSetup
  <2> QED
    BY <1>0, <1>1, <2>1, <2>2
<1>4. CASE AfterPlay
  <2>1. /\ UNCHANGED <<tries, seen, rtp, late, run>>
        /\ pc' \in {"send", "up"} /\ req' \in Requests
    BY <1>0, <1>4 DEF AfterPlay, Ask, session, Requests, Plays
  <2>2. thread' \in [Tracks -> {"none", "running", "ended"}]
    BY <1>0, <1>4 DEF AfterPlay
  <2> QED
    BY <1>0, <1>1, <2>1, <2>2
<1>5. CASE AfterAnnounce(r)
  BY <1>0, <1>1, <1>5 DEF AfterAnnounce, Ask, GiveUp, session, bridge, Requests, Setups
<1>6. CASE AfterRecord
  BY <1>0, <1>1, <1>6 DEF AfterRecord, session, bridge
<1> QED
  BY <1>2, <1>3, <1>4, <1>5, <1>6 DEF Handle

(* An answer is handled with the line silent, or for a SETUP of audio with *)
(* what is left of the one of video.                                       *)
LEMMA HandleStep ==
  ASSUME IInv, pc = "wait", NEW r, Handle(r),
         \/ r = NoReply /\ wire' = wire
         \/ /\ r.to \in Requests
            /\ \A S : Pending(S) => Pending(S)' /\ r.to \in S
            /\ AtMostOne => Silent'
            /\ r.status \in {"ok", "refused", "moved", "unauthorized"}
            /\ wire' \in Seq([to : Requests, status : {"ok", "refused", "moved", "unauthorized"}])
            /\ r # NoReply
  PROVE  IInv'
<1>0. r.to \in Requests \union {"nobody"}
  BY DEF NoReply
<1>1. /\ UNCHANGED <<role, audio, asked, body, closed, fault, seen>>
      /\ pc' \in {"connect", "send", "body", "up", "failed"} /\ req' \in Requests
      /\ tries' \in Nat /\ late' \in BOOLEAN /\ run' \in BOOLEAN
      /\ rtp' \in [Tracks -> Requests \union {"null", "nobody"}]
      /\ thread' \in [Tracks -> {"none", "running", "ended"}]
  BY <1>0, HandledTypes
<1>2. TypeOK'
  BY <1>1 DEF IInv, TypeOK
<1>3. CASE req = "describe"
  <2>1. /\ UNCHANGED <<req, rtp, late, thread>>
        /\ pc' = "body" => r.status = "ok"
        /\ pc' \in {"body", "failed", "connect"}
    BY <1>3 DEF Handle, AfterDescribe, session, bridge, Setups, Plays
  <2>2. Script' /\ Ports'
    BY <1>1, <1>3, <2>1 DEF IInv, Script, Ports, Setups, Plays
  <2>3. pc' = "body" => Silent'
    BY <1>3, <2>1 DEF IInv, Line, InStep, NoReply
  <2>4. Line'
    BY <1>3, <2>1, <2>3 DEF Line
  <2> QED
    BY <1>2, <2>2, <2>4 DEF IInv
<1>4. CASE req = "announce"
  <2>1. /\ UNCHANGED <<rtp, late, thread>>
        /\ \/ pc' = "failed" /\ req' = req
           \/ pc' = "send" /\ req' \in {"announce", "setupVideo"} /\ r # NoReply
    BY <1>4 DEF Handle, AfterAnnounce, Ask, GiveUp, session, bridge, Setups, Plays, NoReply
  <2>2. Script' /\ Ports'
    BY <1>1, <1>4, <2>1 DEF IInv, Script, Ports, Setups, Plays
  <2>3. pc' = "send" => Silent'
    BY <1>4, <2>1 DEF IInv, Line, InStep
  <2>4. Line'
    BY <1>4, <2>1, <2>3 DEF Line
  <2> QED
    BY <1>2, <2>2, <2>4 DEF IInv
<1>5. CASE req = "record"
  <2>1. UNCHANGED <<req, rtp, late, thread>> /\ pc' \in {"up", "failed"}
    BY <1>5 DEF Handle, AfterRecord, session, bridge, Setups, Plays
  <2>2. Script' /\ Ports'
    BY <1>1, <1>5, <2>1 DEF IInv, Script, Ports, Setups, Plays
  <2>3. Line'
    BY <2>1 DEF Line
  <2> QED
    BY <1>2, <2>2, <2>3 DEF IInv
<1>6. CASE req \in Plays
  <2>1. /\ UNCHANGED <<rtp, late>>
        /\ \/ pc' = "send" /\ req' = "playAudio"
           \/ pc' = "up" /\ req' = req
    BY <1>6 DEF Handle, AfterPlay, Ask, session, Setups, Plays
  <2>2. Script' /\ Ports'
    BY <1>1, <1>6, <2>1 DEF IInv, Script, Ports, Setups, Plays
  <2>3. Line'
    BY <1>6, <2>1 DEF Line, InStep, Plays
  <2> QED
    BY <1>2, <2>2, <2>3 DEF IInv
<1>7. CASE req \in Setups
  <2> DEFINE t == CHOOSE x \in Tracks : SetupOf[x] = req
             got == IF r.status = "ok" THEN r.to ELSE "nobody"
  <2>1. t \in Tracks /\ SetupOf[t] = req /\ (t = "video" <=> req = "setupVideo") /\ (t = "audio" <=> req = "setupAudio")
    BY <1>7 DEF Tracks, SetupOf, Setups
  <2>2. /\ AfterSetup(r) /\ UNCHANGED thread
        /\ late' = (late \/ r = NoReply)
    BY <1>7 DEF Handle, AfterSetup, Setups, Plays
  <2>3. \/ /\ role = "player"
           /\ rtp' = [rtp EXCEPT ![t] = got]
           /\ \/ t = "video" /\ {"H264", "PCMU"} \subseteq seen /\ pc' = "send" /\ req' = "setupAudio"
              \/ ~(t = "video" /\ {"H264", "PCMU"} \subseteq seen) /\ "H264" \in seen /\ pc' = "send" /\ req' = "playVideo"
              \/ pc' = "failed" /\ req' = req /\ ~("H264" \in seen)
        \/ /\ role = "recorder"
           /\ rtp' = [rtp EXCEPT ![t] = IF got = "nobody" THEN @ ELSE got]
           /\ pc' = "send" /\ req' = "record"
    BY <2>2 DEF AfterSetup, Ask, GiveUp, Playable
  <2>4. /\ got \in Requests \union {"nobody"}
        /\ req = "setupVideo" => got \in {"nobody", "setupVideo"}
        /\ req = "setupAudio" => got \in {"nobody", "setupAudio"} \/ (got = "setupVideo" /\ late)
    <3>1. pc = "wait" /\ (r = NoReply => got = "nobody")
      BY DEF NoReply
    <3>2. CASE r # NoReply /\ InStep
      <4>1. Pending({req})
        BY <3>1, <3>2 DEF IInv, Line
      <4>2. r.to \in {req}
        BY <3>2, <4>1
      <4> QED
        BY <4>2, <1>7 DEF Setups, Requests
    <3>3. CASE r # NoReply /\ ~InStep
      <4>1. req = "setupAudio" /\ late
        BY <1>7, <3>3 DEF InStep, Setups
      <4>2. Pending(Setups)
        BY <4>1 DEF IInv, Line
      <4>3. r.to \in Setups
        BY <3>3, <4>2
      <4> QED
        BY <4>1, <4>3 DEF Setups, Requests
    <3> QED
      BY <3>1, <3>2, <3>3
  <2> HIDE DEF t, got
  <2>5. rtp \in [Tracks -> Requests \union {"null", "nobody"}]
    BY DEF IInv, TypeOK
  <2>6. /\ \A x \in Tracks \ {t} : rtp'[x] = rtp[x]
        /\ rtp'[t] = got \/ (role = "recorder" /\ rtp'[t] = rtp[t])
        /\ role = "recorder" => (rtp'[t] \in {rtp[t], got} /\ rtp'[t] # "nobody") \/ rtp'[t] = rtp[t]
        /\ role = "player" => rtp'[t] = got
    BY <2>1, <2>3, <2>5
  <2>7. got # "null"
    BY <2>4 DEF Requests, Setups, Plays
  <2>8. Script'
    <3>1. late' => late \/ r = NoReply
      BY <2>2
    <3> QED
      BY <1>1, <1>7, <2>1, <2>3 DEF IInv, Script, Setups, Plays
  <2>9. Line'
    <3>1. pc' = "send" /\ InStep' => Silent'
      <4> SUFFICES ASSUME pc' = "send", InStep' PROVE Silent'
        OBVIOUS
      <4>1. req' = "setupAudio" /\ req = "setupVideo" /\ ~late'
        BY <2>1, <2>3 DEF InStep
      <4>2. r # NoReply /\ InStep
        BY <4>1, <2>2 DEF InStep
      <4>3. AtMostOne
        BY <4>2 DEF IInv, Line
      <4> QED
        BY <4>2, <4>3
    <3>2. req' = "setupAudio" /\ pc' = "send" => Pending(Setups)'
      <4> SUFFICES ASSUME req' = "setupAudio", pc' = "send" PROVE Pending(Setups)'
        OBVIOUS
      <4>1. req = "setupVideo" /\ InStep
        BY <2>1, <2>3 DEF InStep
      <4>2. Pending({"setupVideo"})
        BY <4>1 DEF IInv, Line
      <4>3. Pending({"setupVideo"})'
        <5>1. CASE r = NoReply /\ wire' = wire
          BY <5>1, <4>1, <4>2, <1>1 DEF Pending
        <5>2. CASE ~(r = NoReply)
          BY <5>2, <4>2
        <5> QED
          BY <5>1, <5>2
      <4> QED
        BY <4>1, <4>3 DEF Pending, Setups
    <3>3. pc' \in {"send", "failed"}
      BY <2>3
    <3> QED
      BY <3>1, <3>2, <3>3 DEF Line
  <2>10. Ports'
    <3>1. rtp'["video"] \in {"null", "nobody", "setupVideo"}
      BY <2>1, <2>4, <2>6 DEF IInv, Ports, Tracks
    <3>2. rtp'["audio"] \in {"null", "nobody", "setupAudio"} \/ (rtp'["audio"] = "setupVideo" /\ late')
      BY <2>1, <2>2, <2>4, <2>6 DEF IInv, Ports, Tracks
    <3>3. role = "recorder" => rtp'["video"] \in {"null", "setupVideo"}
      BY <2>1, <2>4, <2>6 DEF IInv, Ports, Tracks
    <3>4. role = "player" /\ req' # "record" /\ pc' = "send" => rtp'["video"] # "null" \/ ~("H264" \in seen)
      BY <2>1, <2>6, <2>7, <1>7 DEF IInv, Ports, Tracks, Setups
    <3>5. req' \in Plays => "H264" \in seen /\ pc' = "send" /\ role = "player"
      BY <2>3, <1>7 DEF Setups, Plays
    <3>6. req' \in Plays /\ "PCMU" \in seen => rtp'["audio"] # "null"
      <4> SUFFICES ASSUME req' \in Plays, "PCMU" \in seen PROVE rtp'["audio"] # "null"
        OBVIOUS
      <4>1. role = "player" /\ ~(t = "video" /\ {"H264", "PCMU"} \subseteq seen) /\ "H264" \in seen
        BY <2>3, <3>5, <1>7 DEF Setups, Plays
      <4>2. t = "audio"
        BY <4>1, <2>1 DEF Tracks
      <4> QED
        BY <4>1, <4>2, <2>6, <2>7
    <3>7. \A x \in Tracks : thread[x] = "none"
      BY <1>7 DEF IInv, Ports, TypeOK, Setups, Plays
    <3>8. req' = "setupAudio" /\ "H264" \in seen => rtp'["video"] # "null"
      BY <2>1, <2>3, <2>6, <2>7, <1>7 DEF Tracks, Setups
    <3>9. req' \in Plays => rtp'["video"] # "null"
      BY <3>4, <3>5, <2>3, <1>7 DEF Setups, Plays
    <3> QED
      BY <1>1, <2>2, <3>1, <3>2, <3>3, <3>6, <3>7, <3>8, <3>9 DEF Ports
  <2> QED
    BY <1>2, <2>8, <2>9, <2>10 DEF IInv
<1> QED
  BY <1>3, <1>4, <1>5, <1>6, <1>7 DEF Handle

LEMMA ReadStep == IInv /\ (ReadHeader \/ ReadTimesOut) => IInv'
<1>1. ASSUME IInv, ReadHeader PROVE IInv'
  <2>1. /\ pc = "wait" /\ wire # << >> /\ Handle(Head(wire)) /\ wire' = Tail(wire) /\ asked' = asked
    BY <1>1 DEF ReadHeader, Handle
  <2> DEFINE r == Head(wire)
  <2>2. /\ wire' \in Seq([to : Requests, status : {"ok", "refused", "moved", "unauthorized"}])
        /\ r \in [to : Requests, status : {"ok", "refused", "moved", "unauthorized"}]
        /\ \A S : Pending(S) => Pending(S)' /\ r.to \in S
        /\ AtMostOne => Silent'
    BY <1>1, <2>1, TakeReply
  <2>3. /\ r.to \in Requests /\ r # NoReply
        /\ r.status \in {"ok", "refused", "moved", "unauthorized"}
    BY <2>2 DEF NoReply
  <2>4. Handle(r)
    BY <2>1
  <2> HIDE DEF r
  <2> QED
    BY <1>1, <2>1, <2>2, <2>3, <2>4, HandleStep
<1>2. ASSUME IInv, ReadTimesOut PROVE IInv'
  <2>1. pc = "wait" /\ Handle(NoReply) /\ wire' = wire
    BY <1>2 DEF ReadTimesOut
  <2> QED
    BY <1>2, <2>1, HandleStep
<1> QED
  BY <1>1, <1>2

LEMMA RecvBodyStep == IInv /\ RecvBody => IInv'
<1> SUFFICES ASSUME IInv, RecvBody PROVE IInv'
  OBVIOUS
<1>1. /\ UNCHANGED <<role, audio, tries, rtp, late, asked, wire, closed, run, thread, fault>>
      /\ pc = "body" /\ body' = "none" /\ seen' \in Offers \union {seen}
      /\ \/ pc' = "send" /\ req' \in {"setupVideo", "setupAudio"}
         \/ pc' = "failed" /\ req' = req
      /\ req' = "setupAudio" => ~("H264" \in seen')
  BY DEF RecvBody, Ask, GiveUp, config, bridge
<1>2. req = "describe" /\ ~late /\ role = "player"
  BY <1>1 DEF IInv, TypeOK, Script
<1>3. Silent
  BY <1>1, <1>2 DEF IInv, Line, InStep
<1>4. TypeOK'
  BY <1>1, ClientAssumption DEF IInv, TypeOK, Requests, Setups
<1>5. Script'
  BY <1>1, <1>2 DEF IInv, Script, Setups
<1>6. Line'
  BY <1>1, <1>3 DEF Line, Silent, Pending
<1>7. Ports'
  BY <1>1, <1>2 DEF IInv, Ports, Setups, Plays
<1> QED
  BY <1>4, <1>5, <1>6, <1>7 DEF IInv

(* What leaves the line and the requests alone: a fault, the end of a      *)
(* session and of a thread.                                                *)
LEMMA RestStep ==
  IInv /\ (Overrun \/ StopStreaming \/ Join \/ (\E t \in Tracks : ThreadEnds(t) \/ NullRead(t))) => IInv'
<1> SUFFICES ASSUME IInv,
                    Overrun \/ StopStreaming \/ Join \/ (\E t \in Tracks : ThreadEnds(t) \/ NullRead(t))
             PROVE  IInv'
  OBVIOUS
<1>1. /\ UNCHANGED <<role, audio, req, tries, seen, rtp, late, asked, wire, body, closed>>
      /\ pc' = pc \/ (pc \in {"up", "join"} /\ pc' \in {"join", "stopped"})
      /\ run' \in {run, FALSE} /\ fault' \in {"none", "pipe", "overrun", "null"}
      /\ thread' = thread \/ \E t \in Tracks : thread[t] = "running" /\ thread' = [thread EXCEPT ![t] = "ended"]
  BY DEF Overrun, StopStreaming, Join, ThreadEnds, NullRead, Fail, Up, config, call, session, peer, bridge
<1>2. /\ thread' \in [Tracks -> {"none", "running", "ended"}]
      /\ \A t \in Tracks : thread'[t] # "none" => thread[t] # "none"
  BY <1>1 DEF IInv, TypeOK
<1>3. TypeOK'
  <2>1. TypeOK
    BY DEF IInv
  <2>2. run' \in BOOLEAN
    BY <1>1, <2>1 DEF TypeOK
  <2>3. pc' \in {pc, "join", "stopped"}
    BY <1>1
  <2> QED
    BY <1>1, <1>2, <2>1, <2>2, <2>3 DEF TypeOK
<1>4. Script' /\ Ports'
  BY <1>1, <1>2 DEF IInv, Script, Ports
<1>5. Line'
  BY <1>1 DEF IInv, Line, InStep, Silent, Pending, AtMostOne
<1> QED
  BY <1>3, <1>4, <1>5 DEF IInv

LEMMA Invariance == Spec => []IInv
<1>1. IInv /\ [Next]_vars => IInv'
  <2>1. IInv /\ Next => IInv'
    BY AnswerStep, ServerStep, ConnectStep, SendStep, ReadStep, RecvBodyStep, RestStep DEF Next, Caller
  <2>2. IInv /\ UNCHANGED vars => IInv'
    BY DEF vars, config, call, session, peer, bridge, IInv, TypeOK, Script, Line, Ports, InStep, Silent,
           Pending, AtMostOne
  <2> QED
    BY <2>1, <2>2
<1> QED
  BY InitIInv, <1>1, PTL DEF Spec

-----------------------------------------------------------------------------
(* The variables of both clients keep their types, whatever the server     *)
(* answers and however late.                                               *)
THEOREM ClientTypes == Spec => []TypeOK
<1>1. IInv => TypeOK
  BY DEF IInv
<1> QED
  BY <1>1, Invariance, PTL

(* However late the server answers, a thread never reads the session of    *)
(* the other track unless the SETUP of that track was given up, nor the    *)
(* null session of a track that was set up, and the recorder never sends   *)
(* to ports given for another request than its SETUP.                      *)
THEOREM SessionsAreTheirOwn == Spec => []ReadsItsOwn
<1>1. IInv => ReadsItsOwn
  <2> SUFFICES ASSUME IInv PROVE ReadsItsOwn
    OBVIOUS
  <2>1. role = "recorder" => rtp["video"] \in {"null", "setupVideo"}
    BY DEF IInv, Ports
  <2>2. ASSUME NEW t \in Tracks, thread[t] = "running"
        PROVE  \/ rtp[t] \in {SetupOf[t], "nobody"}
               \/ t = "audio" /\ rtp[t] = "null" /\ "PCMU" \notin seen
               \/ t = "audio" /\ rtp[t] = SetupOf["video"] /\ late
    <3>1. req \in Plays
      BY <2>2 DEF IInv, Ports
    <3>2. t = "video" \/ t = "audio"
      BY <2>2 DEF Tracks
    <3>3. SetupOf["video"] = "setupVideo" /\ SetupOf["audio"] = "setupAudio"
      BY DEF SetupOf
    <3> QED
      BY <3>1, <3>2, <3>3 DEF IInv, Ports
  <2> QED
    BY <2>1, <2>2 DEF ReadsItsOwn
<1> QED
  BY <1>1, Invariance, PTL
=============================================================================
