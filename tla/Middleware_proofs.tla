-------------------------- MODULE Middleware_proofs -------------------------
(***************************************************************************)
(* The middleware for every set of outputs and inputs, every length of a   *)
(* connection, and any number of frames and sessions.                      *)
(***************************************************************************)
EXTENDS Middleware, SequenceTheorems, TLAPS

(* The set of outputs does not hold the name that stands for none.         *)
LEMMA OutputNames == NoBridge \notin Outputs
  BY MiddlewareAssumption DEF MiddlewareAssumption, NoBridge

(* What is taken out of a sequence leaves a sequence.                      *)
LEMMA WithoutType ==
  ASSUME NEW S, NEW s \in Seq(S), NEW e
  PROVE  Without(s, e) \in Seq(S)
<1>1. CASE e \in ToSet(s)
  <2> DEFINE i == CHOOSE j \in DOMAIN s : s[j] = e
  <2>1. i \in 1 .. Len(s)
    BY <1>1 DEF ToSet
  <2> HIDE DEF i
  <2>2. /\ \A k \in 1 .. i - 1 : s[k] \in S
        /\ \A k \in i + 1 .. Len(s) : s[k] \in S
        /\ i \in Int /\ Len(s) \in Int
    BY <2>1
  <2>3. SubSeq(s, 1, i - 1) \in Seq(S)
    BY <2>2, SubSeqProperties
  <2>4. SubSeq(s, i + 1, Len(s)) \in Seq(S)
    BY <2>2, SubSeqProperties
  <2>5. RemoveAt(s, i) \in Seq(S)
    BY <2>3, <2>4, ConcatProperties DEF RemoveAt
  <2> QED BY <1>1, <2>5 DEF Without, i
<1>2. CASE e \notin ToSet(s)
  BY <1>2 DEF Without
<1> QED BY <1>1, <1>2

(* The bridges of a configuration, in their order.                         *)
LEMMA ConfigurationType ==
  ASSUME NEW on \in SUBSET Outputs
  PROVE  Only("rtsp", on) \o Only("hls", on) \o Only("rtmp", on) \in Seq(Outputs)
<1>1. \A b : Only(b, on) \in Seq(Outputs)
  BY DEF Only
<1> QED BY <1>1, ConcatProperties

-----------------------------------------------------------------------------
(* Types.                                                                  *)

LEMMA InitTypes == Init => TypeOK
<1> SUFFICES ASSUME Init PROVE TypeOK
  OBVIOUS
<1>1. << >> \in Seq(Outputs) /\ << >> \in Seq(Frames)
  OBVIOUS
<1>2. NoFrame \in Frames
  BY DEF NoFrame, Frames
<1> QED BY <1>1, <1>2 DEF Init, TypeOK, InputStates

LEMMA NextTypes == TypeOK /\ [Next]_vars => TypeOK'
<1> SUFFICES ASSUME TypeOK, [Next]_vars PROVE TypeOK'
  OBVIOUS
<1> USE DEF main, ui, encOut, threads, recorder
<1>1. CASE StartEncode
  <2>1. todo' \in Seq(Outputs)
    BY <1>1, ConfigurationType DEF StartEncode
  <2>2. session' \in Nat /\ audio' \in BOOLEAN /\ audConn' \in BOOLEAN
    BY <1>1 DEF StartEncode, TypeOK
  <2>3. queue' \in [Threads -> Seq(Frames)]
    BY <1>1 DEF StartEncode, TypeOK, NewQueue
  <2>4. outputs' \in Seq(Outputs)
    BY <1>1 DEF StartEncode, NewOutputs
  <2>5. NoFrame \in Frames
    BY DEF NoFrame, Frames
  <2>6. got' \in [Outputs -> [Threads -> Frames]]
    BY <1>1, <2>5 DEF StartEncode
  <2>7. made' \in [Threads -> Nat] /\ thread' \in [Threads -> {"none", "wait", "loop", "ended"}]
    BY <1>1 DEF StartEncode
  <2>8. mw' = "publish" /\ run' = TRUE
    BY <1>1 DEF StartEncode
  <2>9. UNCHANGED <<reason, ui, bridge, hlsCfg, input, pos, inside, current, fault>>
    BY <1>1 DEF StartEncode
  <2> QED BY <2>1, <2>2, <2>3, <2>4, <2>6, <2>7, <2>8, <2>9 DEF TypeOK
<1>2. CASE AddOutput
  <2>1. Head(todo) \in Outputs /\ Tail(todo) \in Seq(Outputs)
    BY <1>2, HeadTailProperties DEF AddOutput, TypeOK
  <2>2. outputs' \in Seq(Outputs)
    BY <1>2, <2>1, AppendProperties DEF AddOutput, TypeOK
  <2>3. bridge' \in [Outputs -> {"none", "alive", "withdrawn"}] /\ hlsCfg' \in {"good", "wild"}
    BY <1>2, <2>1 DEF AddOutput, TypeOK
  <2>4. pos' \in [Threads -> Nat] /\ todo' = Tail(todo)
    BY <1>2 DEF AddOutput
  <2>5. UNCHANGED <<mw, session, audio, reason, ui, input, run, thread, inside, current, recorder, got, fault>>
    BY <1>2 DEF AddOutput
  <2> QED BY <2>1, <2>2, <2>3, <2>4, <2>5 DEF TypeOK
<1>3. CASE StartDecode
  <2>1. CASE BrokenPipe
    BY <2>1 DEF BrokenPipe, Fail, TypeOK
  <2>2. CASE ~BrokenPipe
    <3>1. input' \in [Inputs -> InputStates] /\ mw' = "up" /\ reason' = "none" /\ sock' = Replied
      BY <1>3, <2>2 DEF StartDecode
    <3>2. UNCHANGED <<todo, session, audio, abort, bridge, hlsCfg, encOut, threads, recorder, got, fault>>
      BY <1>3, <2>2 DEF StartDecode
    <3> QED BY <3>1, <3>2 DEF TypeOK, Replied
  <2> QED BY <2>1, <2>2
<1>4. CASE HandleAbort
  BY <1>4 DEF HandleAbort, Close, TypeOK
<1>5. CASE GetClntMsg
  BY <1>5 DEF GetClntMsg, Close, HasHls, TypeOK
<1>6. CASE RecvLayout
  BY <1>6 DEF RecvLayout, Close, TypeOK
<1>21. CASE ReplyStats
  BY <1>21 DEF ReplyStats, BrokenPipe, Fail, Replied, TypeOK
<1>7. CASE StopDecode
  BY <1>7 DEF StopDecode, Stopped, InputStates, Fail, TypeOK
<1>8. CASE StopRtsp
  <2>1. outputs' \in Seq(Outputs)
    BY <1>8, WithoutType DEF StopRtsp, TypeOK
  <2>2. bridge' \in [Outputs -> {"none", "alive", "withdrawn"}]
    BY <1>8 DEF StopRtsp, TypeOK
  <2>3. mw' \in {"deregister", "deleteRtsp", "deleteOthers"}
    BY <1>8 DEF StopRtsp
  <2>4. UNCHANGED <<todo, session, audio, reason, ui, hlsCfg, input, run, threads, recorder, got, fault>>
    BY <1>8 DEF StopRtsp
  <2> QED BY <2>1, <2>2, <2>3, <2>4 DEF TypeOK
<1>9. CASE StopOthers
  BY <1>9 DEF StopOthers, Fail, TypeOK
<1>10. CASE StopEncode
  <2>1. mw' = "join" /\ run' \in BOOLEAN
    BY <1>10 DEF StopEncode
  <2>2. UNCHANGED <<todo, session, audio, reason, sock, abort, bridge, hlsCfg, input, outputs, thread, pos, inside,
                    current, audConn, queue, made, got, fault>>
    BY <1>10 DEF StopEncode
  <2> QED BY <2>1, <2>2 DEF TypeOK
<1>11. CASE DeleteEncOut
  <2>0. CASE BrokenPipe
    BY <2>0 DEF BrokenPipe, Fail, TypeOK
  <2>1. CASE ~BrokenPipe
    <3>1. mw' \in {"start", "done"} /\ sock' \in {sock, "idle"}
      BY <1>11, <2>1 DEF DeleteEncOut, Replied
    <3>2. thread' \in [Threads -> {"none", "wait", "loop", "ended"}]
      BY <1>11, <2>1 DEF DeleteEncOut, TypeOK
    <3>3. UNCHANGED <<todo, session, audio, reason, abort, bridge, hlsCfg, input, encOut, pos, inside, current,
                      recorder, got, fault>>
      BY <1>11, <2>1 DEF DeleteEncOut
    <3> QED BY <3>1, <3>2, <3>3 DEF TypeOK
  <2> QED BY <2>0, <2>1
<1>12. CASE Client
  <2>1. sock' \in {"none", "idle", "half", "layout", "exit", "stats", "asked", "closed"}
    BY <1>12 DEF Client
  <2>2. UNCHANGED <<main, abort, bridge, hlsCfg, input, encOut, threads, recorder, got, fault>>
    BY <1>12 DEF Client
  <2> QED BY <2>1, <2>2 DEF TypeOK
<1>13. CASE SignalHandler
  <2>1. abort' \in BOOLEAN
    BY <1>13 DEF SignalHandler
  <2>2. UNCHANGED <<main, sock, bridge, hlsCfg, input, encOut, threads, recorder, got, fault>>
    BY <1>13 DEF SignalHandler
  <2> QED BY <2>1, <2>2 DEF TypeOK
<1>14. ASSUME NEW t \in Threads, Record(t) PROVE TypeOK'
  <2>1. made[t] + 1 \in Nat /\ <<session, made[t] + 1>> \in Frames
    BY DEF TypeOK, Frames
  <2>2. queue' \in [Threads -> Seq(Frames)] /\ made' \in [Threads -> Nat]
    BY <1>14, <2>1 DEF Record, TypeOK
  <2>3. UNCHANGED <<main, ui, bridge, hlsCfg, input, encOut, threads, audConn, got, fault>>
    BY <1>14 DEF Record
  <2> QED BY <2>2, <2>3 DEF TypeOK
<1>15. ASSUME NEW t \in Threads, Read(t) PROVE TypeOK'
  <2>1. queue[t] \in Seq(Frames) /\ queue[t] # << >>
    BY <1>15 DEF Read, TypeOK
  <2>2. Head(queue[t]) \in Frames /\ Tail(queue[t]) \in Seq(Frames)
    BY <2>1, HeadTailProperties
  <2>3. /\ current' \in [Threads -> Frames] /\ queue' \in [Threads -> Seq(Frames)]
        /\ thread' \in [Threads -> {"none", "wait", "loop", "ended"}] /\ pos' \in [Threads -> Nat]
    BY <1>15, <2>2 DEF Read, TypeOK
  <2>4. UNCHANGED <<main, ui, bridge, hlsCfg, input, encOut, inside, audConn, made, got, fault>>
    BY <1>15 DEF Read
  <2> QED BY <2>3, <2>4 DEF TypeOK
<1>16. ASSUME NEW t \in Threads, Send(t) PROVE TypeOK'
  <2>1. CASE pos[t] \in DOMAIN outputs
    <3>1. outputs[pos[t]] \in Outputs
      BY <2>1, ElementOfSeq DEF TypeOK
    <3>2. CASE Usable(outputs[pos[t]], t)
      <4>3. inside' = [inside EXCEPT ![t] = outputs[pos[t]]]
        BY <1>16, <2>1, <3>2 DEF Send
      <4>4. inside \in [Threads -> Outputs \union {NoBridge}]
        BY DEF TypeOK
      <4>1. inside' \in [Threads -> Outputs \union {NoBridge}]
        BY <3>1, <4>3, <4>4
      <4>2. UNCHANGED <<main, ui, bridge, hlsCfg, input, encOut, thread, pos, current, recorder, got, fault>>
        BY <1>16, <2>1, <3>2 DEF Send
      <4> QED BY <4>1, <4>2 DEF TypeOK
    <3>3. CASE ~Usable(outputs[pos[t]], t)
      BY <1>16, <2>1, <3>3 DEF Send, Fail, TypeOK
    <3> QED BY <3>2, <3>3
  <2>2. CASE pos[t] \notin DOMAIN outputs
    BY <1>16, <2>2 DEF Send, Fail, TypeOK
  <2> QED BY <2>1, <2>2
<1>17. ASSUME NEW t \in Threads, Sent(t) PROVE TypeOK'
  <2>1. inside[t] \in Outputs
    BY <1>17 DEF Sent, TypeOK
  <2>2. CASE Usable(inside[t], t) /\ pos[t] # 0
    <3>6. inside' = [inside EXCEPT ![t] = NoBridge] /\ pos' = [pos EXCEPT ![t] = @ + 1]
      BY <1>17, <2>2 DEF Sent
    <3>7. inside' \in [Threads -> Outputs \union {NoBridge}] /\ pos' \in [Threads -> Nat]
      BY <3>6 DEF TypeOK
    <3>3. got' = [got EXCEPT ![inside[t]][t] = current[t]]
      BY <1>17, <2>2 DEF Sent
    <3>4. current[t] \in Frames /\ got \in [Outputs -> [Threads -> Frames]]
      BY DEF TypeOK
    <3>5. got' \in [Outputs -> [Threads -> Frames]]
      BY <2>1, <3>3, <3>4
    <3>2. UNCHANGED <<main, ui, bridge, hlsCfg, input, encOut, thread, current, recorder, fault>>
      BY <1>17, <2>2 DEF Sent
    <3> QED BY <3>2, <3>5, <3>7 DEF TypeOK
  <2>3. CASE ~Usable(inside[t], t)
    BY <1>17, <2>3 DEF Sent, Fail, TypeOK
  <2>4. CASE Usable(inside[t], t) /\ pos[t] = 0
    BY <1>17, <2>4 DEF Sent, Fail, TypeOK
  <2> QED BY <2>2, <2>3, <2>4
<1>18. ASSUME NEW t \in Threads, EndOfOutputs(t) PROVE TypeOK'
  <2>1. NoFrame \in Frames
    BY DEF NoFrame, Frames
  <2> QED BY <1>18, <2>1 DEF EndOfOutputs, TypeOK
<1>19. ASSUME NEW t \in Threads, End(t) PROVE TypeOK'
  BY <1>19 DEF End, TypeOK
<1>20. CASE UNCHANGED vars
  BY <1>20 DEF vars, TypeOK
<1> QED
  BY <1>1, <1>2, <1>3, <1>4, <1>5, <1>6, <1>7, <1>8, <1>9, <1>10, <1>11, <1>12, <1>13, <1>14,
     <1>15, <1>16, <1>17, <1>18, <1>19, <1>20, <1>21 DEF Next, Main, Thread

(* Every variable keeps its type.                                          *)
THEOREM MiddlewareTypes == Spec => []TypeOK
  BY InitTypes, NextTypes, PTL DEF Spec

-----------------------------------------------------------------------------
(* What a step may disturb.                                                *)

(* The user interface moves the main thread between the states in which    *)
(* it waits, or to the end of the session, and touches nothing else.       *)
UiSteps == HandleAbort \/ GetClntMsg \/ RecvLayout \/ ReplyStats \/ Client \/ SignalHandler

LEMMA UiStep ==
  ASSUME UiSteps
  PROVE  /\ UNCHANGED <<session, audio, bridge, input, encOut, threads, recorder, got>>
         /\ fault' = fault \/ fault' = "pipe"
         /\ mw' = mw \/ (mw \in {"up", "recv", "stats"} /\ mw' \in {"up", "recv", "stats", "stopDecode"})
<1> USE DEF main, ui, encOut, threads, recorder
<1>1. CASE HandleAbort
  BY <1>1 DEF HandleAbort, Close
<1>2. CASE GetClntMsg
  BY <1>2 DEF GetClntMsg, Close
<1>3. CASE RecvLayout
  BY <1>3 DEF RecvLayout, Close
<1>4. CASE Client
  BY <1>4 DEF Client
<1>5. CASE SignalHandler
  BY <1>5 DEF SignalHandler
<1>6. CASE ReplyStats
  BY <1>6 DEF ReplyStats, BrokenPipe, Fail
<1> QED BY <1>1, <1>2, <1>3, <1>4, <1>5, <1>6 DEF UiSteps

(* A step of a thread of CEncOut is one of these.                          *)
LEMMA SendSteps ==
  ASSUME NEW t \in Threads, Send(t), TypeOK
  PROVE  /\ thread[t] = "loop" /\ inside[t] = NoBridge
         /\ \/ /\ pos[t] \in DOMAIN outputs
               /\ inside' = [inside EXCEPT ![t] = outputs[pos[t]]]
               /\ UNCHANGED <<main, bridge, input, encOut, thread, pos, current, recorder, got, fault>>
            \/ /\ pos[t] \in DOMAIN outputs /\ ~Usable(outputs[pos[t]], t) /\ Fail("bridge")
            \/ Fail("iterator")
<1>1. CASE pos[t] \notin DOMAIN outputs
  BY <1>1 DEF Send
<1>2. CASE pos[t] \in DOMAIN outputs /\ Usable(outputs[pos[t]], t)
  BY <1>2 DEF Send
<1>3. CASE pos[t] \in DOMAIN outputs /\ ~Usable(outputs[pos[t]], t)
  BY <1>3 DEF Send
<1> QED BY <1>1, <1>2, <1>3

LEMMA SentSteps ==
  ASSUME NEW t \in Threads, Sent(t), TypeOK
  PROVE  /\ inside[t] \in Outputs /\ inside[t] # NoBridge
         /\ \/ /\ pos[t] # 0
               /\ got' = [got EXCEPT ![inside[t]][t] = current[t]]
               /\ inside' = [inside EXCEPT ![t] = NoBridge]
               /\ pos' = [pos EXCEPT ![t] = @ + 1]
               /\ UNCHANGED <<main, bridge, input, encOut, thread, current, recorder, fault>>
            \/ ~Usable(inside[t], t) /\ Fail("bridge")
            \/ Fail("iterator")
<1>0. inside[t] \in Outputs /\ inside[t] # NoBridge
  BY DEF Sent, TypeOK
<1>1. CASE ~Usable(inside[t], t)
  BY <1>0, <1>1 DEF Sent
<1>2. CASE Usable(inside[t], t) /\ pos[t] # 0
  BY <1>0, <1>2 DEF Sent
<1>3. CASE Usable(inside[t], t) /\ pos[t] = 0
  BY <1>0, <1>3 DEF Sent
<1> QED BY <1>1, <1>2, <1>3

-----------------------------------------------------------------------------
(* Threads: one that is inside a bridge is in its loop, and none is left   *)
(* between two sessions.                                                   *)

InLoop == \A t \in Threads : inside[t] # NoBridge => thread[t] = "loop"

NoneLeft ==
  mw \in {"start", "done"} => \A t \in Threads : thread[t] = "none"

ThreadInv == InLoop /\ NoneLeft

LEMMA NextThreads == TypeOK /\ ThreadInv /\ [Next]_vars => ThreadInv'
<1> SUFFICES ASSUME TypeOK, ThreadInv, [Next]_vars PROVE ThreadInv'
  OBVIOUS
<1> USE DEF main, ui, encOut, threads, recorder, ThreadInv, InLoop, NoneLeft
<1>1. CASE StartEncode
  BY <1>1 DEF StartEncode
<1>2. CASE AddOutput \/ StartDecode \/ StopEncode
  BY <1>2 DEF AddOutput, StartDecode, BrokenPipe, Fail, StopEncode
<1>3. CASE UiSteps
  BY <1>3, UiStep
<1>4. CASE StopDecode \/ StopOthers
  BY <1>4 DEF StopDecode, StopOthers, Fail
<1>5. CASE StopRtsp
  BY <1>5 DEF StopRtsp
<1>6. CASE DeleteEncOut
  <2>1. \A t \in Threads : thread[t] \in {"ended", "none"} /\ inside[t] = NoBridge
    BY <1>6 DEF DeleteEncOut, MayDelete
  <2>2. UNCHANGED inside
        /\ \/ thread' = [t \in Threads |-> IF thread[t] = "ended" THEN "none" ELSE thread[t]]
           \/ UNCHANGED <<mw, thread>>
    BY <1>6 DEF DeleteEncOut, BrokenPipe, Fail
  <2> QED BY <2>1, <2>2
<1>7. ASSUME NEW t \in Threads, Record(t) PROVE ThreadInv'
  BY <1>7 DEF Record
<1>8. ASSUME NEW t \in Threads, Read(t) PROVE ThreadInv'
  BY <1>8 DEF Read, TypeOK
<1>9. ASSUME NEW t \in Threads, Send(t) PROVE ThreadInv'
  <2>1. thread[t] = "loop" /\ UNCHANGED <<mw, thread>>
    BY <1>9, SendSteps DEF Fail
  <2>3. inside' = inside \/ inside' = [inside EXCEPT ![t] = outputs[pos[t]]]
    BY <1>9, SendSteps DEF Fail
  <2>2. \A u \in Threads : u # t => inside'[u] = inside[u]
    BY <2>3 DEF TypeOK
  <2> QED BY <2>1, <2>2
<1>10. ASSUME NEW t \in Threads, Sent(t) PROVE ThreadInv'
  <2>1. UNCHANGED <<mw, thread>>
    BY <1>10, SentSteps DEF Fail
  <2>2. \A u \in Threads : inside'[u] = inside[u] \/ inside'[u] = NoBridge
    BY <1>10, SentSteps DEF Fail, TypeOK
  <2> QED BY <2>1, <2>2
<1>11. ASSUME NEW t \in Threads, EndOfOutputs(t) PROVE ThreadInv'
  BY <1>11 DEF EndOfOutputs, TypeOK
<1>12. ASSUME NEW t \in Threads, End(t) PROVE ThreadInv'
  BY <1>12 DEF End, TypeOK
<1>13. CASE UNCHANGED vars
  BY <1>13 DEF vars
<1> QED
  BY <1>1, <1>2, <1>3, <1>4, <1>5, <1>6, <1>7, <1>8, <1>9, <1>10, <1>11, <1>12, <1>13
     DEF Next, Main, Thread, UiSteps

LEMMA InitThreads == Init => ThreadInv
  BY DEF Init, ThreadInv, InLoop, NoneLeft

-----------------------------------------------------------------------------
(* Outputs: while a session is up, what is registered is there, and so is  *)
(* the bridge a thread is in.                                              *)

SessionUp == mw \in {"publish", "up", "recv", "stats", "stopDecode", "withdraw"}

RegInv ==
  SessionUp =>
    /\ \A b \in ToSet(outputs) : bridge[b] = "alive"
    /\ \A t \in Threads : inside[t] = NoBridge \/ inside[t] \in ToSet(outputs)
    /\ fault # "bridge"

LEMMA AppendRange ==
  ASSUME NEW S, NEW s \in Seq(S), NEW e \in S
  PROVE  ToSet(Append(s, e)) = ToSet(s) \union {e}
<1>1. /\ Append(s, e) \in Seq(S) /\ Len(Append(s, e)) = Len(s) + 1
      /\ \A i \in 1 .. Len(s) : Append(s, e)[i] = s[i]
      /\ Append(s, e)[Len(s) + 1] = e
  BY AppendProperties
<1>2. DOMAIN Append(s, e) = 1 .. Len(s) + 1 /\ DOMAIN s = 1 .. Len(s) /\ Len(s) \in Nat
  BY <1>1, LenProperties
<1> QED BY <1>1, <1>2 DEF ToSet

LEMMA NextReg == TypeOK /\ ThreadInv /\ RegInv /\ [Next]_vars => RegInv'
<1> SUFFICES ASSUME TypeOK, ThreadInv, RegInv, [Next]_vars PROVE RegInv'
  OBVIOUS
<1> USE DEF main, ui, encOut, threads, recorder
<1>1. CASE StartEncode
  <2>1. \A t \in Threads : inside'[t] = NoBridge
    BY <1>1 DEF StartEncode, ThreadInv, InLoop, NoneLeft
  <2>2. ToSet(outputs') = {} /\ fault' = "none"
    BY <1>1 DEF StartEncode, NewOutputs, ToSet, Up
  <2> QED BY <2>1, <2>2 DEF RegInv
<1>2. CASE AddOutput
  <2> DEFINE b == Head(todo)
  <2>0. SessionUp /\ b \in Outputs
    BY <1>2, HeadTailProperties DEF AddOutput, TypeOK, SessionUp
  <2>1. ToSet(outputs') = ToSet(outputs) \union {b} /\ bridge' = [bridge EXCEPT ![b] = "alive"]
    BY <1>2, <2>0, AppendRange DEF AddOutput, TypeOK
  <2>2. UNCHANGED <<inside, fault>>
    BY <1>2 DEF AddOutput
  <2>3. bridge \in [Outputs -> {"none", "alive", "withdrawn"}] /\ ToSet(outputs) \subseteq Outputs
    BY ElementOfSeq DEF TypeOK, ToSet
  <2>4. \A c \in ToSet(outputs') : bridge'[c] = "alive"
    BY <2>0, <2>1, <2>3 DEF RegInv
  <2> QED BY <2>0, <2>1, <2>2, <2>4 DEF RegInv
<1>3. CASE StartDecode
  BY <1>3 DEF StartDecode, BrokenPipe, Fail, RegInv, SessionUp
<1>4. CASE UiSteps
  BY <1>4, UiStep DEF RegInv, SessionUp
<1>5. CASE StopDecode
  BY <1>5 DEF StopDecode, Fail, RegInv, SessionUp
<1>6. CASE StopRtsp
  BY <1>6 DEF StopRtsp, RegInv, SessionUp
<1>7. CASE StopOthers
  BY <1>7 DEF StopOthers, Fail, RegInv, SessionUp
<1>8. CASE StopEncode \/ DeleteEncOut
  BY <1>8 DEF StopEncode, DeleteEncOut, BrokenPipe, Fail, RegInv, SessionUp
<1>9. ASSUME NEW t \in Threads, Record(t) PROVE RegInv'
  BY <1>9 DEF Record, RegInv, SessionUp
<1>10. ASSUME NEW t \in Threads, Read(t) PROVE RegInv'
  BY <1>10 DEF Read, RegInv, SessionUp
<1>11. ASSUME NEW t \in Threads, Send(t) PROVE RegInv'
  <2>1. UNCHANGED <<mw, bridge, outputs>>
    BY <1>11, SendSteps DEF Fail
  <2>2. ASSUME SessionUp PROVE fault' # "bridge"
    <3>1. fault # "bridge"
      BY <2>2 DEF RegInv
    <3>2. \A i \in DOMAIN outputs : Usable(outputs[i], t)
      BY <2>2 DEF RegInv, Usable, ToSet
    <3> QED BY <1>11, <3>1, <3>2, SendSteps DEF Fail
  <2>3. ASSUME SessionUp, NEW u \in Threads PROVE inside'[u] = NoBridge \/ inside'[u] \in ToSet(outputs)
    <3>1. inside[u] = NoBridge \/ inside[u] \in ToSet(outputs)
      BY <2>3 DEF RegInv
    <3>2. \/ inside' = inside
          \/ pos[t] \in DOMAIN outputs /\ inside' = [inside EXCEPT ![t] = outputs[pos[t]]]
      BY <1>11, SendSteps DEF Fail
    <3>3. DOMAIN inside = Threads
      BY DEF TypeOK
    <3> QED BY <3>1, <3>2, <3>3 DEF ToSet
  <2> QED BY <2>1, <2>2, <2>3 DEF RegInv, SessionUp
<1>12. ASSUME NEW t \in Threads, Sent(t) PROVE RegInv'
  <2>1. UNCHANGED <<mw, bridge, outputs>>
    BY <1>12, SentSteps DEF Fail
  <2>2. ASSUME SessionUp PROVE fault' # "bridge"
    <3>1. fault # "bridge" /\ inside[t] \in ToSet(outputs)
      BY <1>12, <2>2, SentSteps DEF RegInv
    <3>2. Usable(inside[t], t)
      BY <2>2, <3>1 DEF RegInv, Usable
    <3> QED BY <1>12, <3>1, <3>2, SentSteps DEF Fail
  <2>3. ASSUME SessionUp, NEW u \in Threads PROVE inside'[u] = NoBridge \/ inside'[u] \in ToSet(outputs)
    BY <1>12, <2>3, SentSteps DEF RegInv, Fail, TypeOK
  <2> QED BY <2>1, <2>2, <2>3 DEF RegInv, SessionUp
<1>13. ASSUME NEW t \in Threads, EndOfOutputs(t) PROVE RegInv'
  BY <1>13 DEF EndOfOutputs, RegInv, SessionUp
<1>14. ASSUME NEW t \in Threads, End(t) PROVE RegInv'
  BY <1>14 DEF End, RegInv, SessionUp
<1>15. CASE UNCHANGED vars
  BY <1>15 DEF vars, RegInv, SessionUp
<1> QED
  BY <1>1, <1>2, <1>3, <1>4, <1>5, <1>6, <1>7, <1>8, <1>9, <1>10, <1>11, <1>12, <1>13, <1>14, <1>15
     DEF Next, Main, Thread, UiSteps

-----------------------------------------------------------------------------
(* Frames: what waits in a connection, is being handed out or has arrived  *)
(* is of this session, or of a connection that audio has left behind.      *)

Fresh(t, f) == f[1] = session \/ (t = "audio" /\ ~audio)

FreshInv ==
  /\ mw # "start" => \A t \in Threads :
       /\ \A i \in DOMAIN queue[t] : Fresh(t, queue[t][i])
       /\ thread[t] = "loop" => Fresh(t, current[t])
  /\ FreshFrames

LEMMA NextFresh == TypeOK /\ ThreadInv /\ FreshInv /\ [Next]_vars => FreshInv'
<1> SUFFICES ASSUME TypeOK, ThreadInv, FreshInv, [Next]_vars PROVE FreshInv'
  OBVIOUS
<1> USE DEF main, ui, encOut, threads, recorder, FreshInv, FreshFrames, Fresh
<1>1. CASE StartEncode
  <2>1. \A b \in Outputs, t \in Threads : got'[b][t] = NoFrame
    BY <1>1 DEF StartEncode
  <2>2. \A t \in Threads : thread'[t] # "loop"
    BY <1>1 DEF StartEncode
  <2>3. ASSUME NEW t \in Threads, NEW i \in DOMAIN queue'[t] PROVE t = "audio" /\ ~audio'
    BY <1>1, <2>3 DEF StartEncode, NewQueue, Threads
  <2> QED BY <2>1, <2>2, <2>3
<1>2. CASE AddOutput \/ StartDecode \/ StopEncode
  BY <1>2 DEF AddOutput, StartDecode, BrokenPipe, Fail, StopEncode
<1>3. CASE UiSteps
  BY <1>3, UiStep
<1>4. CASE StopDecode \/ StopOthers
  BY <1>4 DEF StopDecode, StopOthers, Fail
<1>5. CASE StopRtsp
  BY <1>5 DEF StopRtsp
<1>6. CASE DeleteEncOut
  BY <1>6 DEF DeleteEncOut, BrokenPipe, Fail
<1>7. ASSUME NEW t \in Threads, Record(t) PROVE FreshInv'
  <2>1. <<session, made[t] + 1>>[1] = session
    OBVIOUS
  <2>2. queue[t] \in Seq(Frames) /\ <<session, made[t] + 1>> \in Frames
    BY DEF TypeOK, Frames
  <2>3. mw # "start" /\ UNCHANGED <<mw, session, audio, thread, current, got>>
    BY <1>7 DEF Record, Recording
  <2>4. queue' = [queue EXCEPT ![t] = Append(@, <<session, made[t] + 1>>)]
    BY <1>7 DEF Record
  <2>5. ASSUME NEW i \in DOMAIN queue'[t] PROVE Fresh(t, queue'[t][i])
    <3>1. queue'[t] = Append(queue[t], <<session, made[t] + 1>>)
      BY <2>4 DEF TypeOK
    <3>2. i \in 1 .. Len(queue[t]) + 1
      BY <2>2, <2>5, <3>1, AppendProperties, LenProperties
    <3>3. CASE i = Len(queue[t]) + 1
      BY <2>1, <2>2, <3>1, <3>3, AppendProperties
    <3>4. CASE i \in 1 .. Len(queue[t])
      BY <2>2, <2>3, <3>1, <3>4, AppendProperties, LenProperties
    <3> QED BY <2>2, <3>2, <3>3, <3>4, LenProperties
  <2>6. \A u \in Threads : u # t => queue'[u] = queue[u]
    BY <2>4 DEF TypeOK
  <2> QED BY <2>3, <2>5, <2>6
<1>8. ASSUME NEW t \in Threads, Read(t) PROVE FreshInv'
  <2>1. queue[t] \in Seq(Frames) /\ queue[t] # << >> /\ Len(queue[t]) \in Nat
    BY <1>8, LenProperties DEF Read, TypeOK
  <2>2. mw # "start" /\ UNCHANGED <<mw, session, audio, got>>
    BY <1>8 DEF Read, ThreadInv, NoneLeft
  <2>3. /\ queue' = [queue EXCEPT ![t] = Tail(@)]
        /\ current' = [current EXCEPT ![t] = Head(queue[t])]
        /\ thread' = [thread EXCEPT ![t] = "loop"]
    BY <1>8 DEF Read
  <2>4. Head(queue[t]) = queue[t][1] /\ 1 \in DOMAIN queue[t]
    BY <2>1, LenProperties, EmptySeq
  <2>5. Fresh(t, current'[t])
    BY <2>2, <2>3, <2>4 DEF TypeOK
  <2>6. ASSUME NEW i \in DOMAIN queue'[t] PROVE Fresh(t, queue'[t][i])
    <3>1. queue'[t] = Tail(queue[t])
      BY <2>3 DEF TypeOK
    <3>2. i \in 1 .. Len(queue[t]) - 1 /\ queue'[t][i] = queue[t][i + 1]
      BY <2>1, <2>6, <3>1, HeadTailProperties, LenProperties
    <3>3. i + 1 \in DOMAIN queue[t]
      BY <2>1, <3>2, LenProperties
    <3> QED BY <2>2, <3>2, <3>3
  <2>7. \A u \in Threads : u # t =>
           queue'[u] = queue[u] /\ current'[u] = current[u] /\ thread'[u] = thread[u]
    BY <2>3 DEF TypeOK
  <2> QED BY <2>2, <2>5, <2>6, <2>7
<1>9. ASSUME NEW t \in Threads, Send(t) PROVE FreshInv'
  BY <1>9, SendSteps DEF Fail
<1>10. ASSUME NEW t \in Threads, Sent(t) PROVE FreshInv'
  <2>1. UNCHANGED <<mw, session, audio, thread, current, queue>>
    BY <1>10, SentSteps DEF Fail
  <2>2. Fresh(t, current[t])
    BY <1>10, SentSteps DEF ThreadInv, InLoop, NoneLeft
  <2>3. \A b \in Outputs, u \in Threads : got'[b][u] = got[b][u] \/ (u = t /\ got'[b][u] = current[t])
    <3>1. got' = got \/ got' = [got EXCEPT ![inside[t]][t] = current[t]]
      BY <1>10, SentSteps DEF Fail
    <3>2. got \in [Outputs -> [Threads -> Frames]]
      BY DEF TypeOK
    <3> QED BY <3>1, <3>2
  <2> QED BY <2>1, <2>2, <2>3
<1>11. ASSUME NEW t \in Threads, EndOfOutputs(t) PROVE FreshInv'
  BY <1>11 DEF EndOfOutputs, TypeOK
<1>12. ASSUME NEW t \in Threads, End(t) PROVE FreshInv'
  BY <1>12 DEF End, TypeOK
<1>13. CASE UNCHANGED vars
  BY <1>13 DEF vars
<1> QED
  BY <1>1, <1>2, <1>3, <1>4, <1>5, <1>6, <1>7, <1>8, <1>9, <1>10, <1>11, <1>12, <1>13
     DEF Next, Main, Thread, UiSteps

-----------------------------------------------------------------------------
(* Loops: until an output is taken out, the outputs a loop has passed have *)
(* the frame, unless m_Outputs has moved and the loop is lost.             *)

HandedInv ==
  Serving => \A t \in Threads :
    (thread[t] = "loop" /\ pos[t] # 0) =>
      /\ pos[t] \in 1 .. Len(outputs) + 1
      /\ \A i \in 1 .. pos[t] - 1 : got[outputs[i]][t] = current[t]
      /\ inside[t] # NoBridge => pos[t] \in DOMAIN outputs /\ inside[t] = outputs[pos[t]]

LEMMA NextHanded == TypeOK /\ ThreadInv /\ HandedInv /\ [Next]_vars => HandedInv'
<1> SUFFICES ASSUME TypeOK, ThreadInv, HandedInv, [Next]_vars PROVE HandedInv'
  OBVIOUS
<1> USE DEF main, ui, encOut, threads, recorder, HandedInv, Serving
<1>0. /\ outputs \in Seq(Outputs) /\ Len(outputs) \in Nat /\ DOMAIN outputs = 1 .. Len(outputs)
      /\ pos \in [Threads -> Nat] /\ got \in [Outputs -> [Threads -> Frames]]
      /\ thread \in [Threads -> {"none", "wait", "loop", "ended"}]
      /\ inside \in [Threads -> Outputs \union {NoBridge}] /\ current \in [Threads -> Frames]
  BY LenProperties DEF TypeOK
<1>1. CASE StartEncode
  <2>1. \A t \in Threads : thread'[t] # "loop"
    BY <1>1 DEF StartEncode
  <2> QED BY <2>1
<1>2. CASE AddOutput
  <2>1. \A t \in Threads : pos'[t] = 0
    BY <1>2 DEF AddOutput
  <2> QED BY <2>1
<1>3. CASE UiSteps
  BY <1>3, UiStep
<1>4. CASE StartDecode \/ StopEncode
  BY <1>4 DEF StartDecode, BrokenPipe, Fail, StopEncode
<1>5. CASE StopDecode \/ StopOthers
  BY <1>5 DEF StopDecode, StopOthers, Fail
<1>6. CASE StopRtsp
  BY <1>6 DEF StopRtsp
<1>7. CASE DeleteEncOut
  BY <1>7 DEF DeleteEncOut, BrokenPipe, Fail
<1>8. ASSUME NEW t \in Threads, Record(t) PROVE HandedInv'
  BY <1>8 DEF Record
<1>9. ASSUME NEW t \in Threads, Read(t) PROVE HandedInv'
  <2>1. inside[t] = NoBridge
    BY <1>0, <1>9 DEF Read, ThreadInv, InLoop
  <2>2. /\ pos' = [pos EXCEPT ![t] = 1] /\ thread' = [thread EXCEPT ![t] = "loop"]
        /\ current' = [current EXCEPT ![t] = Head(queue[t])]
        /\ UNCHANGED <<mw, outputs, inside, got>>
    BY <1>9 DEF Read
  <2>3. ASSUME NEW u \in Threads, u # t
        PROVE  pos'[u] = pos[u] /\ thread'[u] = thread[u] /\ current'[u] = current[u]
    BY <1>0, <2>2, <2>3
  <2>4. pos'[t] = 1 /\ 1 .. pos'[t] - 1 = {}
    BY <1>0, <2>2
  <2> QED BY <1>0, <2>1, <2>2, <2>3, <2>4
<1>10. ASSUME NEW t \in Threads, Send(t) PROVE HandedInv'
  <2>1. UNCHANGED <<mw, outputs, thread, pos, current, got>>
    BY <1>10, SendSteps DEF Fail
  <2>2. \/ inside' = inside
        \/ pos[t] \in DOMAIN outputs /\ inside' = [inside EXCEPT ![t] = outputs[pos[t]]]
    BY <1>10, SendSteps DEF Fail
  <2> QED BY <1>0, <2>1, <2>2
<1>11. ASSUME NEW t \in Threads, Sent(t) PROVE HandedInv'
  <2>1. CASE UNCHANGED <<mw, outputs, thread, pos, current, got, inside>>
    BY <2>1
  <2>2. CASE /\ pos[t] # 0
             /\ got' = [got EXCEPT ![inside[t]][t] = current[t]]
             /\ inside' = [inside EXCEPT ![t] = NoBridge]
             /\ pos' = [pos EXCEPT ![t] = @ + 1]
             /\ UNCHANGED <<mw, outputs, thread, current>>
    <3>1. inside[t] \in Outputs /\ inside[t] # NoBridge /\ thread[t] = "loop"
      BY <1>11, SentSteps DEF ThreadInv, InLoop
    <3>2. \A b \in Outputs : got'[b][t] = IF b = inside[t] THEN current[t] ELSE got[b][t]
      BY <1>0, <2>2, <3>1
    <3>3. \A b \in Outputs, u \in Threads : u # t => got'[b][u] = got[b][u]
      BY <1>0, <2>2, <3>1
    <3>4. \A i \in DOMAIN outputs : outputs[i] \in Outputs
      BY <1>0, ElementOfSeq
    <3>5. pos'[t] = pos[t] + 1 /\ inside'[t] = NoBridge
      BY <1>0, <2>2
    <3>6. ASSUME NEW u \in Threads, u # t PROVE pos'[u] = pos[u] /\ inside'[u] = inside[u]
      BY <1>0, <2>2, <3>6
    <3>7. ASSUME Serving
          PROVE  /\ pos'[t] \in 1 .. Len(outputs) + 1
                 /\ \A i \in 1 .. pos'[t] - 1 : got'[outputs[i]][t] = current[t]
      <4>1. /\ pos[t] \in DOMAIN outputs /\ inside[t] = outputs[pos[t]]
            /\ \A i \in 1 .. pos[t] - 1 : got[outputs[i]][t] = current[t]
        BY <2>2, <3>1, <3>7
      <4>2. \A i \in 1 .. pos[t] : got'[outputs[i]][t] = current[t]
        BY <1>0, <3>2, <3>4, <4>1
      <4> QED BY <1>0, <3>5, <4>1, <4>2
    <3>8. ASSUME Serving, NEW u \in Threads, u # t, thread[u] = "loop", pos[u] # 0
          PROVE  \A i \in 1 .. pos[u] - 1 : got'[outputs[i]][u] = current[u]
      BY <1>0, <3>3, <3>4, <3>8
    <3> QED BY <2>2, <3>5, <3>6, <3>7, <3>8
  <2> QED BY <1>11, <2>1, <2>2, SentSteps DEF Fail
<1>12. ASSUME NEW t \in Threads, EndOfOutputs(t) PROVE HandedInv'
  <2>1. /\ thread' = [thread EXCEPT ![t] = "wait"] /\ pos' = [pos EXCEPT ![t] = 0]
        /\ current' = [current EXCEPT ![t] = NoFrame] /\ UNCHANGED <<mw, outputs, inside, got>>
    BY <1>12 DEF EndOfOutputs
  <2>2. thread'[t] = "wait"
    BY <1>0, <2>1
  <2>3. ASSUME NEW u \in Threads, u # t
        PROVE  pos'[u] = pos[u] /\ thread'[u] = thread[u] /\ current'[u] = current[u]
    BY <1>0, <2>1, <2>3
  <2> QED BY <2>1, <2>2, <2>3
<1>13. ASSUME NEW t \in Threads, End(t) PROVE HandedInv'
  BY <1>0, <1>13 DEF End
<1>14. CASE UNCHANGED vars
  BY <1>14 DEF vars
<1> QED
  BY <1>1, <1>2, <1>3, <1>4, <1>5, <1>6, <1>7, <1>8, <1>9, <1>10, <1>11, <1>12, <1>13, <1>14
     DEF Next, Main, Thread, UiSteps

(* Only the end of its loop takes a thread back to waiting for a frame.    *)
LEMMA LoopEnds ==
  ASSUME TypeOK, Next, NEW t \in Threads, thread[t] = "loop", thread'[t] = "wait", Serving
  PROVE  EndOfOutputs(t)
<1> USE DEF main, ui, encOut, threads, recorder
<1>1. CASE Main
  <2>1. ~StartEncode /\ ~DeleteEncOut
    BY DEF StartEncode, DeleteEncOut, Serving
  <2>2. CASE HandleAbort \/ GetClntMsg \/ RecvLayout \/ ReplyStats
    BY <2>2, UiStep DEF UiSteps
  <2>3. CASE AddOutput \/ StartDecode \/ StopEncode \/ StopRtsp
    BY <2>3 DEF AddOutput, StartDecode, BrokenPipe, Fail, StopEncode, StopRtsp
  <2>4. CASE StopDecode \/ StopOthers
    BY <2>4 DEF StopDecode, StopOthers, Fail
  <2> QED BY <1>1, <2>1, <2>2, <2>3, <2>4 DEF Main
<1>2. CASE Client \/ SignalHandler
  BY <1>2, UiStep DEF UiSteps
<1>3. ASSUME NEW u \in Threads, Record(u) PROVE FALSE
  BY <1>3 DEF Record
<1>4. ASSUME NEW u \in Threads, Read(u) PROVE FALSE
  BY <1>4 DEF Read, TypeOK
<1>5. ASSUME NEW u \in Threads, Send(u) PROVE FALSE
  BY <1>5, SendSteps DEF Fail
<1>6. ASSUME NEW u \in Threads, Sent(u) PROVE FALSE
  BY <1>6, SentSteps DEF Fail
<1>7. ASSUME NEW u \in Threads, End(u) PROVE FALSE
  BY <1>7 DEF End, TypeOK
<1>8. ASSUME NEW u \in Threads, EndOfOutputs(u) PROVE u = t
  BY <1>8 DEF EndOfOutputs, TypeOK
<1> QED BY <1>1, <1>2, <1>3, <1>4, <1>5, <1>6, <1>7, <1>8 DEF Next, Thread

-----------------------------------------------------------------------------
Inv == TypeOK /\ ThreadInv /\ RegInv /\ FreshInv /\ HandedInv

(* The inductive invariant: it starts to hold and every step keeps it.     *)
LEMMA Invariance == Spec => []Inv
<1>1. Init => Inv
  <2> SUFFICES ASSUME Init PROVE Inv
    OBVIOUS
  <2>1. RegInv /\ FreshInv /\ HandedInv
    BY DEF Init, RegInv, SessionUp, FreshInv, FreshFrames, HandedInv, Serving
  <2> QED BY <2>1, InitTypes, InitThreads DEF Inv
<1>2. Inv /\ [Next]_vars => Inv'
  BY NextTypes, NextThreads, NextReg, NextFresh, NextHanded DEF Inv
<1> QED BY <1>1, <1>2, PTL DEF Spec

(* While a session is up its outputs are there, and no thread has called   *)
(* one that is not: the registrations of the RTMP and HLS bridges, which   *)
(* are deleted without DeleteOutput, do not outlive the session.           *)
THEOREM RegisteredAreAlive == Spec => []RegisteredAlive
<1>1. Inv => RegisteredAlive
  BY DEF Inv, RegInv, SessionUp, RegisteredAlive
<1> QED BY <1>1, Invariance, PTL

(* No frame of an earlier session reaches a bridge, but audio's.           *)
THEOREM FramesAreFresh == Spec => []FreshFrames
<1>1. Inv => FreshFrames
  BY DEF Inv, FreshInv
<1> QED BY <1>1, Invariance, PTL

(* A loop that ends while the session is up has handed its frame to every  *)
(* output.                                                                 *)
THEOREM FramesHandedToAll == Spec => HandedToAll
<1>1. Inv /\ [Next]_vars =>
        [\A t \in Threads :
          (Serving /\ thread[t] = "loop" /\ thread'[t] = "wait") =>
             \A b \in ToSet(outputs) : got[b][t] = current[t]]_vars
  <2> SUFFICES ASSUME Inv, Next, NEW t \in Threads,
                      Serving, thread[t] = "loop", thread'[t] = "wait",
                      NEW b \in ToSet(outputs)
               PROVE  got[b][t] = current[t]
    BY DEF vars
  <2>1. pos[t] = Len(outputs) + 1
    BY LoopEnds DEF EndOfOutputs, AtEnd, Inv
  <2>2. outputs \in Seq(Outputs) /\ Len(outputs) \in Nat /\ DOMAIN outputs = 1 .. Len(outputs)
    BY LenProperties DEF Inv, TypeOK
  <2>3. \A i \in 1 .. pos[t] - 1 : got[outputs[i]][t] = current[t]
    BY <2>1, <2>2 DEF Inv, HandedInv
  <2> QED BY <2>1, <2>2, <2>3 DEF ToSet
<1> QED BY <1>1, Invariance, PTL DEF Spec, HandedToAll
=============================================================================
