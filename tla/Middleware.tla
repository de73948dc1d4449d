----------------------------- MODULE Middleware -----------------------------
(***************************************************************************)
(* The middleware (COnyxMw, onyx_mw/onyx_mw_main.cpp) and its encoder      *)
(* output (CEncOut, onyx_mw/EncOut.cpp).                                   *)
(*                                                                         *)
(* The main thread starts a session, waits for a command of the user       *)
(* interface (CUiMsg) or a signal, closes the session, and starts the next *)
(* one.  The two threads of CEncOut run from the first step of a session   *)
(* to its last: they take the frames of the recorder and hand them to the  *)
(* outputs registered in m_Outputs, which the main thread changes without  *)
(* a lock.                                                                 *)
(*                                                                         *)
(* What cannot be excluded this way is a fault: a step that touches memory *)
(* or a thread that is not there, or raises a signal that nobody handles.  *)
(* A fault is the end of a behaviour, and the properties say what holds    *)
(* until then and when there is none.                                      *)
(***************************************************************************)
EXTENDS Naturals, Sequences, SequencesExt

CONSTANTS
  Outputs,      \* the bridges a configuration may enable
  Inputs,       \* the indices of listSession that are used
  QueueLen,     \* frames a connection of the recorder holds
  MaxFrames,    \* frames recorded in a session (bound)
  MaxSessions   \* sessions started (bound)

ASSUME MiddlewareAssumption ==
  /\ Outputs \subseteq {"rtsp", "hls", "rtmp"}
  /\ QueueLen \in Nat \ {0}
  /\ MaxFrames \in Nat
  /\ MaxSessions \in Nat \ {0}

Threads == {"video", "audio"}

VARIABLES
  mw,       \* where the main thread is
  todo,     \* the bridges StartPublishStreams has still to add
  session,  \* sessions started
  audio,    \* fEnableAudio of this session
  reason,   \* why the session is being closed
  sock,     \* the socket of the user interface, and what waits in it
  abort,    \* m_Abort, set by the signal handler
  bridge,   \* the state of each bridge
  hlsCfg,   \* m_pHlsPublishCfg: "good" if it is NULL or a configuration of ours
  input,    \* listSession
  run,      \* m_fRun
  outputs,  \* m_Outputs
  thread,   \* where a thread of CEncOut is
  pos,      \* its iterator over m_Outputs; 0: m_Outputs has moved since
  inside,   \* the bridge whose SendVideo or SendAudio it is in
  current,  \* the frame it has read: the session that recorded it, a number
  audConn,  \* m_pAudConnSrc is not NULL
  queue,    \* what the connections to the recorder hold
  made,     \* frames recorded in this session
  got,      \* the last frame of each thread handed to a bridge in this session
  fault     \* the first fault

main == <<mw, todo, session, audio, reason>>
ui == <<sock, abort>>
encOut == <<run, outputs>>
threads == <<thread, pos, inside, current>>
recorder == <<audConn, queue, made>>
vars == <<main, ui, bridge, hlsCfg, input, encOut, threads, recorder, got, fault>>

InputStates == {"none", "streaming", "joined", "playing", "destroyed", "unopened"}
NoBridge == "none"
NoFrame == <<0, 0>>

(* The constructor leaves m_pHlsPublishCfg as it is: new may have returned *)
(* memory that is not zero.                                                *)
Init ==
  /\ mw = "start" /\ todo = << >> /\ session = 0 /\ audio = FALSE
  /\ reason = "none" /\ sock = "none" /\ abort = FALSE
  /\ bridge = [b \in Outputs |-> "none"]
  /\ hlsCfg \in {"good", "wild"}
  /\ input = [i \in Inputs |-> "none"]
  /\ run = FALSE /\ outputs = << >>
  /\ thread = [t \in Threads |-> "none"] /\ pos = [t \in Threads |-> 0]
  /\ inside = [t \in Threads |-> NoBridge] /\ current = [t \in Threads |-> NoFrame]
  /\ audConn = FALSE /\ queue = [t \in Threads |-> << >>] /\ made = [t \in Threads |-> 0]
  /\ got = [b \in Outputs |-> [t \in Threads |-> NoFrame]]
  /\ fault = "none"

Only(b, S) == IF b \in S THEN <<b>> ELSE << >>

(* find and erase                                                          *)
Without(s, e) ==
  IF e \in ToSet(s) THEN RemoveAt(s, CHOOSE i \in DOMAIN s : s[i] = e) ELSE s

(* After a fault nothing more is said.                                     *)
Up == fault = "none"
Fail(what) ==
  /\ fault' = what
  /\ UNCHANGED <<main, ui, bridge, hlsCfg, input, encOut, threads, recorder, got>>

(* A reply to a client that has gone may raise SIGPIPE: spc_socket_send    *)
(* does not ask the system to keep it back.                                *)
BrokenPipe == sock = "closed" /\ Fail("pipe")
Replied == IF sock = "asked" THEN "idle" ELSE sock

-----------------------------------------------------------------------------
(* The main thread: StartSession.                                          *)

(* Mutant: the registrations of the session before are still there.        *)
NewOutputsOld == outputs
NewOutputs == << >>

(* Mutant: the video connection of the session before is used again.       *)
NewQueueOld(t) == queue[t]
(* A connection that is created is empty.  m_pAudConnSrc is never deleted: *)
(* with audio switched off, the one of an earlier session stays in use.    *)
NewQueue(t) == IF t = "video" \/ audio' THEN << >> ELSE queue[t]

(* StartEncodeSubsystem: both threads run before there is any output.      *)
(* The configuration is read again for every session.                      *)
StartEncode ==
  /\ Up /\ mw = "start"
  /\ mw' = "publish" /\ session' = session + 1
  /\ audio' \in BOOLEAN
  /\ \E on \in SUBSET Outputs : todo' = Only("rtsp", on) \o Only("hls", on) \o Only("rtmp", on)
  /\ audConn' = (audConn \/ audio')
  /\ queue' = [t \in Threads |-> NewQueue(t)]
  /\ made' = [t \in Threads |-> 0]
  /\ run' = TRUE /\ outputs' = NewOutputs
  /\ thread' = [t \in Threads |-> IF t = "video" \/ audConn' THEN "wait" ELSE "none"]
  /\ got' = [b \in Outputs |-> [t \in Threads |-> NoFrame]]
  /\ UNCHANGED <<reason, ui, bridge, hlsCfg, input, pos, inside, current, fault>>

(* One bridge of StartPublishStreams.  With one, two or three outputs      *)
(* every push_back finds the vector full and moves it, and leaves the      *)
(* iterators of the threads behind.                                        *)
AddOutput ==
  /\ Up /\ mw = "publish" /\ todo # << >>
  /\ LET b == Head(todo)
     IN /\ bridge' = [bridge EXCEPT ![b] = "alive"]
        /\ outputs' = Append(outputs, b)
        /\ hlsCfg' \in IF b = "hls" THEN {hlsCfg, "good"} ELSE {hlsCfg}
  /\ pos' = [t \in Threads |-> 0]
  /\ todo' = Tail(todo)
  /\ UNCHANGED <<mw, session, audio, reason, ui, input, run, thread, inside, current, recorder, got, fault>>

(* What CreatePlayerSession makes of an input: a server that is streaming, *)
(* in a thread, to a player; a player alone, of a file or a capture        *)
(* device; an HLS server that could not be opened, whose bridge is kept    *)
(* with the handle of a thread that was never set; or nothing to stop.  An *)
(* input that is not configured any more keeps its entry of listSession.   *)
NewInput(i, on) ==
  IF i \in on THEN {"streaming", "playing", "unopened", "none"} ELSE {input[i]}

(* StartDecodeSubsystem is the end of StartSession: the command, if there  *)
(* was one, is answered.                                                   *)
StartDecode ==
  /\ Up /\ mw = "publish" /\ todo = << >>
  /\ \/ BrokenPipe
     \/ /\ \E on \in SUBSET Inputs :
             /\ input' \in [Inputs -> InputStates]
             /\ \A i \in Inputs : input'[i] \in NewInput(i, on)
        /\ mw' = "up" /\ reason' = "none" /\ sock' = Replied
        /\ UNCHANGED <<todo, session, audio, abort, bridge, hlsCfg, encOut, threads, recorder, got, fault>>

-----------------------------------------------------------------------------
(* The main thread: Run waits for a command.                               *)

Close(why) ==
  /\ mw' = "stopDecode" /\ reason' = why
  /\ sock' = IF why = "abort" THEN sock ELSE "asked"
  /\ UNCHANGED <<todo, session, audio, abort, bridge, hlsCfg, input, encOut, threads, recorder, got, fault>>

(* Mutant: a signal is noticed only while a client is connected.           *)
IsAbortLate == abort /\ sock # "none"
IsAbort == abort

HandleAbort == Up /\ mw = "up" /\ IsAbort /\ Close("abort")

(* UI_MSG_HLS_PUBLISH_STATS is answered only if there is an HLS bridge.    *)
HasHls == "hls" \in Outputs /\ bridge["hls"] = "alive"

(* GetClntMsg.  spc_socket_recv waits for all of a command: the rest of    *)
(* UI_MSG_SELECT_LAYOUT may be missing.                                    *)
GetClntMsg ==
  /\ Up /\ mw = "up" /\ ~IsAbort
  /\ \/ sock \in {"layout", "exit"} /\ Close(sock)
     \/ /\ \/ sock = "half" /\ mw' = "recv" /\ UNCHANGED sock
           \/ sock = "stats" /\ sock' = "asked" /\ mw' = IF HasHls THEN "stats" ELSE "up"
           \/ sock = "closed" /\ sock' = "none" /\ UNCHANGED mw
        /\ UNCHANGED <<todo, session, audio, reason, abort, bridge, hlsCfg, input, encOut, threads, recorder, got, fault>>

(* The rest has come, or the client has closed its end.                    *)
RecvLayout ==
  /\ Up /\ mw = "recv"
  /\ \/ sock = "layout" /\ Close("layout")
     \/ /\ sock = "closed" /\ mw' = "up"
        /\ UNCHANGED <<todo, session, audio, reason, ui, bridge, hlsCfg, input, encOut, threads, recorder, got, fault>>

ReplyStats ==
  /\ Up /\ mw = "stats"
  /\ \/ BrokenPipe
     \/ /\ mw' = "up" /\ sock' = Replied
        /\ UNCHANGED <<todo, session, audio, reason, abort, bridge, hlsCfg, input, encOut, threads, recorder, got, fault>>

-----------------------------------------------------------------------------
(* The main thread: CloseSession.                                          *)

Stopped(state) ==
  CASE state = "streaming" -> "joined" [] state = "playing" -> "destroyed" [] OTHER -> state

(* Every entry of listSession is stopped: its thread is joined, its player *)
(* is destroyed, and neither is forgotten.                                 *)
StopDecode ==
  /\ Up /\ mw = "stopDecode"
  /\ \/ (\E i \in Inputs : input[i] = "joined") /\ Fail("joined")
     \/ (\E i \in Inputs : input[i] = "destroyed") /\ Fail("player")
     \/ (\E i \in Inputs : input[i] = "unopened") /\ Fail("handle")
     \/ /\ \A i \in Inputs : input[i] \notin {"joined", "destroyed"}
        /\ input' = [i \in Inputs |-> Stopped(input[i])]
        /\ mw' = "withdraw"
        /\ UNCHANGED <<todo, session, audio, reason, ui, bridge, hlsCfg, encOut, threads, recorder, got, fault>>

(* RemoveMediaDelivery deletes the video track of the RTSP bridge, then    *)
(* DeleteOutput takes the bridge out of m_Outputs, then it is deleted.     *)
StopRtsp ==
  /\ Up
  /\ \/ /\ mw = "withdraw" /\ mw' = "deregister"
        /\ bridge' = [b \in Outputs |-> IF b = "rtsp" /\ bridge[b] = "alive" THEN "withdrawn" ELSE bridge[b]]
        /\ UNCHANGED outputs
     \/ /\ mw = "deregister" /\ mw' = "deleteRtsp"
        /\ outputs' = Without(outputs, "rtsp")
        /\ UNCHANGED bridge
     \/ /\ mw = "deleteRtsp" /\ mw' = "deleteOthers"
        /\ bridge' = [b \in Outputs |-> IF b = "rtsp" THEN "none" ELSE bridge[b]]
        /\ UNCHANGED outputs
  /\ UNCHANGED <<todo, session, audio, reason, ui, hlsCfg, input, run, threads, recorder, got, fault>>

(* The other bridges are deleted as they are, registered or not, and then  *)
(* the configurations, of which only m_pHlsPublishCfg may be a stray one.  *)
StopOthers ==
  /\ Up /\ mw = "deleteOthers"
  /\ IF hlsCfg = "wild"
       THEN Fail("config")
       ELSE /\ bridge' = [b \in Outputs |-> "none"]
            /\ mw' = "stopEncode"
            /\ UNCHANGED <<todo, session, audio, reason, ui, hlsCfg, input, encOut, threads, recorder, got, fault>>

(* CEncOut::Stop, and pthread_join of each thread in turn.                 *)
StopEncode ==
  /\ Up /\ mw = "stopEncode"
  /\ run' = FALSE /\ mw' = "join"
  /\ UNCHANGED <<todo, session, audio, reason, ui, bridge, hlsCfg, input, outputs, threads, recorder, got, fault>>

MayDelete == \A t \in Threads : thread[t] \in {"ended", "none"}

(* Both are joined: CEncOut, the engine with its recorder, and the video   *)
(* connection are deleted, and Run goes on with the next session, or       *)
(* answers the command and ends.                                           *)
DeleteEncOut ==
  /\ Up /\ mw = "join" /\ MayDelete
  /\ \/ reason = "exit" /\ BrokenPipe
     \/ /\ mw' = IF reason = "layout" THEN "start" ELSE "done"
        /\ sock' = IF reason = "exit" THEN Replied ELSE sock
        /\ thread' = [t \in Threads |-> IF thread[t] = "ended" THEN "none" ELSE thread[t]]
        /\ UNCHANGED <<todo, session, audio, reason, abort, bridge, hlsCfg, input, encOut, pos, inside, current, recorder, got, fault>>

Main ==
  \/ StartEncode \/ AddOutput \/ StartDecode
  \/ HandleAbort \/ GetClntMsg \/ RecvLayout \/ ReplyStats
  \/ StopDecode \/ StopRtsp \/ StopOthers
  \/ StopEncode \/ DeleteEncOut

-----------------------------------------------------------------------------
(* The client: a program that sends whole commands, or the console         *)
(* (CConsoleMsg), which sends eight bytes for UI_MSG_SELECT_LAYOUT and     *)
(* waits for the answer.  There may be a signal at any time.               *)

Client ==
  /\ Up /\ mw # "done" /\ (session > 1 \/ mw \notin {"start", "publish"})
  /\ \/ sock = "none" /\ sock' = "idle"
     \/ sock = "idle" /\ sock' \in {"exit", "stats"} \union
                                   (IF session < MaxSessions THEN {"half", "layout"} ELSE {})
     \/ sock = "half" /\ sock' = "layout"
     \/ sock \in {"idle", "half", "asked"} /\ sock' = "closed"
  /\ UNCHANGED <<main, abort, bridge, hlsCfg, input, encOut, threads, recorder, got, fault>>

SignalHandler ==
  /\ Up /\ mw # "done" /\ ~abort /\ session > 0
  /\ abort' = TRUE
  /\ UNCHANGED <<main, sock, bridge, hlsCfg, input, encOut, threads, recorder, got, fault>>

-----------------------------------------------------------------------------
(* The recorder of the engine, from StartEncodeSubsystem to omxalDeinit.   *)

Recording == mw \notin {"start", "done"}

Record(t) ==
  /\ Up /\ Recording /\ (t = "video" \/ audConn)
  /\ Len(queue[t]) < QueueLen /\ made[t] < MaxFrames
  /\ made' = [made EXCEPT ![t] = @ + 1]
  /\ queue' = [queue EXCEPT ![t] = Append(@, <<session, made[t] + 1>>)]
  /\ UNCHANGED <<main, ui, bridge, hlsCfg, input, encOut, threads, audConn, got, fault>>

-----------------------------------------------------------------------------
(* The threads of CEncOut: ProcessVideo and ProcessAudio.                  *)

(* A frame is read, and the loop over m_Outputs starts.                    *)
Read(t) ==
  /\ Up /\ thread[t] = "wait" /\ run /\ queue[t] # << >>
  /\ current' = [current EXCEPT ![t] = Head(queue[t])]
  /\ queue' = [queue EXCEPT ![t] = Tail(@)]
  /\ thread' = [thread EXCEPT ![t] = "loop"]
  /\ pos' = [pos EXCEPT ![t] = 1]
  /\ UNCHANGED <<main, ui, bridge, hlsCfg, input, encOut, inside, audConn, made, got, fault>>

(* A withdrawn bridge has lost its video track only.                       *)
Usable(b, t) == bridge[b] = "alive" \/ (bridge[b] = "withdrawn" /\ t = "audio")

(* Mutant: the loop ends one output early.                                 *)
AtEndEarly(t) == pos[t] >= Len(outputs)
AtEnd(t) == pos[t] = Len(outputs) + 1

(* SendVideo or SendAudio of the next output is entered.                   *)
Send(t) ==
  /\ Up /\ thread[t] = "loop" /\ inside[t] = NoBridge
  /\ ~AtEnd(t)
  /\ IF pos[t] \in DOMAIN outputs
       THEN IF Usable(outputs[pos[t]], t)
              THEN /\ inside' = [inside EXCEPT ![t] = outputs[pos[t]]]
                   /\ UNCHANGED <<main, ui, bridge, hlsCfg, input, encOut, thread, pos, current, recorder, got, fault>>
              ELSE Fail("bridge")
       ELSE Fail("iterator")

(* It returns, and the iterator goes on.                                   *)
Sent(t) ==
  /\ Up /\ inside[t] # NoBridge
  /\ IF Usable(inside[t], t)
       THEN IF pos[t] # 0
              THEN /\ got' = [got EXCEPT ![inside[t]][t] = current[t]]
                   /\ inside' = [inside EXCEPT ![t] = NoBridge]
                   /\ pos' = [pos EXCEPT ![t] = @ + 1]
                   /\ UNCHANGED <<main, ui, bridge, hlsCfg, input, encOut, thread, current, recorder, fault>>
              ELSE Fail("iterator")
       ELSE Fail("bridge")

EndOfOutputs(t) ==
  /\ Up /\ thread[t] = "loop" /\ inside[t] = NoBridge
  /\ AtEnd(t)
  /\ thread' = [thread EXCEPT ![t] = "wait"]
  /\ pos' = [pos EXCEPT ![t] = 0]
  /\ current' = [current EXCEPT ![t] = NoFrame]
  /\ UNCHANGED <<main, ui, bridge, hlsCfg, input, encOut, inside, recorder, got, fault>>

(* Mutant: the thread waits for a frame, whatever m_fRun is.               *)
MayEndBusy(t) == ~run /\ queue[t] # << >>
MayEnd(t) == ~run

End(t) ==
  /\ Up /\ thread[t] = "wait" /\ MayEnd(t)
  /\ thread' = [thread EXCEPT ![t] = "ended"]
  /\ UNCHANGED <<main, ui, bridge, hlsCfg, input, encOut, pos, inside, current, recorder, got, fault>>

Thread(t) == Read(t) \/ Send(t) \/ Sent(t) \/ EndOfOutputs(t) \/ End(t)

Next ==
  \/ Main
  \/ Client
  \/ SignalHandler
  \/ \E t \in Threads : Record(t)
  \/ \E t \in Threads : Thread(t)

Spec == Init /\ [][Next]_vars

(* Where a thread waits for somebody else.  The main thread opens the      *)
(* inputs and the connections of the bridges, and joins the threads of the *)
(* inputs: these wait for servers, some without a limit (HlsClient,        *)
(* RtspClient).  The threads of HLS uploaders are stopped and not joined.  *)
(* SendVideo and SendAudio write to a connection only in the RTMP bridge.  *)
Calls == {"publish", "stopDecode"}
Away == mw \in Calls \/ \E t \in Threads : inside[t] = "rtmp"

(* Both kinds of threads run, but what they call need not return; commands *)
(* and frames are owed to nobody.                                          *)
LiveSpec ==
  /\ Spec
  /\ WF_vars(Main /\ mw \notin Calls)
  /\ \A t \in Threads : WF_vars(Thread(t) /\ inside[t] # "rtmp")

-----------------------------------------------------------------------------
(* Types of the variables.                                                 *)
Frames == Nat \X Nat

TypeOK ==
  /\ mw \in {"start", "publish", "up", "recv", "stats", "stopDecode", "withdraw", "deregister",
             "deleteRtsp", "deleteOthers", "stopEncode", "join", "done"}
  /\ todo \in Seq(Outputs) /\ session \in Nat /\ audio \in BOOLEAN
  /\ reason \in {"none", "layout", "exit", "abort"} /\ abort \in BOOLEAN
  /\ sock \in {"none", "idle", "half", "layout", "exit", "stats", "asked", "closed"}
  /\ bridge \in [Outputs -> {"none", "alive", "withdrawn"}]
  /\ hlsCfg \in {"good", "wild"}
  /\ input \in [Inputs -> InputStates]
  /\ run \in BOOLEAN /\ outputs \in Seq(Outputs)
  /\ thread \in [Threads -> {"none", "wait", "loop", "ended"}]
  /\ pos \in [Threads -> Nat]
  /\ inside \in [Threads -> Outputs \union {NoBridge}]
  /\ current \in [Threads -> Frames]
  /\ audConn \in BOOLEAN
  /\ queue \in [Threads -> Seq(Frames)]
  /\ made \in [Threads -> Nat]
  /\ got \in [Outputs -> [Threads -> Frames]]
  /\ fault \in {"none", "joined", "player", "handle", "config", "bridge", "iterator", "pipe"}

(* Until StopPublishStreams changes m_Outputs under the threads' loops, a  *)
(* frame is handed to all outputs or, after a fault, the thread is lost:   *)
(* adding an output in the middle of a loop does not cost the others the   *)
(* frame in silence.                                                       *)
Serving == mw \in {"publish", "up", "recv", "stats", "stopDecode", "withdraw", "deregister"}

HandedToAll ==
  [][\A t \in Threads :
       (Serving /\ thread[t] = "loop" /\ thread'[t] = "wait") =>
          \A b \in ToSet(outputs) : got[b][t] = current[t]]_vars

(* A session sends what it has recorded, and nothing that was left over    *)
(* from a session before it, unless audio has been switched off since: the *)
(* connection of the last session with audio is then drained.              *)
FreshFrames ==
  \A b \in Outputs, t \in Threads :
     \/ got[b][t] = NoFrame \/ got[b][t][1] = session
     \/ t = "audio" /\ ~audio

(* The RTMP and HLS bridges are deleted without DeleteOutput, but these    *)
(* registrations go with their CEncOut: while a session is up, all its     *)
(* outputs are there, and no thread calls one that is not.                 *)
RegisteredAlive ==
  mw \in {"publish", "up", "recv", "stats", "stopDecode", "withdraw"} =>
     /\ \A b \in ToSet(outputs) : bridge[b] = "alive"
     /\ fault # "bridge"

(* A whole command is carried out and answered, whether the encoder's      *)
(* threads are in a loop or wait for a frame, and whether more come or     *)
(* not, unless a signal ends the program first or a call out of the        *)
(* middleware never returns.                                               *)
Answered ==
  \/ <>[]Away
  \/ (sock \in {"layout", "exit"}) ~>
       (sock \notin {"layout", "exit", "asked"} \/ mw = "done" \/ ~Up)

(* A signal ends the program, with a client or without, unless a call out  *)
(* of the middleware never returns or the rest of a command never comes:   *)
(* m_Abort is not looked at while the main thread waits for it.            *)
AbortHeeded ==
  <>[](Away \/ mw = "recv") \/ (abort ~> (mw = "done" \/ ~Up))
=============================================================================
