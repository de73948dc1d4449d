# Verification of the Onyx SDK

The Onyx SDK moves live video. `onyx_mw` is a program that takes audio and
video from RTSP cameras, HLS streams, transport-stream files and capture
devices, has them decoded, mixed and encoded by an OpenMAX engine (not in the
repository), and publishes the result over RTSP, RTMP and HLS, the latter to a
folder of a web server or to Amazon S3. `onyx_libs` holds what it is built
from: `jdnet` (RTSP, RTP, HTTP, HLS), `jdaws` (S3), `tsmux` and `tsdemux`
(MPEG transport streams) and a copy of `librtmp`.

This directory holds TLA+ models of its parts, the TLC configurations that
check them on small instances, and TLAPS proofs about them.

1. [Inventory](#inventory): the system, its state, what is hard about it
2. [Plan](#plan): modules, in their order
3. [Modules and code](#modules-and-code)
4. [Runs](#runs): what is checked, with which bounds, and what it shows
5. [Fairness](#fairness)
6. [Proofs](#proofs)
7. [Divergences](#divergences) between the code and what is said of it
8. [What is only checked, and what is not modelled](#limits)

Paths below are relative to `src/`; `Sgmt` stands for
`onyx_libs/jdnet/src/JdHttpLiveSgmt.cpp`.

## Inventory

### The way of a frame

    camera --RTP--> CRtspClntBridge ----+
    HLS ----HTTP--> CHlsClntBridge -----+--> engine --> CEncOut
                                                          | video thread
                                                          | audio thread
              +-----------------------+------------------+----------+
              v                       v                             v
      CRtspPublishBridge       CHlsSrvBridge                CRtmpPublishBridge
              |                       | TS multiplexer              |
         CMediaTrack             CHlsSegmnter                    librtmp
          |       |              |           |
      delivery  delivery   CHlsPublishS3  CHlsPublishMemFile
      (session) (session)   ring, thread     folder
          |       |              |           |
          RTP over UDP       CHlsOutJdS3   web server --> CHttpLiveGet

### Components

For each: the state it keeps, its operations, whom it meets and what would be
wrong with it. `PROJECT.json` lists every component with its sources and
whether it is modelled, and every hazard at its line.

**Ring of GOPs** (`CGopCircBuff`, `Sgmt` 740-827). Bytes with a read and a
write index; `Alloc` and `Free`. A GOP is contiguous, so `Alloc` skips the tail
of the buffer where a GOP does not fit, and `Free` must find out afterwards
whether it did, from the length alone. *Correct when* GOPs held never overlap,
the asserts of `Free` hold, full is never taken for empty, and the ring never
refuses for ever.

**HLS publisher to a sink** (`CHlsPublishS3`, `Sgmt` 860-1003, 1346-1577). The
ring, the list of GOPs in it, statistics, an error code, a run flag.
`ReceiveGop` is called by the segmenter's thread, `Process` is a thread of its
own, `Run` and `Stop` are called by the owner; `Stop` does not join. The sink is
`CHlsOutJdS3` (PUT requests of `jdaws`) or `CHlsOutFs` (files). *Hard*: three
threads; every call of the sink may fail and the sinks report failures in
different ways; results are partly ignored. *Correct when* the lengths
announced are the lengths sent, playlists name what is stored, deletion does
not overtake players, every GOP is accounted for, `Stop` ends it.

**HLS publisher to a folder** (`CHlsPublishMemFile`, `Sgmt` 1069-1224). Index,
count and duration of the segment being written; no thread, it works inside
`ReceiveGop`. *Hard*: each file operation is visible to players and may fail;
the playlist is truncated, then written. *Correct when* a player with a
playlist some updates old still finds its segments, and the folder does not
grow.

**Segmenter** (`CHlsSegmnter`, `CGop`, `Sgmt` 458-624). The GOP being filled
and the list of publishers, the latter under a mutex that is held while
publishers receive. Cuts at frames with an SPS. *Hard*: two encoder threads
write frames, publishers come and go, a GOP that is full drops packets.
*Correct when* a segment can be played on its own, and what is dropped does no
harm to what comes after.

**Transport stream multiplexer** (`CTsMux::Mux`, `tsmux/SimpleTsMux.cpp`) **and
HLS server bridge** (`CHlsSrvBridge`, `onyx_mw/HlsSrvBridge.cpp`). The clock and
the times at which clock and tables were last sent; one buffer for the packets.
Called by the bridge for every access unit, which then hands the packets to the
segmenter. *Hard*: three lengths computed in different places have to add up
for every size of unit; two streams share one clock; the class takes no lock.
*Correct when* the unit comes out in whole packets, no byte more or less, and
the clock is never ahead of it.

**Transport stream demultiplexer** (`CTsDemux`, `CTsFilter`, `TsPsi`,
`tsdemux`). Per stream the frame being assembled. A frame ends when the next
one starts, and the packet that tells is parsed a second time. *Correct when*
frames come back whole and in order, at the wrap of the file, too.

**HLS client** (`CHttpLiveGet`, `jdnet/src/JdHttpLiveClnt.cpp`; bridge
`onyx_mw/HlsClntBridge.cpp`). The last playlist, its sequence number, the
segment being read. *Hard*: it plays what somebody else rewrites and deletes;
requests fail; it polls for a new playlist without looking at the flag by
which its owner stops it. *Correct when* it plays forward, finds what it asks
for, skips no more than it was late, and can be stopped.

**RTSP server** (`CJdRtspSrv`, `CJdRtspSrvSession`,
`jdnet/src/JdRtspSrv.cpp`) **and media resources** (`CMediaResMgr`,
`CMediaAggregate`, `CMediaTrack`). A thread per client; the deliveries of a
session by track name; the deliveries of a track under its mutex. *Hard*:
clients come and go while encoder threads walk the lists, and the main thread
withdraws the stream. *Correct when* nothing deleted is called, a player loses
no frame, and who goes away leaves nothing behind.

**H.264 over RTP** (`CJdRfc3984Tx`, `CJdRfc3984Rx`, `jdnet/src/JdRfc3984.cpp`;
`CRtspClntBridge`, `onyx_mw/RtspClntBridge.cpp`). Sequence number and offset on
one side, the frame collected so far on the other. *Hard*: boundaries of
fragmentation; packets are lost; the thread waits for packets and for a sink
that may be full. *Correct when* reads and writes stay in their buffers, the
byte stream comes out as it went in but for what was lost, and `StopStreaming`
gets its thread back.

**RTSP client** (`CJdRtspClntSession`, `jdnet/src/JdRtspClnt.cpp`) **and
recorder** (`CJdRtspClntRecSession`, `jdnet/src/JdRtspClntRec.cpp`), with their
bridges `CRtspClntBridge` and `CRtspPublishBridge`. The socket, the description,
an RTP session per track, the run flag, and a thread per track. *Hard*: the
server answers late, refuses, redirects, keeps back what it announced or hangs
up; replies are not matched to requests; results are ignored. *Correct when* a
thread reads the session of its own track, and the main thread, which makes the
calls, gets back.

**Encoder output** (`CEncOut`, `onyx_mw/EncOut.cpp`). `m_Outputs`, and two
threads that hand every frame to each of them, without a lock, while the main
thread adds and removes outputs. **Middleware session** (`COnyxMw`,
`onyx_mw/onyx_mw_main.cpp`). The inputs, the bridges, the encoder output and
the connections between them, which it creates and deletes in order, session
after session; it takes commands from the **user interface socket** (`CUiMsg`,
`CConsoleMsg`, `sock_ipc.cpp`) and a signal. *Hard*: a session is closed while
its threads run; parts of it survive into the next; the console and the signal
handler come in between. *Correct when* a session handles its own frames only
and hands them to all outputs, no output is called that is gone, threads and
players are joined and destroyed once, and commands and signals are heeded.

**Other RTP payloads** (`JdRfc2250.cpp`, `JdRfc3640.cpp`, `JdRfc5391.cpp`):
transport packets and AAC units in RTP packets. **UDP reader** (`udprdr.c`): a
streaming thread and a stop protocol; it is not built. **S3 client** (`jdaws`):
signed requests over a connection. **HTTP client and server**: one request per
connection.

### What is hard, in short

Threads that share lists (encoder, sessions, main thread, segmenter,
uploader); files and objects that somebody reads while they are rewritten and
deleted; sinks that fail; packets that are lost; owners that stop a thread
which waits; peers that answer late or not at all; what is left of one session
in the next; and byte arithmetic at the edges of buffers and packets.

## Plan

Built in this order, the path of published video first, then what starts and
stops it, then the other end:

1. `GopStore`, `GopCircBuff`; `HlsLive`, `HlsPublishS3` (which composes the
   ring), `HlsPublishMemFile`.
2. `RtspServer`, `RtpVideo`.
3. `HlsClient`, composed with `HlsPublishMemFile`.
4. The transport stream: `TsMux`; `TsStream`, which composes it with the
   bridge, the segmenter and the demultiplexer.
5. `Middleware`: `COnyxMw` with `CEncOut` and the user interface.
6. `RtspClient`: player and recorder.

All six are done. Every invariant and step property that a run checks and that
holds is stated by a theorem, some of them under a named assumption. *Limits*
lists what is left to TLC.

What a continuation would take up: the playlist that ends a recording, played
by `HlsClient`, and the batching of the long playlist (`GetM3u8CamHttpLive`)
against its announced length; sections of the transport stream that span
packets (`TsPsi`) and continuity counters; two encoder threads inside `Mux` at
once.

## Modules and code

| module | models | extends, composes |
|---|---|---|
| `GopStore` | what a buffer of GOPs promises (abstract) | |
| `GopCircBuff` | `CGopCircBuff` | implements `GopStore` |
| `GopCircBuff_proofs` | theorems about the ring | `GopCircBuff` |
| `HlsLive` | what a publisher promises to players (abstract) | |
| `HlsPublishS3` | `CHlsPublishS3`, `CHlsOutJdS3`, `CHlsOutFs` | composes `GopCircBuff`, implements `HlsLive` |
| `HlsPublishS3_proofs` | theorems about the publisher and its ring | `HlsPublishS3`, `GopCircBuff_proofs` |
| `HlsPublishMemFile` | `CHlsPublishMemFile`, `CMemSegmentFile` | implements `HlsLive` |
| `HlsClient` | `CHttpLiveGet`, thread of `CHlsClntBridge` | composes `HlsPublishMemFile` |
| `HlsClient_proofs` | theorems about the folder and its player | `HlsClient` |
| `RtspServer` | `CJdRtspSrv`, `CJdRtspSrvSession`, `CMediaTrack`, `CRtspPublishBridge` | |
| `RtspServer_proofs` | theorems about sessions and deliveries | `RtspServer` |
| `RtspClient` | `CJdRtspClntSession`, `CJdRtspClntRecSession`, `CRtspClntBridge` | |
| `RtspClient_proofs` | theorems about requests, answers and RTP sessions | `RtspClient` |
| `Middleware` | `COnyxMw`, `CEncOut`, `CUiMsg`, `CConsoleMsg` | |
| `Middleware_proofs` | theorems about sessions of the middleware | `Middleware` |
| `RtpVideo` | `CJdRfc3984Tx`, `CJdRfc3984Rx`, video thread of `CRtspClntBridge` | |
| `RtpVideo_proofs` | theorems about packets, frames and the byte stream | `RtpVideo` |
| `TsMux` | `CTsMux::Mux` | |
| `TsStream` | `CHlsSrvBridge`, `CHlsSegmnter`, `CGop`, `CTsDemux`, `CTsFilter` | composes `TsMux` |
| `TsStream_proofs` | theorems about the multiplexer, GOPs and frames | `TsStream` |

`map` in `PROJECT.json` gives the lines of every definition. Definitions named
in a comment that starts with "Mutant:" are plausible bugs, put in the place of
the definition that follows to see that a property notices.

**Ring.** `nRd` and `nWr` are the members; `live` is what the user holds. The
position that `Alloc` returns is `AllocPos(n)`, the one that `Free` asserts is
`FreePos(n)`. The user frees oldest first, as `Process` does.

**HlsPublishS3.** One process counter per thread: `pc` for `Process`, `pub` for
the GOP inside `ReceiveGop` (taken from the mutex of the segmenter to its
release), `ctl` for the owner. Where the code holds `m_Mutex` there is one
action; everything between is interleaved. A call of the sink is one action,
which may fail when it is in `Faults`; `StartResult`, `ContinueResult` and
`EndResult` are what the sinks return, and `Process` compares them with
`JD_ERROR` as the code does. The sink keeps `stored`, the segments it has in
full, and `playlist`; `handle` is the connection, `whole` whether all of the
segment got through. Segments are numbered from 0.
`Sink = "S3"` and `"Disc"` are the sinks of the repository. `"Base"` is a sink
that reports failures as the callers of `CHlsOutBase` expect, by `JD_ERROR`: it
exercises the error paths that the S3 sink, which never reports a failed
`Continue`, does not reach. `"Disc"` is not run: its `End` returns -1 whatever
happens, which is not `JD_ERROR` either, so the upload goes on as it does to S3.
`OpenRefused` is a bucket or a host without a name: `Start` returns
`JD_ERROR_INVALID_ARG`, `Process` does not take it for an error, and `Continue`
has no handle.

**HlsPublishMemFile.** `pc` is the next file operation of `ReceiveGop`; the
segmenter's mutex is held throughout, so the owner's `RemovePublisher` waits for
`pc = "idle"`. `player` is the playlist a player has read and `age` how many have
been written since; `ReadPlaylist` is a step of `HlsClient`, which has the player.

**HlsClient.** `thread` is where `CHttpLiveGet::Read` is: asking for the
playlist, opening the segment, reading it, or in the demultiplexer. The
playlist that did not change is not an action: the loop goes round without
effect. A first playlist that is empty is taken for new and ends the thread
(`FirstIsEmpty`); a later one leaves the playlist before in the buffer.

**RtspServer.** A delivery is `<<session, track, number of the PLAY>>`.
`attached` is `mDeliveries` of a track, `saved` is `mTrackDeliveries` of a
session, `alive` the deliveries not yet deleted. `replaced` is a history
variable: the deliveries whose place in `mTrackDeliveries` a later PLAY took.
`idx` is the position of the loop in `Deliver`, which holds the track's mutex
while `idx # 0`. Access to memory that is not there ends a behaviour with
`fault`; properties look at what happens until then and, where they are about
it, at which fault it is.
`RemoveMediaDelivery` takes the steps of the main thread one by one; the
removal of the video track from the aggregate and its `delete` are one step.

**Middleware.** `mw` is where the main thread is between the call that created
the encoder output (`publish`) and its deletion (`join`); each bridge that
`StopPublishStreams` removes or deletes is a step. `thread`, `pos` and `inside`
are a thread of `CEncOut`: waiting for a frame, in its loop at an output, inside
the `SendVideo` of a bridge. `m_Outputs` is a vector. With up to three
outputs every `push_back` moves it and leaves the iterators of both loops
behind: `pos` becomes 0, and a loop that goes on from there is the fault
`"iterator"`. `erase` does not move it: `pos` stays, and the loop goes on with
what is now at that place, or beyond the end, which is the same fault. The other
faults are an output that was deleted (`"bridge"`), a configuration pointer the
constructor left as it was (`"config"`), a reply to a client that has closed its
end, which raises SIGPIPE (`"pipe"`, or the send fails, or is still taken), and
three of the inputs. An input is `"streaming"` (a thread that `StopDecode`
joins), `"playing"` (a player only: a file or a capture device), `"unopened"`
(an HLS bridge whose stream could not be opened, with the thread handle its
constructor did not set) or has nothing to stop. `listSession` is never cleared,
so what has been stopped is stopped again if the next configuration has no new
input in its place: the thread is joined a second time (`"joined"`), the player
destroyed a second time (`"player"`); and joining a handle that was never set
may be the fault `"handle"`. A frame is the pair of the session that recorded it
and a number. `sock` is the socket of one client of the user interface with what
waits in it; commands that change no state of the middleware are left out, but
for the statistics. What the threads of inputs do is in `HlsClient` and
`RtspClient`.

**RtspClient.** The thread that makes the calls has one process counter, `pc`,
and the request it makes, `req`; `Send` writes it, `ReadHeader` takes the head
of `wire` for the answer, or `ReadTimesOut` none, and `Handle` goes on as the
code of that request does: `AfterDescribe` is the loop of `Open`, `AfterSetup`
`HandleAnswerSetup` with the call that follows, in `StartClient` or
`CreatePlayerSession`, and so on. `rtp` names, for each track, the request
whose answer gave the RTP session its ports: that is what `ReadsItsOwn` is
about, since nothing in the code compares `CSeq`. The server is external: it
answers in order, with any status, or leaves a request unanswered for as long
as it likes. Replies arrive whole. An announcement that is repeated is composed
behind the place of the last one in a buffer of 1 KB, which holds the reply by
then: `Fits` is how many fit, and what is sent begins with the text of that
reply, to which the server may answer anything.

**RtpVideo.** A packet names the bytes `[from, to)` of the NAL unit it carries;
`net` is the network and the client's socket buffer, in order. `lost` is a
history variable. Chunks are the bytes as they come out of the depacketiser,
with or without a start code.

**TsMux.** `Enter` is `Mux` up to its loop, `AddPacket` one turn of the loop.
`left`, `src`, `pos` and `tsSize` are `AUBytes`, `payloadStartPtr`, `bitBufPtr`
and `m_TsSize`, which the code updates separately; that they agree is what is to
be shown. `BufferSize` is the size of the caller's buffer, which `Mux` is not told:
a packet that would go beyond it is the action `Overrun`, after which nothing
more is said. A packet says where its payload starts, how much padding it has and
how long its PES header is; how much payload it has follows from these, as it
does for a reader. Pointers count from a word boundary: both buffers come from
`malloc`, so the padding that aligns source and target never occurs (lemma
`OnePacket` shows that a packet that is filled leaves both aligned).

**TsStream.** `gop` is `m_pCrntGop`, `gops` what was published. The player reads
what follows any published GOP, when all has been sent, in the manner of
`CTsFilter`: it looks for the tables and for a frame with an SPS, reads to the
end, and goes back to the start. On Linux the thread that runs `DemuxStream` is
not started (`tsfilter.cpp` 122): there the filter only probes a file, and the
same parsers run in `CHlsClntBridge`. `dropped` is a history variable, the
units that lost packets in a GOP that was full.

## Runs

Twelve runs. All but the two marked *violation* pass, with every action of
their modules fired.

| run | bounds | what it shows |
|---|---|---|
| `gop_ring` | 13 bytes, GOPs of 1, 2, 5, 6 | the ring keeps its GOPs apart, `Free` asserts the truth; it implements `GopStore` (that an empty ring accepts any GOP, and that equal indices mean empty, are theorems) |
| `publish_live` | ring of 5, 7 GOPs, a segment each | live upload, any call failing, Stop anywhere: a GOP to pop, times add up, the playlist can be played, storage bounded, nothing received after Stop |
| `publish_record` | ring of 9, GOPs of 1, 2, 4, two to a segment whose nominal length is one and a half, 6 GOPs | a recording to S3, connections and playlists failing: `Content-Length` right, the final playlist complete, after Stop the thread ends unless one transfer never returns |
| `publish_refines` | ring of 5, 8 GOPs | live upload to S3, connections and deletions failing, implements `HlsLive` |
| `publish_write_error` | 5 GOPs | *violation*: a failed transfer does not end the upload to S3 |
| `hls_player` | 9 segments | the client against the publisher, requests failing, both stopped anywhere: played in order and skipped only when late, served while it is at most three playlists late; once both are stopped it ends or waits for a playlist that stands still; the folder is bounded; the publisher implements `HlsLive` |
| `rtsp_players` | 2 clients, 1 track, 2 PLAYs each, 2 frames, the stream withdrawn at any moment | no lost frames, what is attached is alive and saved unless a second PLAY replaced it, who goes leaves nothing but what was replaced, and does go |
| `rtsp_replay` | 1 client, 2 PLAYs | *violation*: the second PLAY orphans the first delivery |
| `rtsp_client` | 7 descriptions, 3 redirects, 2 announcements that fit | a thread reads the session of its own track; every call returns, unless a description is kept back |
| `middleware` | 2 outputs, 1 input of any kind, a frame per thread and session, 2 sessions | frames are of the session and go to every output, registered outputs are there; commands are answered and a signal heeded unless a call never returns |
| `rtp_video` | fragments of 3 bytes, NAL units of 5, 6, 7 bytes (one packet; fragments with a full last one; with a short last one), 4 units, any packet lost | buffers, byte stream, one unit per frame, Stop |
| `ts_stream` | 5 units of 163, 532 or 533 bytes, audio or video, a GOP of 9 packets, frames below 533 bytes, a buffer of 6 packets | whole packets, the clock in step with the unit, the buffer overrun by no unit it has room for, frames whole and in order but for what the limits drop; without audio each segment starts with tables and SPS |

Type invariants are theorems where there is a module of proofs, and are not run
beside it.

Why the bounds are enough. A unit of 163 bytes misses one video packet by one
byte and an audio packet by five, 532 fills three video packets exactly, 533 is
one byte more: it takes four, is more than a frame may hold and, when clock and
tables are due, more than the buffer. `TakesUnits` draws the line between the
last two; a length that is computed wrong by a word moves it. A GOP takes the
clock, two tables and a large unit, and drops the end of the next. Five units
are a published GOP with a second frame, the SPS that ends it, and one of the
other stream in between. A step of 13000 ticks passes the period of the clock
every time and that of the tables every second time; steps back of 1500 are
those of one stream behind the other. The ring's code compares lengths with
distances only: 13 bytes give GOPs that fit the tail exactly, miss it by one,
meet `nRd` exactly, and the longest (6) is just below half; the theorems hold
for every size. The upload needs five segments before it deletes for the first
time and a sixth and seventh to do it again after a failure. The folder needs
seven segments to delete its first and the player four playlists to be too late;
nine give several deletions. Two clients are what it takes for one to leave
while the other is being served and for the list to shift under the loop; a
third would be a second bystander. Two frames: one that starts a run, and one
that is missing in it. The middleware needs two sessions for something to be
left over in the second, two outputs for one to go while the other is being
served (`rtsp` is deregistered, `hls` is not), and one frame per thread and
session: a frame that stays in the connection is what the next session could
find. The offers are what `StartClient` distinguishes: H.264 or MP2T or no
video, PCMU or another or no audio. `MaxRedirects` is the constant of the code;
two announcements, so that a retry may succeed before the next overruns the
buffer. A NAL unit of 5 bytes is the largest that fits one packet, 7 (payload 6)
is a whole number of fragments, 6 is not; four units give parameter sets, a unit
and its successor with losses in between. `PollMs` is a unit of time, so
timeouts run out after as many polls as segments are long.

Deadlock is not checked where the system really may stop: the publisher has
exited, all clients have gone, the bound on GOPs or frames is used up. In
`gop_ring` it is checked: a ring can always allocate or free.

## Fairness

Liveness is checked in six runs. A thread that waits in a call for somebody who
may never answer is not assumed to go on.

- `publish_record` (`StopEndsUpload`): weak fairness of the uploader's thread
  between the transfers: it sleeps 100 ms per poll. A transfer need not end:
  sockets block, a request is sent without a `select` and a GOP after one that
  promises a byte (`JdAwsS3UpnpHttpConnection.cpp` 228, 324). The property says
  that after Stop the thread ends or stays in one single transfer for ever.
  Nothing is assumed of the owner or the segmenter.
- `hls_player` (`StopEndsOrWaits`): weak fairness of the client's thread, but
  not of a request that fails. A request fits the buffer of its new socket, and
  every `recv` follows a `select` of 30 s. A frame that waits for its sink goes on
  once `m_fRun` is reset. What does *not* hold is that the thread always
  ends: if the publisher is silent the client polls for ever, and if it goes on
  and requests for segments fail, the loop of `Read`, which does not look at
  `m_fRun` either, need not come to an end. So the property speaks of a
  publisher that is stopped as well, and has the first case in it.
- `rtsp_players` (`Released`): the session threads and the loop of `Deliver`
  go on; strong fairness for a session since it waits for a mutex that is taken
  for every frame. Clients need not send anything.
- `rtp_video` (`StopJoins`): weak fairness of the video thread, which waits 1 ms
  for its sink and at most ten seconds for a packet.
- `middleware` (`Answered`, `AbortHeeded`): weak fairness of the main thread
  and of each thread of `CEncOut`, which polls its connection every
  millisecond, but not of what they call (`Away`): opening inputs and
  connections (`publish`), joining the threads of inputs (`stopDecode`), and the
  writes of the RTMP bridge. `hls_player` and `rtsp_client` show that some of
  these may never return, so the properties end with "or a call never returns".
  Uploaders are stopped and not joined. Neither the client, the signal nor the
  recorder owes anything.
- `rtsp_client` (`Returns`): weak fairness of the calling thread: `select` waits
  no longer than its timeout, so that a reply is read or given up. `RecvBody` is
  enabled only when there is something to receive or the connection is closed:
  that `recv` has no timeout. A thread of the bridge ends once `m_fRun` is
  reset, by its ten seconds without a packet. The server owes nothing.

## Proofs

`GopCircBuff_proofs` proves, for every `Size` and every set `Lengths` of
positive lengths below half of it (`RingAssumption`: `CGop` keeps a GOP under
2 MB and the ring has 10 MB, and no empty GOP is published):

- `Invariance`: the inductive invariant `IInv`. None of the properties is
  inductive: that GOPs do not overlap says nothing of where the next one
  goes. `IInv` adds `Chained` (walking from `nRd` over the GOPs, each stands
  where the walk has come to, or at 0 if it would not fit, and the walk ends at
  `nWr`), `Placed` (all lie between `nRd` and `nWr`, those that have wrapped
  last) and `Ordered`.
- `TypeCorrect`, `FreeAssertHolds`, `GopsDoNotOverlap`, `EqualMeansEmpty`,
  `EmptyRingAccepts`: the invariants of the ring, those of `gop_ring` among
  them. The last one needs that two
  of the longest GOPs fit: the indices do not go back to 0.
- `RingImplementsStore`: every `Alloc` is a `Put` of `GopStore`, every `Free` a
  `Take`.

`RtpVideo_proofs` proves, for every fragment length of at least 2 and every
set of sizes (`VideoAssumption`):

- `BoundsInvariance`: `BoundsInv`, that is the ranges of the variables,
  `LargeOnly` (a NAL unit is in the loop only if it is too large for one
  packet) and `PacketsInBounds`. `LargeOnly` is what makes it inductive: the
  first fragment skips the NAL header *after* its length was computed, and
  stays inside the unit only because at least three more bytes follow.
- `PacketBounds` and `VideoTypes`: `PacketsInBounds` and the types.
- `OneUnitPerFrame`: `UnitPerFrame`, whatever is lost. A frame ends at a marker,
  so what has to be shown is that between any two pieces of different units,
  in the frame being collected or under way, there is a marked packet, or the
  first of them belongs to a unit that has none: `Line`, of four parts
  (pieces under way among themselves, those collected before them, and both
  before the unit that is being fragmented). That a marker is missing only
  where `LastFragmentFull` says so needs `Loop`: every fragment before the last
  was full, so the offset is one more than a multiple of the length.
- `ByteStream`: `StreamIntact`, for units of all types but 11 to 23 (`Plain`): of
  those the depacketiser drops two bytes and adds a start code or not as the
  data has it, as `Chunks` shows, and a start code no longer stands where
  `from = 0`. The camera of `rtp_video` sends none of them. `StreamInv` looks at one
  sequence, `Stream`: the chunks the client has and behind them those that the
  packets under way will become. It is `Orderly` (each piece follows the one
  before it as `StreamIntact` wants it), and `Tip` says that its end is where
  the packetiser is. Sending appends to it, losing a packet takes one piece out
  of its middle, and receiving leaves it as it is; this last step is the one
  that needs to take concatenations apart.

`StreamIntact` concatenates with `FlattenSeq`, which is recursive. The lemmas on it
(`FlattenAppend`: one more member is one more sequence at the end) are proved by
induction over the length, with `AllNumbers` (see `HlsPublishS3_proofs` below).

`TsStream_proofs` proves, for every set of sizes, every movement of time stamps,
every size of GOP and of frame and any number of units (`TsMuxAssumption`,
`TsStreamAssumption`):

- `Invariance`: `Inv`, which is `TypeOK`, `LoopInv` and `ClockInv` of the
  multiplexer. `LoopInv` relates what the loop has written to what is left: what
  is left and what was copied make up the unit, position and length reported
  differ by what is left, the position is a whole number of packets, and source
  and target stay on word boundaries. `ClockInv` says that between calls the
  clock sent last is behind `mPCR` by less than a period.
- `PacketsWhole`, `ClockKeepsUp`, `MuxTypes`: what follows from it for the
  multiplexer alone. A step of the stream is a step of the multiplexer or leaves
  it alone (`StreamStep`), so they hold in the composition: `StreamPacketsWhole`,
  `StreamClockKeepsUp`, the invariants of `ts_stream`.
- `BufferTakesUnits`, and with it `StreamTakesUnits`: `TakesUnits`, for every size
  of the buffer. `Dense` bounds the position by what has been copied: clock and
  tables, and then packets that are full but for the header of the first.
- `SegmentsPlayable`: `SelfContained`. The strengthening, `Playable`, says of the
  current GOP and of every published one but the first that it has no video or
  begins with tables and the start of a unit with an SPS. It needs of the
  multiplexer that without audio the tables precede every unit (`Tabled`) and of
  `CGop` that it takes packets up to one and none after it (`Fill`): a GOP that
  loses packets loses its end, never its start.
- `WholeFrames`: `FramesWhole`. The proof follows the bytes. `Buffered`: the packets in
  the buffer are system packets, then the unit without a gap. `Good`: what is
  published from any GOP on, with the current one behind it, is packets of a unit
  that stand together, from its first byte to its last or to where it was cut
  (`Pack`), with units in their order (`Order`) and none missing (`Complete`); a
  unit that is written keeps that (`GoodJoined`), and cut at a GOP it is what a
  player reads (`Readable`). `Held`: a frame in hand has its unit up to the last packet
  of its stream that was consumed, on this lap or at the end of the first. The
  start of the next frame therefore comes when the unit is complete, or was cut.
- `OrderedFrames`: `FramesInOrder`, if a frame has room for the data of one packet;
  in the code it has 2 MB (`TsDemux.cpp` 325). Without room, a unit whose first
  packet does not fit is begun and never delivered. The
  invariant `OrderInv`: what was delivered rises, and comes from starts that were
  consumed; the frame in hand is ahead of it; every start that was consumed was
  delivered or is in hand.
- `StreamTypes`: `StreamTypeOK`. No GOP and no frame outgrows its buffer (`Bounded`).

`FoldLeft` in `WriteFrameData` and `Used`, and `FlattenSeq` in `Open`, are recursive in
the library. The lemmas speak of the sequence of their partial results (`Folds`),
which is shown to exist by induction over its length; see `AllNumbers` below.

`HlsPublishS3_proofs` proves, for every ring, every set of lengths and
durations, every set of faults and any number of GOPs (`PublishAssumption`):

- `AlwaysGopToPop`, `NothingAfterStop`, `BooksBalance`: `PopHasGop`,
  `NoGopAfterStop` and `TimeConserved` of `publish_live`. `Process` pops without
  looking; what makes that right is `Enough`: from the measurement of a segment
  to its end, the GOPs in the list last for what is still to send, since the
  segmenter only adds. `Inv` says who holds the segmenter's mutex, and what the
  ring's GOPs are: those taken, then those filled.
- `RingUsedRight`: the publisher is an implementation of the ring's
  specification, in which one thread allocates and frees; `NoGopOverwritten`
  carries the theorems of `GopCircBuff_proofs` over to it.
- `ListedAreStored` and `RecordingIsComplete` assume `FailuresSeen`: the sink is
  one that reports a failed transfer, or transfers do not fail. Without it
  `publish_write_error` is the counterexample. `OnSink` and `NotMore` (what
  is stored is complete and not ahead of the upload), `Window` (the playlist is
  behind by as many segments as playlists were lost) are the strengthening.
- `LiveStaysSmall`: `RetentionBound` if deletions succeed.
- `KeepsTheLivePromise`: the publisher implements `HlsLive`, if `FailuresSeen` and
  playlists are sent. Each of its steps maps to `Store`, `List`, `Withdraw`,
  `Delete` or to none; the run `publish_refines` checks the same with the S3 sink.

- `LengthIsKept`: `LengthAnnounced`. The invariant `LengthKept` says that the length
  announced is what was sent and what is still to be sent of the GOPs waiting;
  that a GOP which arrives in between changes nothing is `Enough` again.
  `SegmentLen` sums over a set of indices with an operator of the library that
  takes the members in an order of its own. The lemmas on sums show that the
  order does not matter (`SumLess`: any member may be taken out first), nor do
  the indices (`SumUp`), by induction over the size of the set. The provers
  cannot instantiate an induction rule that takes a predicate; `AllNumbers`
  speaks of a *set* of numbers instead, which has 0 and with every number the
  next, and follows from the well-founded order on numbers.

`HlsClient_proofs` proves, for any number of GOPs and segments, any durations and
any reads (`PublisherAssumption`, that of `HlsPublishMemFile`):

- Whatever calls on the file system fail: `FolderAndPlayerTypes`; `NoneTwice`, the
  first half of `PlaysInOrder`, no segment is played twice and none after a
  later one; `TimeOfGops`, every GOP is accounted for. The invariant of these
  is `IInv`: `Listed` says that playlists never begin before the one the player
  has read, nor will the next, and `Played` that the player is at the head of
  its playlist. `Listed` rests on `First`, the least segment that a playlist
  written at the end of the open segment would name, which never goes back
  (`FirstGrows`).
- `FolderBounded`: `RetentionBound` if segment files can be opened and written
  (`Steady`). `Folder` says which files there are at each step of `ReceiveGop`.
  The assumption is needed: a segment that could not be opened or written
  takes a number, too, but only one that is closed deletes a file, that six
  numbers before its own; the files whose turn was skipped stay for ever.
- `PlayerIsServed`, `PlayerKeepsUp`, `FolderIsLive`: `PlayerServed`, `PlaysInOrder`
  and the refinement of `HlsLive`, if in addition playlists can be opened
  (`Opens`; writing them may fail). `Playlists` relates the playlist in the
  folder and the one the player has to the count of segments, and `LastStored`
  what is there in full. Where a playlist cannot be opened the old one stays
  and names segments that are then deleted. `hls_player` runs without faults; in
  the theorems writing a playlist may fail as well.

`RtspServer_proofs` proves, for any number of sessions, tracks, plays and frames:

- `ServerTypes`, `ReachableDeliveriesLive`, `PlayersGetUnbrokenRuns`:
  `AttachedAlive` and `ContiguousFrames`. The inductive invariant has the bounds
  of the loop in `Deliver` (`LoopBound`), that no delivery stands twice on a list
  or on the list of another track (`Placed`), that what a session is about to
  delete is on no list (`DoomedOut`), and, for frames, where the run of each
  delivery ends: with the frame before, or with this one if the loop has passed
  it (`Runs`).
- `SavedOrReplaced`, `OnlyReplacedIsLeft`: `SavedUnlessReplaced` and
  `NothingLeftBehind`, for any number of PLAYs. `Kept` adds to the
  first what makes it inductive: a session that is removing its deliveries has
  still to come to those that are attached. `Owned` says that what is
  allocated is on the list of its track or about to be deleted by its session. Without `replaced` neither holds (`rtsp_replay`).

`Middleware_proofs` proves, for any outputs and inputs, any length of a
connection and any number of frames and sessions: `MiddlewareTypes`,
`RegisteredAreAlive`, `FramesAreFresh` and the action property
`FramesHandedToAll`, each from a conjunct of `Inv` of its own. `ThreadInv` says
that a thread is inside a bridge only in its loop, and that none is left when a
session starts. `FreshInv` says that from the first step of a session on no queue, loop or
output holds a frame of an earlier one, but for audio switched off;
`HandedInv` that the outputs before a loop's position have the frame.

`RtspClient_proofs` proves, for any offers and bounds, `ClientTypes` and
`SessionsAreTheirOwn` (`ReadsItsOwn`). What makes it inductive is `Line`: until a
SETUP is given up there is at most one request or reply under way, and it is
that of the request the client waits for; when the audio is set up after a
SETUP of video that was given up, there may be both. `Ports` says whose answers
the sessions can therefore have.

TLC checked every inductive invariant before it was proved.

## Divergences

Checked by a run, and listed as findings:

- `CHlsOutJdS3::Continue` returns 1 or 0, and `Process` compares with
  `JD_ERROR` and logs "Exiting due to error writing" (`Sgmt` 1531): it never
  does, and the truncated segment is listed (`publish_write_error`).
- A second PLAY overwrites the saved delivery, "Save it in the session for
  future use" (`JdRtspSrv.cpp` 216): the first stays attached to the track when
  the session has gone (`rtsp_replay`). The repository's own client bridge sends
  the aggregate PLAY twice when audio and video are on
  (`RtspClntBridge.cpp` 200, 210).

Seen while modelling; the models show them as the code does them, and the
properties are stated around them:

- A live upload never deletes segment 0, although the comment says "Delete
  prev head segment for LiveOnly upload" (`Sgmt` 1558): hence the `{0}` in
  `RetentionBound`.
- The last fragment of a NAL unit gets no marker when it is exactly full
  (`JdRfc3984.cpp` 302): hence `LastFragmentFull` in `UnitPerFrame`.
- The receiver takes types 1 to 10 for single NAL units where the table in its
  comment says 1 to 23 (`JdRfc3984.cpp` 169, 204); `Chunks` gives types 11 to 23
  both outcomes.
- The digest of a 401 is never parsed: `HandleAnswerAnnounce` looks for
  "WWW-Authenticate" among names that `ParseResponseMessage` has put in lower
  case (`JdRtspClntRec.cpp` 484), so the label `RETRY_WITH_AUTH` repeats the
  request without one. It is composed behind the place of the last in a buffer of
  1 KB (`JdRtspClntRec.cpp` 452-466), which holds the reply by then: what is
  sent begins with that reply's text, and in the end `fault = "overrun"`.
- Replies are not matched to requests (`JdRtspClnt.cpp` 521): after a SETUP of
  video that was answered too late the audio session may get its ports, hence
  `late` in `ReadsItsOwn`.
- The audio thread is started whether or not PCMU was offered
  (`RtspClntBridge.cpp` 253-261), and reads through a null `m_pARtp`:
  `fault = "null"`.
- `send` is called without `MSG_NOSIGNAL` and nobody ignores SIGPIPE, by the RTSP
  clients and by `spc_socket_send` (`sock_ipc.cpp` 239): `fault = "pipe"` of
  `RtspClient` and of `Middleware`.
- The multiplexer's buffer has 512 KB (`HlsSrvBridge.h` 16) and frames may have
  2 MB (`EncOut.cpp` 67); `Mux` does not know (`Overrun`). What holds is that units
  of up to 512420 bytes are safe (`TakesUnits`).
- A bucket or host without a name: the S3 sink returns `JD_ERROR_INVALID_ARG`,
  `Process` does not take it for an error (`OpenRefused`).
- `m_thrdHandleStream` is set by no constructor. A `CHlsClntBridge` whose stream
  could not be opened is kept (`HlsClntBridge.cpp` 54-72), and `StopStreaming`
  joins what is in it (234-238): `fault = "handle"` of `Middleware`.
- The socket of a server that redirects is not closed (`JdRtspClnt.cpp` 371),
  and one on which `send` failed is closed twice (378, 464); `Close` sends
  an uninitialised buffer in place of the TEARDOWN it has composed
  (`JdRtspClnt.cpp` 563-564), and nothing calls it: `DeletePlayerSession`
  (`onyx_mw_main.cpp` 846) stops the bridge and does not delete it. The delivery that `StartPublish`
  adds is never removed: `mpStreamServer` is null.
- `m_pHlsPublishCfg` is not initialised (`onyx_mw_main.cpp` 476-495),
  `listSession` is not cleared (916), so that threads are joined and players
  destroyed again (`OmxIf.cpp` 228-241), and `m_Outputs` is changed under the
  loops of two threads (`EncOut.cpp` 71): `fault` `"config"`, `"joined"`,
  `"player"` and `"iterator"` of `Middleware`.
- `m_pAudConnSrc` is never deleted: with audio switched off in the
  configuration, the audio thread still drains the connection of the last
  session that had it (`onyx_mw_main.cpp` 728), hence the excuse in
  `FreshFrames`.
- Sessions are not told that their stream is withdrawn: `IServerSessionCB`
  (`JdMediaResMgr.h` 162) has no implementation. `RtspServer` reaches
  `fault = "gone"` in several ways.
- PLAY without SETUP uses an uninitialised pointer (`JdRtspSrv.cpp` 195-207):
  `fault = "noRtp"`.
- `UpLoadFullPlayList` goes on after a `Start` that failed, and the S3 sink
  dereferences its null handle (`Sgmt` 1371, 1377): the step to
  `pc = "crash"`.
- A GOP that arrives when no segment file can be opened is counted neither as
  out nor as lost (`Sgmt` 1197): the variable `unopened`.
- `Mux` is called by both encoder threads, without a lock, into one buffer
  (`HlsSrvBridge.cpp` 51, 73): `TsMux` lets the calls follow one another, which
  is what a stream without audio does.
- Tables are timed by audio (`m_PTS` is set for audio only,
  `SimpleTsMux.cpp` 930, 951): with audio, a GOP shorter than 200 ms may come
  without tables; without, `mPSISent` stays 0 and they precede every frame.
  Hence `SelfContained` speaks of streams without audio.
- `PES_PTS_VALUE_LO` takes the last byte as `pb[4] & (0xFE >> 1)`
  (`TsDemux.cpp` 48): the time stamp that is read is off by up to 128 ticks
  (`PtsRead`).
- `CHlsClntBridge::DoBufferProcessing` never sets `mRdOffset` back and enables no
  stream (`HlsClntBridge.cpp` 180-187): it delivers no frame. `TsStream` models
  the use of the demultiplexer in `CTsFilter`.
- The sequence of an upload that times out (`Sgmt` 1502), the first segment
  number taken from the clock (`Sgmt` 1091), sockets that `CHttpGet` leaves open
  (`JdHttpClnt.cpp` 652) and `SendVideoFrame`, which writes members instead of
  its arguments (`HlsClntBridge.cpp` 96), are not the subject of a property.

## Limits

*Model-checked only.* Liveness: it needs fairness and `ENABLED`, which the prover
does not reason about. Every other property of the passing runs is stated by a
theorem.

*Proved under an assumption.* What `HlsPublishS3` stores and lists for sinks whose failures
are seen; `RetentionBound`, `PlayerServed`, `PlaysInOrder` and `HlsLive` of the
folder while files can be opened; `StreamIntact` without NAL types 11 to 23;
`FramesInOrder` for frames with room for a packet; see above.

*Abstracted.* Bytes of media, names, URLs, headers and the text of playlists.
Time, but for the timeout of the uploader, which counts polls. Memory
exhaustion. Statistics are taken as read and written atomically. `m_nError` and
`m_fRunState` are plain variables shared by threads; a step reads or writes one
of them. A fault (memory that is not there, a signal that kills) ends a
behaviour: properties speak of what is before it, and say so where they excuse
one. `RtpVideo` does not reorder packets. `HlsClient` does not play the playlist
that ends a recording, and publisher and client share one folder without a
cache in between, other than the client's own lateness. `Middleware` has one
client of the user interface; `CUiMsg` iterates its list of clients without the
mutex that guards it. The shared buffer of `CHlsSrvBridge`, written by two
threads, is outside `TsMux`, where one call follows the other. In `RtspClient`
replies arrive whole, what is left of a description fits into the next header,
and video is enabled.

*Not modelled.* The components with `not_modelled` in `PROJECT.json`, each with
its reason: code nothing uses or builds (the memory server of HLS, `udprdr`,
the direct RTSP tunnel, STUN), pure packing of bytes and functions on text,
the HTTP server, which keeps no state between requests, the FLV framing of the
RTMP bridge, and vendored code. The vendored part (`librtmp`, the headers of
OpenSSL and OpenMAX AL) is by far the larger half of the repository's lines,
and headers of constants and declarations have nothing to model; what the map
names is the logic of the middleware and of the libraries it is built from.
