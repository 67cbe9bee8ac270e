# A TLA+ model of webrtc-streamer

webrtc-streamer publishes RTSP, RTMP, file and device streams to browsers
over WebRTC. This directory holds TLA+ modules of the parts of the program where several
threads share state, the TLC configurations that check them, and TLAPS proofs
of the properties that matter most. Every definition that models code is tied
to its source lines by the `map` of `PROJECT.json`.

## 1. The system

| Part | State | Operations | Hard because |
|---|---|---|---|
| `PeerConnectionManager` (`src/PeerConnectionManager.cpp`) | `m_peer_connectionobs_map` (peer id to observer, under `m_peerMapMutex`), `m_stream_map` (label to video and audio source, under `m_streamMapMutex`), `m_maxpc` | `call`, `whep`, `createOffer`, `setAnswer`, `hangUp`, candidates, lists | any number of HTTP threads, detached `hangUp` threads, two mutexes never held together, raw pointers |
| session description observers (`inc/PeerConnectionManager.h`) | `m_promise` (a reference to the handler's stack), `m_cancelled` | `OnSuccess`, `OnFailure`, `cancel` | callbacks on the signaling thread race a five second timeout |
| `VideoDecoder` | `m_queue`, `m_stop`, `m_format`, `m_decoder` | `postFormat`, `PostFrame`, `DecoderThread`, `Stop` | producer, consumer and destructor; format changes behind a backlog |
| `LiveVideoSource` | `m_codec`, `m_cfg`, `m_prevTimestamp` | `onNewSession`, `onData`, `Stop` | parameter sets on one thread, decoder on another |
| `RtmpVideoSource` | `m_cfg`, `m_stop`, the RTMP connection | `CaptureThread`, `processVideoPacket`, `Stop` | the same, with connection failures |
| `LiveAudioSource` | `m_sinks`, `m_buffer`, `m_freq`, `m_channel`, `m_decoder` | `AddSink`, `RemoveSink`, `onNewSession`, `onData` | sinks change in the middle of a packet |
| `VideoScaler` | `m_roi_*`, `m_width`, `m_height`, `m_rotation` | `OnFrame`, `createOutputBuffer` | the region outlives the frame it was computed for |
| ICE candidates and the peer list (`PeerConnectionManager`, its observers) | `m_iceCandidateList` under `m_iceCandidateMutex`, `m_deleting` | `addIceCandidate`, WHEP PATCH, `getIceCandidateList`, `getPeerConnectionList`, `OnIceCandidate`, `OnIceConnectionChange` | blocking calls to the signaling thread with `m_peerMapMutex` held |
| HTTP server (`HttpServerRequestHandler.cpp`) | `m_handlers`, the threads of civetweb | requests, WebSocket messages, `/metrics`, destructor | handlers are deleted before the threads that run them stop |
| `main` | `webRtcServer` | start, `sighandler`, destructors | SIGINT deletes the manager under running requests |
| `CapturerFactory`, `V4l2AlsaMap`, media lists, null codecs | the publish filter, `m_videoaudiomap`, `m_useNullCodec` | source by URL, published lists, pairing of cameras and microphones | three places decide what the null codec allows; two ways of numbering device files |
| device, screen and window capturers | `m_stop`, `m_isrunning`, `m_sps`, `m_pps`, `m_capturer` | `Create`, `CaptureThread`, `Destroy` | threads started before their object is complete, silent or unplugged devices |
| options and labels, statistics, TURN/STUN, thin subclasses | see section 7 | | |

How they interact: an HTTP thread runs an API function of the manager. `call`,
`whep` and `createOffer` create a `PeerConnectionObserver` (evicting the oldest
one when the map is full), find or create the sources of the requested stream
through `CapturerFactory`, attach tracks to the PeerConnection and wait for
WebRTC's signaling thread through a promise. The signaling thread calls the
observer back; on an ICE failure it starts a detached thread that hangs the
peer up. A source owns a capture thread (live555 or librtmp), which posts to
the decoder thread of `VideoDecoder`; decoded frames pass `VideoScaler` to
WebRTC's broadcaster. Audio is decoded on the capture thread itself.

What makes each part correct:

* manager: an observer is deleted once, by the only thread that can reach it;
  the map never holds a deleted one; the viewers of a stream share one
  capturer, which is closed with the last of them; the limit of peers holds;
  requests end and failed peers go away;
* observers: one value per promise, none to a handler that has gone, the right
  description in the reply;
* decoder: a frame is decoded in its own format, no message is slept over, and
  the destructor does not hang or wait for the backlog;
* sources: key frames carry the parameter sets of the decoder they reach, and
  the capture thread ends before the queue it posts to is stopped;
* audio: every attached sink hears every sample once, no removed one hears any;
* scaler: the region is inside the frame and stays put;
* signaling: no circular wait between the mutex and the signaling thread, no
  loop over the map meets an observer that is being deleted, a candidate is
  listed together with its twin;
* program: requests are answered, SIGINT ends the process, and the shutdown by
  itself uses nothing it has deleted;
* devices: what is published can be watched and has its own microphone, key
  frames carry the latest parameter sets, no thread outlives its source and
  destructors return.

The hazards behind these properties are listed, each at its line, in
`PROJECT.json`.

## 2. Modules

| Module | Models | Uses |
|---|---|---|
| `ObserverOwnership` | abstract: who may use and delete an observer | |
| `PeerConnectionManager` | both maps, HTTP threads, detached threads | implements `ObserverOwnership` |
| `PeerConnectionManager_proofs` | theorems | |
| `SessionPromise` | promises, observers, the signaling thread | |
| `SessionPromise_proofs` | theorems | |
| `VideoDecoder` | queue, decoder thread, `Stop` | |
| `VideoDecoder_proofs` | theorems | |
| `LiveVideoSource` | live555 capture thread and destructors | composes and implements `VideoDecoder` |
| `LiveVideoSource_proofs` | theorems | `VideoDecoder_proofs` |
| `RtmpVideoSource` | RTMP capture thread and destructors | composes and implements `VideoDecoder` |
| `RtmpVideoSource_proofs` | theorems about `RtmpVideoSource`, and about the `VideoScaler` behind it | `VideoDecoder_proofs` |
| `LiveAudioSource` | audio capture thread and sinks | |
| `LiveAudioSource_proofs` | theorems | |
| `VideoScaler` | region of interest | |
| `Signaling` | API functions and callbacks that meet on `m_peerMapMutex` and the signaling thread | |
| `HttpServer` | `main`, the server and its handlers, SIGINT | composes `Signaling` |
| `HttpServer_proofs` | theorems about `HttpServer` and `Signaling` | |
| `CapturerFactory` | choice of sources, published lists, pairing, encoders (operators) | |
| `DeviceCapturers` | V4L2, desktop and capture module sources | uses `CapturerFactory` |
| `DeviceCapturers_proofs` | theorems | |
| `MC*` | constants for TLC | |

Every module with a state has a type invariant (`TypeOK`, `DecoderTypeOK`,
`ScalerTypeOK`, `SigTypeOK`). All of them are proved, as part of the inductive invariants; no
run is spent on them.

### PeerConnectionManager

An observer is a number, in the order of creation (which is what
`m_creationTime` is used for). Each thread has a location `pc`, the function
`op` it runs, the observer pointer `ptr` and the peer id `hup` that `hangUp`
was called with. A step is one critical section or one call outside both
mutexes, so everything between an unlock and the next lock can be overtaken.
`call` and `whep` are `getAnswer` with and without waiting for gathering. The
actions follow the code in order:

    oldest -> (hangUp of the evicted peer) -> create -> register -> lookup -> insert -> attach -> negotiate -> gather

with `register` after `attach` for `createOffer`. `hangUp` is
`find -> senders -> (check -> erase)* -> delete`. A null PeerConnection is
noticed by `getAnswer` (`discard`) and not by `createOffer`, where it may end
the process (`up`); so may a read through a deleted observer, in the gathering
loop and in the detached thread. Abstracted: URL and options to a label, the
sources to the observer for which they were created, the outcome of a
negotiation to success or failure. All senders of a connection carry one
label, as in `AddStreams`.

### SessionPromise

One connection and several handlers on it. `chain` is WebRTC's queue of
operations (external: each ends in one callback that reports success only if
the signaling state allows it). A callback first reads `m_cancelled` and in a
second step calls `set_value`, so a timeout may come in between; `broken`
records a value set in a promise that was gone.

### VideoDecoder, LiveVideoSource and RtmpVideoSource

`VideoDecoder` is the contract between a capture thread and the queue. The
capture thread posts one message at a time and calls `notify_all` outside the
mutex in a step of its own; `m_stop` is a plain `bool`, so the decoder thread
may read an old value until it has taken the mutex after `Stop` (`knows`).
Spurious wake-ups are possible. A decoder may fail to be created and may fail
on any frame. A format stands for codec, width and height.

The two sources add their capture threads and destructors to it and are shown
to implement it (`ImplementsDecoder`): their join comes before the base
class's `Stop`. In `LiveVideoSource` a buffer is a sequence of NAL unit types;
`m_cfg` is abstracted to the SPS in it. The capture thread asks
`m_decoder->ImplementationName()` without a lock; when the decoder thread
resets the pointer in between, the call may return anything or end the
process. In `RtmpVideoSource` a failing read leaves an uninitialised packet
whose release may end the process.

### LiveAudioSource

Samples are abstracted to the format they were decoded in and counted, so that
gaps and repetitions show (the format a segment is announced with is not
compared). The lock is taken once per segment, after the segment was cut.
`Segment` is the length of a segment in samples, `m_freq/100*m_channel`. It is 0
for an `rtpfrequency` below 100 or for no channels, which `onNewSession` takes
from the SDP without a test, even for a codec that it rejects: the loop over the
buffer then never ends and the destructor waits for ever. `DestructorReturns` has
this case (`Endless`) as its only exception.

### VideoScaler

The arithmetic of `OnFrame` and `createOutputBuffer` as it is, with sums that
wrap (`Wrap`) at the largest `int`, the constant `IntMax`; the history
variables `asked` and `fits` record what the options wanted and whether it
fitted all frames. Options are any `int`: negative positions and extents are
replaced by 0 in the constructor, a negative `width` or `height` is used as it
is and reaches `I420Buffer::Create`, where the model ends. A position and an
extent whose sum overflows pass the test of the region, which then leaves the
frame: this is the exception in `RegionInsideFrame`.

### Signaling and HttpServer

`PeerConnectionManager` takes a critical section as one step. `Signaling`
opens those that call into a PeerConnection: each such call blocks until the
signaling thread has served it, and `addIceCandidate`, `getPeerConnectionList`
and `streamStillUsed` make it with `m_peerMapMutex` held. Each observer's
`m_iceCandidateMutex` is a variable of its own (`iceMutex`):
`getIceCandidateList` waits for it with `m_peerMapMutex` held, and
`OnIceCandidate` appends a candidate and its twin in two steps with it held. A
thread is at a location `at`: at one of `Waiting` it needs the mutex of the map,
at one of `WaitingForList` that of a list, at one of `Calls` the signaling
thread. `hangUp` is followed to the end of
`~PeerConnectionObserver`: `m_deleting`, `Close` (which calls
`OnIceConnectionChange` back before it returns) and the deallocation. All
peers are registered from the start, or none is; the calls that make new ones, the stream map
and descriptions are in the other modules. The bodies of trickled candidates
are sequences of lines, a candidate list is a sequence of `host`, `reflexive`
and `extra` (the twin of a host candidate at `--extra-host`).

`HttpServer` puts the program around it: `main` creates the manager, starts
the server, registers the handlers and runs; SIGINT before `signal()` ends the
process, later it runs `sighandler` on the main thread, which is the one the
kernel prefers, or on another one while the main thread is in the handler. The
steps of the shutdown are the code's: manager, pointer and `Quit`, handlers,
threads of the server. The WebSocket handler is never deleted. When an object
is used after its deletion `process` is `"undefined"` and nothing more is said;
this is not counted as an end of the process. Three things disturb a shutdown
(`Disturbed`):

* a request, a callback or a handler in another thread that needs the manager or
  the handlers while they are deleted; the history variable `overlap` records it;
* peers in the map (`Leaked`): nobody deletes their observers, and their
  connections go on with the worker thread that `~PeerConnectionManager` has
  stopped (`LeakedConnection`);
* an audio device module that counts its references (`counted`; the fake one
  does not): `~PeerConnectionManager` calls `Release` without an `AddRef` of its
  own, so that, `References` against `Releases`, the last release is of a deleted
  object unless a leaked connection keeps a factory alive.

What a thread needs is `Safe`: a request its handler and the manager, a reply of
the WebSocket neither, so that the shutdown may have to wait for it.

### CapturerFactory and DeviceCapturers

A URL is a record of scheme and rest, the publish filter the set of schemes it
accepts. A machine is what is plugged in: device files, with their hardware and
whether they can capture, and sound cards. `VideoDevices` and `AudioDevices` are sets of results because a
directory iterator has no order. `MediaList` follows `getMediaList`, `Encoders`
and `Accepts` the null codecs. In `DeviceCapturers` a client picks a published
URL or types one, the source is created, captures and is destroyed again, one
at a time. `thread` is the capture thread (or WebRTC's, `"module"`), and its
loop test and its blocking call are separate steps. Buffers of a V4L2 device
are sets of parameter sets with a version, with an IDR or without; `latest` is
a history of what the device sent. A device may become silent or be unplugged.
`machine` changes while the program runs (`Plug`): lists are made from what is
plugged in now, `pairs` (`m_videoaudiomap`) from what was at the start (`boot`).
The ways to crash are those of the code: `std::stoi` of an option that is no
number, which nothing catches; a null `device_info` or `m_vcm` and the
`RTC_CHECK` of `VcmCapturer`; a desktop source without a display, or whose thread
is faster than its constructor; a V4L2 device whose parameter sets have not both
come, at a key frame without any and, with verbose logs, at every buffer; a
read of -1 bytes; a use after deletion. The state at that moment is what
`CrashesAreKnown` is about: the last one never happens.

## 3. Runs

| Run | Instance | Shows |
|---|---|---|
| `ownership` | 2 HTTP threads, 1 detached, 2 peer ids reused, `--maxpc 1`, 2 observers | registered observers are valid, exclusive ownership, refinement of `ObserverOwnership`, senders have real sources of their label |
| `viewers_leave` | 1 HTTP thread, 2 detached, 3 viewers that leave through ICE failures only, fair | the last one closes the capturer; detached threads find their observer; failed peers are reaped |
| `limits` | 2 HTTP threads, a peer id and none (the empty one), reused, 1 label, 3 observers, `--maxpc 1` | the limit holds but for its two known causes, one source per stream but for one race |
| `session_promise` | 3 handlers of any function | single value, punctual handlers leave nothing, right replies, handlers return |
| `video_decoder` | 2 formats, queue of 3 | frames in their format, no lost wake-up, `Stop` prompt and returning |
| `live_video` | all four codecs and changes between them, unparsable SPS, single NAL units and access units | key frames match the decoder, the queue is used as required, also by the destructor |
| `rtmp` | both codecs, each with an unparsable SPS | the same for RTMP, and the destructor returns |
| `live_audio` | 2 sinks, formats with segments of several lengths, 0 among them, 2 packets of up to 4 samples | removed sinks are silent, sinks hear everything, bounded backlog, the destructor returns unless segments are empty |
| `video_scaler` | `IntMax` 7, options -1, 0, 1, 3, 7, sizes -2, 0, 3, frames of 1, 2, 4 | region inside the frame unless a sum overflows, never empty, kept and stable |
| `http_server` | an HTTP and a WebSocket thread, 2 peers with a detached thread each, 2 requests, 1 callback, SIGINT at any point, fair | every chain of waits ends, observers in use are alive, twins are listed together, a shutdown that nothing disturbs is clean and ends the process, requests return |
| `capturers` | up to 3 device files of 2 cameras and their sound cards in 5 layouts, which change once, 3 filters, null codec or not, 2 versions of parameter sets, fair | published sources suit their encoder, cameras have their own microphones but for two exceptions, key frames carry the latest parameter sets, crashes are the known ones, destructors return |

One run ends in a violation, a disagreement between the code and what the
repository says, described under `findings`: `hangup_leaves_call`, a second
call under a peer id survives `/api/hangup`.

The modules contain more behaviours that a reader of the code may not expect;
no run is devoted to them:

* with overlapping requests `hangUp` may erase the entry of a stream that a
  call attached to after `streamStillUsed` had answered, so that the next call
  opens the source again (`OneSourceTheorem` shows that this is the only way);
* concurrent calls exceed `--maxpc`, the "Maximum number of peer
  connections" of `README.md:57`: the size is tested in one critical section and the peer
  inserted in a later one. The excess is not bounded by the number of threads
  either: a call evicts one peer at most, so what was too many once stays, and
  two calls that choose the same oldest peer add another one. The limit is also
  exceeded by requests one after the other: a call without `peerid` is filed
  under the empty string, which `CreatePeerConnection` (line 1197) takes for no
  peer to evict when it is the oldest. `MaxPcTheorem` shows that the gap between
  test and insertion and the peer without a name are the only causes;
* `setAnswer` replies with the local description: `OnSuccess` prefers it to
  the remote one, and an offer was always made before;
* `dev2Idx[deviceNumber]` inserts a zero for a file that cannot capture, such
  as the metadata file of a camera, so that the first camera may be paired with
  the microphone of another one (an exception in `PairsShareHardware`), and
  `audiocap://` is followed by the number of the ALSA card although the audio
  device module counts its own devices;
* `m_videoaudiomap` is made once: after a camera or a sound card was plugged in
  or pulled out its numbers mean other hardware, and cameras are published with
  the microphones of others (the other exception in `PairsShareHardware`);
* an option `width`, `height` or `fps` that is no number ends the process, as do
  a null capture device and a module that has not started;
* the thread of a screen or window source may capture before `Start` gave the
  capturer its callback, and without a display `m_capturer` is null;
* a V4L2 device that sends an IDR before its parameter sets, or that fails a
  read, ends the process, and with verbose logs so does any first buffer without
  them;
* a request, a callback or a second SIGINT during the shutdown uses the deleted
  manager or a deleted handler, the connections of peers that are left behind use
  a stopped thread, and an audio device module that counts its references is
  released once too often (what `QuietShutdownIsClean` and `ProcessEnds` leave out);
* an audio session of less than 100 Hz or without channels keeps the capture
  thread in a loop for ever (the exception in `DestructorReturns`);
* a region of interest whose position and extent overflow an `int` leaves the
  frame (the exception in `RegionInsideFrame`);
* a value that arrives after a handler's timeout reaches a promise that is gone
  (`PunctualHandlersLeaveNothing` speaks of handlers without a timeout);
* opening an RTSP or file audio source terminates the audio device module that
  running microphone streams use;
* options are appended to a label without separators and `sanitizeLabel` drops
  characters, so that different requests may share a stream;
* `m_prevTimestamp` is not initialised, so the first slices of a session may
  be dropped as being in the past when FFmpeg decodes;
* a rejected audio session has already overwritten `m_freq` and `m_channel`,
  which the running session is then cut and announced with;
* a VP9 session leaves the parameter sets of an H264 or H265 one in `m_cfg`
  (an exception in `KeyFramesMatchDecoder` of `LiveVideoSource`);
* an H265 SPS that cannot be parsed stays in `m_cfg` of `RtmpVideoSource`
  although no format was posted for it (the exception in its
  `KeyFramesMatchDecoder`).

Bounds and why they are enough. The races of the manager are between two
threads on one peer or one label; two HTTP threads and one or two detached
ones give all pairs, two or three observers an eviction, a collision of ids
and a survivor. `MaxObs` is spent when a request starts, so it never cuts a
request in the middle. In `video_decoder` a queue of three messages holds a
format, a frame behind it and another format. In `live_video` the queue holds
one message, a key frame has up to `MaxSlices` = 2 slices, and the capture thread
waits for room: longer queues and pictures are covered by the proofs, and the decoder thread still has
a message in its hands while the capture thread goes on to other parameter
sets. In `live_audio` the longest packet is two segments of the longer format,
so that residues, several segments per packet and format changes occur.
`CHECK_DEADLOCK FALSE` is used where the model ends because its bound is
spent, or because the process has crashed: `viewers_leave`, `capturers` and the
handlers of `SessionPromise`, which run once. In `limits` two requests
overlap in every way, and three observers fill a map of one, exceed it and
start again; a trace that breaks a hypothesis is followed as well, so that the
exceptions are really met. In `video_scaler` `IntMax` is 7, so that sums of options overflow as they do
at 2^31 - 1, and small frames meet options below, at and above their size. In
`http_server` the two requests and the callback give each pair of a function with another function, with a
hangup by a detached thread and with the shutdown; a circular wait needs two
threads and the signaling thread. In `capturers` one change (`MaxChanges`) is
enough for a list to differ from the start, and three files for a
camera with a file that cannot capture before, between or after the files that
can, and two versions for a device that changes its parameter sets.

Where a property needs a restriction, its definition or the run's constants say
so. `LimitHolds` and `SourcesAreShared` are implications between what must
never happen and the property, so that `limits` runs with overlapping requests and
unnamed peers and shows that nothing else matters. `viewers_leave` needs distinct
peer ids and no HTTP hangup: a hangup may close a connection while its call is
still attaching tracks.

## 4. Fairness

Threads that can take a step do so (weak fairness per thread). For HTTP
threads this rests on the bounded waits of the code (`wait_for` of five
seconds, five rounds of the gathering loop), for the capture threads on
live555's and librtmp's calls returning (librtmp has a timeout), for the
decoder thread on the operating system. Nothing is assumed of clients, of ICE,
of the owner who destroys a source, of spurious wake-ups, or, in
`SessionPromise`, of the signaling thread.

In `HttpServer` the main thread and every thread that is in a function go on;
a blocking call is served because the signaling thread only runs short tasks.
Requests, callbacks and SIGINT are never assumed to come. In `DeviceCapturers`
the capture thread goes on because `isReadable` has a timeout of one second
and `CaptureFrame` returns, and constructors and destructors that have begun
are carried on; the device owes nothing.

## 5. Proofs

Every invariant that a run checks is also a theorem, for every value of the
constants, and so are the refinements. None is inductive as it stands; what had
to be added is the content of the proofs.

* `PeerConnectionManager_proofs`, for any sets of threads, peers and labels and
  any number of observers.
  * Ownership. `OwnershipInv` is the type invariant, `Allocated` (every pointer
    that a location dereferences is one that was created; `find` has a real peer
    id; a loop that runs has senders left; `register` has a PeerConnection),
    `RegisteredObservers` and `ExclusiveOwnership`. The last two need each other:
    that `hangUp` deletes what nobody else holds rests on the map holding live
    observers under their own ids only, and that rests on owners being
    exclusive. Every action is first reduced to one of six effects on the
    observers (`EffectOfStep`), which preserve the invariant and are steps of
    `ObserverOwnership` (`RefinementStep`).
  * Streams. A second reduction (`SourceEffectOfStep`) says what a step does
    to the sources. `StreamInv` gives `SendersHaveSources` with no hypothesis:
    between the lookup and the insertion of `AddStreams` a request is the only
    one that may make sources for its observer. `SharedInv` (the
    senders of registered viewers are made of the sources of the entry, and an
    entry about to be erased is unused) gives `SourcesAreShared`, that is
    `OneSourcePerStream` for any number of threads in behaviours with
    `ErasuresAreCurrent`: nobody attaches or
    registers a viewer of a stream between `streamStillUsed` and the erasure that
    follows it. `OneSourceWithoutRace` derives the hypothesis for one thread
    (`Sequential`), and for any number if nothing can start a `hangUp`.
  * The limit. `LimitInv` (room is made before an observer is created and kept
    until it is registered; the peer to evict is still there, or whoever took it
    made the room) gives `LimitHolds`, that is `MaxPcRespected` for any number of
    threads, hangups and failures in behaviours with `OneMakesRoom` (at most one
    request is between the test of the size and its registration) and
    `OldestIsNamed` (the oldest peer of a full map does not have the empty id).
    `MaxPcSequential` is the case of one thread, in which only the second one is
    needed.
  * Hangups. `ArgumentInv` says that `hangUp` works on an observer of the peer it
    was called for, so that `HangUpClosesCall` holds while no two undeleted
    observers share a peer id (`LiveIdsDiffer`), and always if no id is used
    twice: the counterexample of `hangup_leaves_call` has no other cause.
  * Pointers. `SurvivalInv` says that `AddStreams` is only entered with a
    PeerConnection, except by `createOffer`. Without `createOffer` the process
    then ends at two places at most, the detached thread and the gathering loop
    of `whep`, and only when their observer has been deleted
    (`SurvivalTheorem`); `CallsSurvive` names two ways to use the server in
    which neither happens.
  * Viewers that leave. Under `OnlyReaped` (no HTTP hangup, no eviction, no id
    used twice: the constants of `viewers_leave`), for any number of requests
    and detached threads, `ReapInv` says that each failed observer has at most
    one thread that will hang it up, and gives `DetachedThreadsFindObserver`.
    `WatchInv` adds that a running capturer has a registered viewer or a thread
    that is attaching one or is about to close it, and gives
    `CapturersAreWatched`.
* `SessionPromise_proofs`, for any number of handlers on a connection.
  `ReferenceInv` says that at most one of WebRTC's operations and the running
  callback refers to a promise, and only while it has no value (the observer of
  `CreateOffer` hands its reference on to that of `SetLocalDescription`);
  `OrderInv` that a handler's remote description comes before its local one in
  the chain; `ValueInv` that what is on its way to a local promise is of the
  handler's own type.
* `VideoDecoder_proofs`, for any formats, contents and queue bound.
  `DecoderInv` adds to the types a description of the queue as a chain: each
  message's `after` is the format in force when it was posted, the first one's
  that of the decoder thread; and what `knows`, `stopper` and `popped` say of
  each other. `DecodedInItsFormat`, `NoLostWakeUp` and `StopIsPrompt` follow.
* `LiveVideoSource_proofs` and `RtmpVideoSource_proofs`, for any codecs, sizes,
  buffers and configuration packets. The proofs are compositional. Each step of
  a source is shown to be a
  step of `VideoDecoder` or to leave the queue alone, which is the refinement
  `ImplementsDecoder`; the induction step of `DecoderInv` is then reused from
  `VideoDecoder_proofs`. `LoopInv` (`RtmpMessages` for RTMP) says that the
  parameter sets in `m_cfg`, in the key frame being put together, in each
  message of the queue and in the decoder thread's hands fit the format in force
  there. With `DecodedInItsFormat` this is `KeyFramesMatchDecoder`. For
  `LiveVideoSource` it needs that no parameter set follows a slice of the same
  access unit (`BufferAssumption`); for `RtmpVideoSource` it has the unparsable
  H265 SPS as an exception, which goes away under `H265Parsed`
  (`RtmpExactKeyFrames`). The queue theorems put the two layers together: what
  the queue promises under its contract holds of each source with its
  destructors.
* `LiveAudioSource_proofs`, for any sinks, formats and segment lengths.
  `SinksInv` (`m_sinks` has the living sinks, each once) and `LoopInv` (the lock
  is held during the loop, which has only sinks of the list left) give
  `RemovedSinksAreSilent`; with `SegmentInv` also `SinksHearEverything`.
  `BacklogInv` bounds `m_buffer` by a segment between packets.
* The scaler, in `RtmpVideoSource_proofs` because `m_scaler` is a member of the
  base class of both sources, for all options and all sequences of frame sizes
  that an `int` can hold: types and no division by zero, a region that is never
  empty and inside the frame unless the sum that was asked for overflows, asked
  region kept, region stable.
* `HttpServer_proofs`, for any number of HTTP threads, WebSocket connections,
  peers, requests and callbacks, in two layers. `SigInv` is about `Signaling`
  whatever the program around it does: the mutex is held exactly in the
  critical sections and never by the signaling thread, a list of candidates only
  by a reader that holds it or by the callback between its two appends, a loop has
  only entries of the map left, and only what was taken from the map is closed or
  deleted. `NoCircularWait` follows from the first parts, for circles of any
  length: every chain of waits ends after three steps.
  The twins are complete in every list whose mutex no callback holds, and readers
  copy lists only then.
  `ShutdownInv` records what `main` has set up at each point and that nothing but
  replies of WebSockets runs beside a shutdown without `overlap`.
* `DeviceCapturers_proofs`, for any devices, sound cards, windows, screens and
  publish filters. What a client picked was in a list made from the devices
  of that time and the map from those at the start (`PickedInv`, `PairsInv`); a listed source has the frames that the null
  codec option asks for (`SourceInv`, `FrameInv`); a deleted source's thread has
  ended (`ThreadInv`); `m_sps` and `m_pps` are what the device sent last
  (`SetsInv`). Lemmas about `CapturerFactory`'s operators carry the pairing of
  cameras and microphones.

Assumptions used: `ConstantsAssumption`, `FunctionAssumption`,
`VideoDecoderAssumption`, `BufferAssumption`, `RtmpAssumption`,
`AudioAssumption`, `ScalerAssumption`, `SignalingAssumption`,
`FactoryAssumption` and `CapturersAssumption`. They say what kind of values the
constants are and that `None` is none of them, and, in `BufferAssumption`, how
an access unit is laid out; TLC evaluates each of them on the instances of the
runs. Further hypotheses are part of the theorems' statements. `Sequential`,
`HangUpsHappen`, `OnlyReaped` and `H265Parsed` speak of the constants, and the
constants of the run that checks the property satisfy them (`Sequential` and
`H265Parsed` belong to corollaries only). `ErasuresAreCurrent`, `OneMakesRoom`,
`OldestIsNamed`, `LiveIdsDiffer` and `GatheringFindsObserver` speak of the
behaviour: each excludes one race or, for `OldestIsNamed`, one peer id, and the
theorem says that nothing else breaks the property. The first three are part of
the properties `SourcesAreShared` and `LimitHolds`. Each of the first four holds
in some behaviours and fails in others: without them TLC finds
`OneSourcePerStream` (three observers), `MaxPcRespected` and `HangUpClosesCall`
violated.

`NoCircularWait` is about `m_peerMapMutex`, the lists of candidates and the
signaling thread. `m_streamMapMutex`, which `AddStreams` holds across `AddTrack`,
is not part of `Signaling`: no callback takes it and it is never held together
with `m_peerMapMutex`. `DestructorReturns` of `DeviceCapturers` counts a crash as
an end: with an unplugged camera the read fails and the process is gone before the
destructor returns.

Only model-checked: the liveness properties (`FailedPeersAreReaped`,
`HandlersReturn`, `StopReturns`, `RequestsReturn`, `ProcessEnds` and the three
`DestructorReturns`), because TLAPS does not prove liveness under fairness here;
and that `HangUpClosesCall` is violated when a peer id is used again, which is a
counterexample.

## 6. What is left

The modules above model what can be modelled faithfully of the program's own
control, and every safety property of the runs is proved. What remains, and why:

1. Liveness (section 5). Its safety core is proved: no lost wake-up, no circular
   wait, single values, bounded backlogs.
2. `DetachedThreadsFindObserver` and `CapturersAreWatched` are proved under
   `OnlyReaped`. They are false with hangups by clients and with evictions: a
   thread other than the detached one may delete the failed observer first, and
   a hangup may close a connection whose call is still attaching tracks.
3. Shorter proofs: the case splits of `PeerConnectionManager_proofs` over the
   effects of a step are repeated for each invariant.

## 7. Not modelled

* Options and labels: string processing that decides which requests share a
  stream; `AddStreams` is modelled from the label on.
* Statistics: copies of counters that WebRTC keeps, each under a mutex of its
  own; data channels and remote sinks, which only log or answer.
* The audio device module, shared by all microphone streams: what
  `Terminate` does to them is WebRTC's.
* The command line, `TurnAuth`, `TurnRedirector` and the TURN and STUN servers:
  sequential set-up of libraries.
* The thin RTSP, RTP and file subclasses, which choose a transport and pass
  options on; the null decoder and the codec factories beyond the formats they
  accept; the pacing arithmetic of `VideoDecoder::Decoded`, which only delays a
  frame.
* Pixels, samples, SDP text and JSON, data that no property tells apart.
