--------------------------- MODULE DeviceCapturers ---------------------------
(***************************************************************************)
(* The video sources that CapturerFactory makes for devices, screens and   *)
(* windows: their creation from a published or a typed URL, their capture  *)
(* threads and their destructors.                                          *)
(*                                                                         *)
(* V4l2Capturer and DesktopCapturer have a thread of their own, VcmCapturer*)
(* is called back by a thread of WebRTC's capture module.  One source is   *)
(* alive at a time.  Where the code follows a null pointer, throws, fails  *)
(* a check or uses a deleted object the process has crashed, and the state *)
(* tells where.  Devices come and go while the program runs.               *)
(***************************************************************************)
EXTENDS CapturerFactory

CONSTANTS
    Layouts,        \* the devices that may be plugged in
    MaxChanges,     \* bound: how often they change
    Filters,        \* publish filters
    TypedUrls,      \* URLs that clients know without a list (the live sources are
                    \* the matter of other modules)
    Formats,        \* values of the option format
    Versions        \* contents of parameter sets, as positive numbers

ASSUME CapturersAssumption ==
    /\ Layouts \subseteq Machines /\ MaxChanges \in Nat
    /\ \A u \in TypedUrls \cup {Config[n] : n \in DOMAIN Config} : u.scheme \notin DOMAIN Live
    /\ "H264" \in Formats /\ Versions \subseteq Nat \ {0}

VARIABLES
    filter, useNull,  \* options of the program
    pairs,          \* m_videoaudiomap
    machine,        \* the devices that are plugged in
    boot,           \* history: those at the start of the program
    changes,        \* how often they have changed
    picked,         \* the entry that a client takes from a list, with the devices when
                    \* the list was made (history), or None
    source,         \* the source: its class, URL, encoder and format
    object,         \* "none", "starting", "live", "stopping", "deleted"
    thread,         \* "none", "loop", "busy", "module", "ended"
    stop,           \* m_stop, or not m_isrunning
    sps, pps,       \* m_sps and m_pps: a version, or 0 for a null pointer
    latest,         \* history: the parameter sets that the device sent last
    device,         \* the camera: "good", "silent" (no buffers any more), "gone"
    out,            \* the last frame given to the encoders, or None
    process         \* "up", "crashed"

options == <<filter, useNull, pairs, boot>>
devices == <<machine, changes>>
world == <<options, devices>>
sets == <<sps, pps, latest>>
vars == <<world, picked, source, object, thread, stop, sets, device, out, process>>

NoSets == [sps |-> 0, pps |-> 0]

Init ==
    /\ machine \in Layouts /\ filter \in Filters /\ useNull \in BOOLEAN
    /\ boot = machine /\ changes = 0
    /\ \E video \in VideoDevices(machine.node), audio \in AudioDevices(machine.card) :
          pairs = V4l2AlsaMap(video, audio)
    /\ picked = None /\ source = None /\ object = "none" /\ thread = "none"
    /\ stop = FALSE
    /\ sps = 0 /\ pps = 0 /\ latest = NoSets
    /\ device = "good" /\ out = None /\ process = "up"

Up == process = "up"
Crash == process' = "crashed"

-----------------------------------------------------------------------------
(* The API functions.                                                      *)

\* A device is plugged in or pulled out, or its files get other numbers.
Plug ==
    /\ Up /\ changes < MaxChanges
    /\ machine' \in Layouts \ {machine} /\ changes' = changes + 1
    /\ UNCHANGED <<options, picked, source, object, thread, stop, sets, device, out, process>>

\* A client gets the list of the devices that are plugged in now, with the sound cards of
\* the map that was made at the start, and picks an entry.  (Lists made while a source runs
\* only lack the device that is in use.)
GetMediaList ==
    /\ Up /\ object \in {"none", "deleted"}
    /\ \E opens \in SUBSET CaptureNodes(machine.node) :
          \E entry \in MediaList(filter, useNull, machine.node, opens, pairs) :
              picked' = [video |-> entry.video, audio |-> entry.audio, listing |-> machine]
    /\ UNCHANGED <<world, source, object, thread, stop, sets, device, out, process>>

\* The members of a new object.
Create(class, url, null, format, listed) ==
    /\ source' = [class |-> class, url |-> url, null |-> null, format |-> format,
                  listed |-> listed]
    /\ stop' = FALSE /\ sps' = 0 /\ pps' = 0
    /\ latest' = NoSets /\ device' = "good" /\ out' = None /\ picked' = None
    /\ UNCHANGED world

\* Nothing is left of an object whose Init has failed.
Fails == object' = "none" /\ thread' = "none" /\ UNCHANGED process

\* The process ends before there is a source.
CreateCrashes == object' = "none" /\ thread' = "none" /\ Crash

\* V4l2Capturer::Init: the thread is started when the device could be opened.
V4l2Init == \/ Fails
            \/ object' = "live" /\ thread' = "loop" /\ UNCHANGED process

\* DesktopCapturer::Start: the thread is started first; without a display there is no
\* m_capturer to start next.
DesktopStart == /\ object' = "starting" /\ thread' = "loop"
                /\ Crash \/ UNCHANGED process

\* VcmCapturer::Init: another scheme or number is not found, or the module cannot start;
\* Destroy has then undone what was done.  device_info and m_vcm may be null and are not
\* tested, and a module that has not started fails RTC_CHECK.
VcmInit(url) ==
    \/ Fails
    \/ CreateCrashes
    \/ /\ url.scheme = "videocap"
       /\ url.id \in 0..Cardinality(CaptureNodes(machine.node)) - 1
       /\ object' = "live" /\ thread' = "module" /\ UNCHANGED process

\* AddStreams with a URL from a list or a typed one; the option nullcodec adds to the
\* program's.  std::stoi throws at a width, height or fps that is no number, and nothing
\* catches it.
AddStream ==
    /\ Up /\ object \in {"none", "deleted"}
    /\ \E typed \in BOOLEAN, option \in BOOLEAN, format \in Formats, numbers \in BOOLEAN :
       \E given \in IF typed THEN TypedUrls ELSE {q.video : q \in {picked} \ {None}} :
          LET url == Resolve(given)
              class == CreateVideoSource(url.scheme, filter)
          IN
          /\ ~typed => ~option /\ format = "H264" /\ numbers
          /\ Create(class, url, useNull \/ option, format, ~typed /\ given = url)
          /\ IF class # None /\ ~numbers
             THEN CreateCrashes
             ELSE CASE class = "V4l2Capturer" -> V4l2Init
                    [] class \in {"ScreenCapturer", "WindowCapturer"} -> DesktopStart
                    [] class = "VcmCapturer" -> VcmInit(url)
                    [] OTHER -> Fails

\* m_capturer->Start(this), after the thread was started.
DesktopStarted ==
    /\ Up /\ object = "starting" /\ object' = "live"
    /\ UNCHANGED <<world, picked, source, thread, stop, sets, device, out, process>>

\* The last track with the source is gone: the destructor begins.
Release ==
    /\ Up /\ object = "live" /\ object' = "stopping"
    /\ stop' = TRUE
    /\ UNCHANGED <<world, picked, source, thread, sets, device, out, process>>

\* A mutant of Joined: the thread is not waited for.
Joined_Detached == TRUE

\* The capture thread has ended, or StopCapture has stopped the module's.
Joined == thread \in {"ended", "module"}

\* The members are destroyed.
Deleted ==
    /\ Up /\ object = "stopping" /\ object' = "deleted"
    /\ Joined
    /\ thread' = IF thread = "module" THEN "ended" ELSE thread
    /\ sps' = 0 /\ pps' = 0 /\ latest' = NoSets /\ device' = "good" /\ out' = None
    /\ UNCHANGED <<world, picked, source, stop, process>>

-----------------------------------------------------------------------------
(* The capture threads.                                                    *)

Thread(from, to) ==
    /\ Up /\ thread = from
    /\ IF object = "deleted" THEN Crash /\ UNCHANGED thread
                             ELSE thread' = to /\ UNCHANGED process
    /\ UNCHANGED <<world, picked, source, object, stop, device>>

LoopTest ==
    /\ Thread("loop", IF stop THEN "ended" ELSE "busy")
    /\ UNCHANGED <<sets, out>>

\* A mutant of V4l2Timeout: the thread waits for as long as the device is silent.
V4l2Timeout_Never == FALSE

\* isReadable gives up after a second.
V4l2Timeout ==
    /\ source # None /\ source.class = "V4l2Capturer"
    /\ Thread("busy", "loop")
    /\ UNCHANGED <<sets, out>>

\* A mutant of Remembered: the first parameter set is kept.
Remembered_First(old, sent, v) == IF sent /\ old = 0 THEN v ELSE old

\* A parameter set of the device replaces the one before.
Remembered(old, sent, v) == IF sent THEN v ELSE old

\* A buffer with the parameter sets `own' of version v, and an IDR or not.  An IDR without
\* parameter sets gets those remembered, through pointers that may be null; the log message
\* of every buffer follows them too when /api/log or -v has made the log verbose.
V4l2Read(own, v, idr, verbose) ==
    LET bare == idr /\ own = {}
        carried(set, kept) == IF set \in own THEN v ELSE IF bare THEN kept ELSE 0
        newSps == Remembered(sps, "sps" \in own, v)
        newPps == Remembered(pps, "pps" \in own, v)
    IN
    /\ source # None /\ source.class = "V4l2Capturer" /\ device = "good"
    /\ sps' = newSps /\ pps' = newPps
    /\ latest' = [set \in {"sps", "pps"} |-> IF set \in own THEN v ELSE latest[set]]
    /\ IF (bare \/ verbose) /\ 0 \in {newSps, newPps}
       THEN /\ Up /\ thread = "busy" /\ Crash
            /\ UNCHANGED <<world, picked, source, object, thread, stop, device, out>>
       ELSE /\ Thread("busy", "loop")
            /\ out' = [native |-> TRUE, format |-> source.format, key |-> idr, own |-> own,
                       sps |-> carried("sps", sps), pps |-> carried("pps", pps)]

\* The read from a camera that is gone returns -1, which is used as the size of a buffer.
V4l2ReadFails ==
    /\ device = "gone"
    /\ Up /\ thread = "busy" /\ Crash
    /\ UNCHANGED <<world, picked, source, object, thread, stop, device, sets, out>>

\* A frame of pixels.
Picture == [native |-> FALSE, format |-> "I420", key |-> FALSE, own |-> {}, sps |-> 0, pps |-> 0]

\* CaptureFrame calls OnCaptureResult, with a frame that can be converted or not; before
\* Start it has no one to call.
DesktopCapture ==
    /\ source # None /\ source.class \in {"ScreenCapturer", "WindowCapturer"}
    /\ IF object = "starting"
       THEN /\ Up /\ thread = "busy" /\ Crash
            /\ UNCHANGED <<world, picked, source, object, thread, stop, device, sets, out>>
       ELSE /\ Thread("busy", "loop")
            /\ out' \in {out, Picture}
            /\ UNCHANGED sets

\* VcmCapturer::OnFrame.
VcmFrame ==
    /\ Thread("module", "module")
    /\ out' = Picture
    /\ UNCHANGED sets

\* The camera hangs or is unplugged.
Fault ==
    /\ Up /\ object \in {"live", "stopping"} /\ source.class = "V4l2Capturer"
    /\ device = "good" /\ device' \in {"silent", "gone"}
    /\ UNCHANGED <<world, picked, source, object, thread, stop, sets, out, process>>

-----------------------------------------------------------------------------
CaptureThread ==
    \/ LoopTest \/ V4l2Timeout \/ V4l2ReadFails \/ DesktopCapture \/ VcmFrame
    \/ \E own \in SUBSET {"sps", "pps"}, v \in Versions, idr \in BOOLEAN, verbose \in BOOLEAN :
          V4l2Read(own, v, idr, verbose)

Owner == DesktopStarted \/ Deleted

Next == Plug \/ GetMediaList \/ AddStream \/ Release \/ Owner \/ CaptureThread \/ Fault

\* The threads go on: isReadable and CaptureFrame return, and a constructor or a
\* destructor that has begun is carried on when it can be.
Spec == Init /\ [][Next]_vars /\ WF_vars(CaptureThread) /\ WF_vars(Owner)

-----------------------------------------------------------------------------
TypeOK ==
    /\ machine \in Layouts /\ boot \in Layouts /\ changes \in 0..MaxChanges
    /\ filter \in Filters /\ useNull \in BOOLEAN /\ stop \in BOOLEAN
    /\ object \in {"none", "starting", "live", "stopping", "deleted"}
    /\ thread \in {"none", "loop", "busy", "module", "ended"}
    /\ device \in {"good", "silent", "gone"}
    /\ sps \in Versions \cup {0} /\ pps \in Versions \cup {0}

\* A device, window or screen that is published can be watched: the frames of the source
\* that is made for its URL suit an encoder that the program makes with its null codec
\* option.  The lists, the choice of the source and the encoders each test that option or
\* the scheme by themselves.
PublishedSourcesFit ==
    source # None /\ out # None =>
        ~source.listed \/ \E encoder \in Encoders(source.null) : Accepts(encoder, out)

\* A published camera is paired with its own microphone, although getV4l2AlsaMap and
\* WebRTC number the cameras each by itself and the map is as old as the program.  There are
\* two exceptions: the first camera, whose entry is overwritten when another one has a file
\* that cannot capture, and numbers, of the camera or of the card, that mean other hardware
\* at the time of the list than at the start.
PairsShareHardware ==
    picked # None =>
        (picked.audio # None =>
            LET i == picked.video.id
                c == picked.audio
                listing == picked.listing
                first == CameraHardware(boot.node, i)
            IN
            \/ CardHardware(listing.card, c) = CameraHardware(listing.node, i)
            \/ /\ i = 0
               /\ \E n \in DOMAIN boot.node : ~boot.node[n].capture /\ boot.node[n].hw \notin first
            \/ CameraHardware(listing.node, i) # first
            \/ CardHardware(listing.card, c) # CardHardware(boot.card, c))

\* A key frame of a V4L2 device carries the parameter sets that the device sent last, so
\* that a viewer can start with it, unless the device itself put only one of them in the
\* frame's buffer.
KeyFramesCarryParameterSets ==
    out # None =>
        (out.key /\ Cardinality(out.own) # 1 =>
            out.sps = latest.sps /\ out.pps = latest.pps /\ 0 \notin {out.sps, out.pps})

\* The code of the capturers only brings the process down while a source is being created
\* (an option that is no number, a null device or display, a desktop thread that is faster
\* than its constructor) or in the thread of a V4L2 device that has not sent both parameter
\* sets yet or was unplugged: no thread ever uses a source that was deleted, and a source
\* of another class that is live never does.
CrashesAreKnown ==
    process = "crashed" =>
        \/ object \in {"none", "starting"}
        \/ /\ object # "deleted" /\ source.class = "V4l2Capturer"
           /\ 0 \in {sps, pps} \/ device = "gone"

\* The destructor of a source returns, even when its device is silent.
DestructorReturns == object = "stopping" ~> object = "deleted" \/ ~Up
=============================================================================
