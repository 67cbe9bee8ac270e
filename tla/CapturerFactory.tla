--------------------------- MODULE CapturerFactory ---------------------------
(***************************************************************************)
(* How a URL becomes a video source, which URLs are published, and which   *)
(* frames the encoders accept: CapturerFactory.h, getMediaList,            *)
(* V4l2AlsaMap.h and the null codecs, as operators.                        *)
(*                                                                         *)
(* A URL is a record of its scheme and of what follows it.  The publish    *)
(* filter, a regular expression that is matched with "rtsp://" and so on,  *)
(* is the set of schemes it accepts.  All the features of the build are on.*)
(***************************************************************************)
EXTENDS Integers, FiniteSets

CONSTANTS
    Nodes,          \* the numbers n of the files /dev/video<n>
    Hardware,       \* where a device is plugged in: the device ids below /sys/class
    Cards,          \* numbers of the sound cards
    Windows, Screens,
    Config,         \* m_config: named streams and their video URLs
    None

ASSUME FactoryAssumption ==
    /\ Nodes \subseteq 0..63 /\ Cards \subseteq Nat
    /\ None \notin {"ScreenCapturer", "WindowCapturer", "V4l2Capturer", "VcmCapturer"}

Url(scheme, id) == [scheme |-> scheme, id |-> id]

Live == [rtsp |-> "RTSPVideoCapturer", rtsps |-> "RTSPVideoCapturer",
         file |-> "FileVideoCapturer", rtp |-> "RTPVideoCapturer",
         rtmp |-> "RtmpVideoSource"]
Device == [screen |-> "ScreenCapturer", window |-> "WindowCapturer", v4l2 |-> "V4l2Capturer"]
Class == [s \in DOMAIN Live \cup DOMAIN Device |->
             IF s \in DOMAIN Live THEN Live[s] ELSE Device[s]]

\* The name that the filter is matched with.
FilterName(scheme) == IF scheme = "rtsps" THEN "rtsp" ELSE scheme

\* The class of the source for a URL.  What no other branch takes is given to
\* VcmCapturer, whose Init refuses what is no videocap URL.
CreateVideoSource(scheme, filter) ==
    IF scheme \in DOMAIN Class /\ FilterName(scheme) \in filter THEN Class[scheme]
    ELSE IF "videocap" \in filter THEN "VcmCapturer" ELSE None

-----------------------------------------------------------------------------
(* The devices that are plugged in: `node' tells the hardware of a device  *)
(* file and whether it can capture, `card' the hardware of a sound card.   *)

Machines ==
    [node : UNION {[N -> [hw : Hardware, capture : BOOLEAN]] : N \in SUBSET Nodes},
     card : UNION {[C -> Hardware] : C \in SUBSET Cards}]

CaptureNodes(node) == {n \in DOMAIN node : node[n].capture}

\* The number of files below n that can capture.
Rank(node, n) == Cardinality({m \in CaptureNodes(node) : m < n})

\* The hardware of WebRTC's i-th capture device, if there is one, and of sound card c.
CameraHardware(node, i) == {node[n].hw : n \in {k \in CaptureNodes(node) : Rank(node, k) = i}}
CardHardware(card, c) == {card[k] : k \in DOMAIN card \cap {c}}

\* A mutant of DeviceIndex: the number in the file's name is taken for the index.
DeviceIndex_Number(node, n) == n

\* videoDev2Idx[n]; a file that cannot capture is not in the map, where operator[] then
\* inserts a zero.
DeviceIndex(node, n) == IF n \in CaptureNodes(node) THEN Rank(node, n) ELSE 0

\* The possible results of getVideoDevices: of the files with one index the directory
\* iterator may come to any one last.
VideoDevices(node) ==
    LET index == {DeviceIndex(node, n) : n \in DOMAIN node} IN
    {f \in [index -> Hardware] :
        \A i \in index : \E n \in DOMAIN node : DeviceIndex(node, n) = i /\ node[n].hw = f[i]}

\* The possible results of getAudioDevices.
AudioDevices(card) ==
    {f \in [{card[c] : c \in DOMAIN card} -> DOMAIN card] : \A d \in DOMAIN f : card[f[d]] = d}

\* getV4l2AlsaMap: the sound card with the id of the video device.
V4l2AlsaMap(video, audio) ==
    [i \in {j \in DOMAIN video : video[j] \in DOMAIN audio} |-> audio[video[i]]]

-----------------------------------------------------------------------------
(* What is published.  `opens' are the files that V4l2Capture::create can  *)
(* open for H264 while the list is made.                                   *)

\* A mutant of VideoCaptureDeviceList: capture devices are published with the null codec.
VideoCaptureDeviceList_Always(filter, null, node, opens) ==
    IF "videocap" \in filter
    THEN {Url("videocap", i) : i \in 0..Cardinality(CaptureNodes(node)) - 1} ELSE {}

VideoCaptureDeviceList(filter, null, node, opens) ==
    UNION {IF "videocap" \in filter /\ ~null
           THEN {Url("videocap", i) : i \in 0..Cardinality(CaptureNodes(node)) - 1} ELSE {},
           IF "v4l2" \in filter /\ null THEN {Url("v4l2", n) : n \in opens} ELSE {}}

VideoSourceList(filter, null) ==
    UNION {IF "window" \in filter /\ ~null THEN {Url("window", w) : w \in Windows} ELSE {},
           IF "screen" \in filter /\ ~null THEN {Url("screen", s) : s \in Screens} ELSE {}}

\* getMediaList: the devices with their sound cards, the other sources, and the names of
\* the configuration (its audio URLs are left out).
MediaList(filter, null, node, opens, pairs) ==
    LET audio(u) == IF u.scheme = "videocap" /\ u.id \in DOMAIN pairs THEN pairs[u.id] ELSE None
    IN {[video |-> u, audio |-> audio(u)] :
            u \in VideoCaptureDeviceList(filter, null, node, opens)}
       \cup {[video |-> u, audio |-> None] : u \in VideoSourceList(filter, null)}
       \cup {[video |-> Url("config", n), audio |-> None] : n \in DOMAIN Config}

\* AddStreams replaces the name of a configured stream.
Resolve(url) == IF url.scheme = "config" THEN Config[url.id] ELSE url

-----------------------------------------------------------------------------
(* Frames and encoders.                                                    *)

\* The encoders that the factories make: null encoders for two formats, or WebRTC's own.
Encoders(null) == IF null THEN {"H264", "H265"} ELSE {"builtin"}

\* NullEncoder::Encode refuses other buffers and other formats; WebRTC's encoders need
\* pixels, which an EncodedVideoFrameBuffer does not have.
Accepts(encoder, frame) ==
    IF encoder = "builtin" THEN ~frame.native
    ELSE frame.native /\ frame.format = encoder
=============================================================================
