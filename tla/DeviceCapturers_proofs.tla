----------------------- MODULE DeviceCapturers_proofs -----------------------
(***************************************************************************)
(* Proofs about DeviceCapturers and CapturerFactory, for any devices,      *)
(* sound cards, windows, screens, configuration and publish filters.       *)
(***************************************************************************)
EXTENDS DeviceCapturers, FiniteSetTheorems, TLAPS

\* m_videoaudiomap comes from the devices at the start.
PairsInv ==
    \E video \in VideoDevices(boot.node), audio \in AudioDevices(boot.card) :
        pairs = V4l2AlsaMap(video, audio)

\* What a client picked was in a list.
PickedInv ==
    picked # None =>
        \E opens \in SUBSET CaptureNodes(picked.listing.node) :
            \E entry \in MediaList(filter, useNull, picked.listing.node, opens, pairs) :
                picked.video = entry.video /\ picked.audio = entry.audio

\* The source of a published URL has the frames that the null codec option asks for.  (A
\* VcmCapturer may be made for any URL; without a device it never has a frame.)
SourceInv ==
    source # None /\ source.listed =>
        /\ source.class = "V4l2Capturer" => source.null /\ source.format = "H264"
        /\ source.class \in {"ScreenCapturer", "WindowCapturer"} => ~source.null
        /\ source.class = "VcmCapturer" /\ source.url.scheme = "videocap" => ~source.null

\* The thread of a deleted source has ended, a capture module belongs to a VcmCapturer,
\* and only V4L2 devices fail.
ThreadInv ==
    /\ object = "deleted" => thread = "ended"
    /\ thread = "module" => source.class = "VcmCapturer" /\ source.url.scheme = "videocap"
    /\ device # "good" => source.class = "V4l2Capturer"

\* The frames of a source are of its kind.
FrameInv ==
    out # None =>
        \/ source.class = "V4l2Capturer" /\ out.native /\ out.format = source.format
        \/ source.class \in {"ScreenCapturer", "WindowCapturer"} /\ ~out.native
        \/ source.class = "VcmCapturer" /\ source.url.scheme = "videocap" /\ ~out.native

\* The members are the parameter sets that the device sent last.
SetsInv == latest.sps = sps /\ latest.pps = pps

Inv ==
    /\ TypeOK /\ PairsInv /\ PickedInv /\ SourceInv /\ ThreadInv /\ FrameInv /\ SetsInv
    /\ KeyFramesCarryParameterSets /\ CrashesAreKnown

-----------------------------------------------------------------------------
(* The device files.                                                       *)

\* The files that the proofs are about: some of Nodes.
IsFiles(nd) == DOMAIN nd \subseteq Nodes

\* The files below another one are finite in number.
LEMMA FilesAreFinite ==
    ASSUME NEW nd, IsFiles(nd), NEW n
    PROVE  IsFiniteSet({m \in CaptureNodes(nd) : m < n})
<1>1. IsFiniteSet(0..63)
    <2>1. 0 \in Int /\ 63 \in Int
        OBVIOUS
    <2> QED
        BY <2>1, FS_Interval, Zenon
<1>2. {m \in CaptureNodes(nd) : m < n} \subseteq 0..63
    BY FactoryAssumption DEF CaptureNodes, IsFiles
<1> QED
    BY <1>1, <1>2, FS_Subset

\* Files that can capture have different indices: videoDev2Idx counts them.
LEMMA RankIncreases ==
    ASSUME NEW nd, IsFiles(nd), NEW n \in CaptureNodes(nd), NEW k \in CaptureNodes(nd), n < k
    PROVE  Rank(nd, n) # Rank(nd, k)
<1> DEFINE below(x) == {m \in CaptureNodes(nd) : m < x}
<1>1. n \in 0..63 /\ k \in 0..63
    BY FactoryAssumption DEF CaptureNodes, IsFiles
<1>2. below(n) \subseteq below(k)
    <2> SUFFICES ASSUME NEW m \in below(n) PROVE m < k
        OBVIOUS
    <2>1. m \in 0..63 /\ m < n
        BY FactoryAssumption DEF CaptureNodes, IsFiles
    <2> QED
        BY <1>1, <2>1
<1>3. n \in below(k) /\ n \notin below(n)
    BY <1>1
<1>4. IsFiniteSet(below(k))
    BY FilesAreFinite
<1>5. Cardinality(below(k)) # Cardinality(below(n))
    BY <1>2, <1>3, <1>4, FS_Subset
<1> QED
    BY <1>5 DEF Rank

\* WebRTC's i-th capture device is the file with the index i: both number the files that
\* can capture in the same order.
LEMMA SameNumbering ==
    ASSUME NEW nd, IsFiles(nd), NEW n \in CaptureNodes(nd)
    PROVE  CameraHardware(nd, DeviceIndex(nd, n)) = {nd[n].hw}
<1>1. DeviceIndex(nd, n) = Rank(nd, n)
    BY DEF DeviceIndex
<1>2. ASSUME NEW k \in CaptureNodes(nd), Rank(nd, k) = Rank(nd, n)
      PROVE  k = n
    <2>1. n \in 0..63 /\ k \in 0..63
        BY FactoryAssumption DEF CaptureNodes, IsFiles
    <2>2. ~(n < k) /\ ~(k < n)
        BY <1>2, RankIncreases
    <2> QED
        BY <2>1, <2>2
<1>3. {k \in CaptureNodes(nd) : Rank(nd, k) = Rank(nd, n)} = {n}
    BY <1>2
<1> QED
    BY <1>1, <1>3 DEF CameraHardware

\* The sound card of an index has the hardware of a file with that index, and the index
\* of a file that cannot capture is zero.
LEMMA PairedHardware ==
    ASSUME NEW nd, IsFiles(nd), NEW cd, NEW video \in VideoDevices(nd),
           NEW audio \in AudioDevices(cd), NEW i \in DOMAIN V4l2AlsaMap(video, audio)
    PROVE  LET own == CameraHardware(nd, i)
               card == V4l2AlsaMap(video, audio)[i]
           IN  \/ CardHardware(cd, card) = own
               \/ i = 0 /\ \E n \in DOMAIN nd : ~nd[n].capture /\ nd[n].hw \notin own
<1> DEFINE own == CameraHardware(nd, i)
           card == V4l2AlsaMap(video, audio)[i]
<1>1. i \in DOMAIN video /\ video[i] \in DOMAIN audio /\ card = audio[video[i]]
    BY DEF V4l2AlsaMap
<1>2. card \in DOMAIN cd /\ cd[card] = video[i]
    BY <1>1 DEF AudioDevices
<1>3. CardHardware(cd, card) = {video[i]}
    BY <1>2 DEF CardHardware
<1>4. PICK n \in DOMAIN nd : DeviceIndex(nd, n) = i /\ nd[n].hw = video[i]
    BY <1>1 DEF VideoDevices
<1>5. CASE n \in CaptureNodes(nd)
    <2>1. own = {nd[n].hw}
        BY <1>4, <1>5, SameNumbering
    <2> QED
        BY <1>3, <1>4, <2>1
<1>6. CASE n \notin CaptureNodes(nd)
    <2>1. i = 0 /\ ~nd[n].capture
        BY <1>4, <1>6 DEF DeviceIndex, CaptureNodes
    <2>2. CASE nd[n].hw \notin own
        BY <2>1, <2>2
    <2>3. CASE nd[n].hw \in own
        <3>1. PICK k \in CaptureNodes(nd) : Rank(nd, k) = i /\ nd[k].hw = nd[n].hw
            BY <2>3 DEF CameraHardware
        <3>2. DeviceIndex(nd, k) = i
            BY <3>1 DEF DeviceIndex
        <3>3. own = {nd[k].hw}
            BY <3>1, <3>2, SameNumbering
        <3> QED
            BY <1>3, <1>4, <3>1, <3>3
    <2> QED
        BY <2>2, <2>3
<1> QED
    BY <1>5, <1>6

-----------------------------------------------------------------------------
(* The lists and the choice of the source.                                 *)

\* The schemes that are published, with and without the null codec.
LEMMA PublishedSchemes ==
    ASSUME NEW f, NEW null \in BOOLEAN, NEW nd, NEW opens, NEW prs,
           NEW entry \in MediaList(f, null, nd, opens, prs)
    PROVE  \/ entry.video.scheme = "v4l2" /\ null
           \/ entry.video.scheme \in {"videocap", "screen", "window"} /\ ~null
           \/ entry.video.scheme = "config"
<1> USE DEF Url
<1>1. CASE \E u \in VideoCaptureDeviceList(f, null, nd, opens) : entry.video = u
    BY <1>1 DEF VideoCaptureDeviceList
<1>2. CASE \E u \in VideoSourceList(f, null) : entry.video = u
    BY <1>2 DEF VideoSourceList
<1>3. CASE \E n \in DOMAIN Config : entry.video = Url("config", n)
    BY <1>3
<1> QED
    BY <1>1, <1>2, <1>3 DEF MediaList

\* Only entries of capture devices have a sound card.
LEMMA ListedAudio ==
    ASSUME NEW f, NEW null, NEW nd, NEW opens, NEW prs,
           NEW entry \in MediaList(f, null, nd, opens, prs), entry.audio # None
    PROVE  entry.video.id \in DOMAIN prs /\ entry.audio = prs[entry.video.id]
    BY DEF MediaList

\* Which schemes get which source.
LEMMA ClassOfScheme ==
    ASSUME NEW scheme, NEW f
    PROVE  LET class == CreateVideoSource(scheme, f) IN
           /\ class = "V4l2Capturer" => scheme = "v4l2"
           /\ class = "ScreenCapturer" => scheme = "screen"
           /\ class = "WindowCapturer" => scheme = "window"
<1>1. CASE scheme \in DOMAIN Class /\ FilterName(scheme) \in f
    <2>1. CreateVideoSource(scheme, f) = Class[scheme]
        BY <1>1 DEF CreateVideoSource
    <2> QED
        BY <1>1, <2>1 DEF Class, Live, Device
<1>2. CASE ~(scheme \in DOMAIN Class /\ FilterName(scheme) \in f)
    <2>1. CreateVideoSource(scheme, f) \in {"VcmCapturer", None}
        BY <1>2 DEF CreateVideoSource
    <2> QED
        BY <2>1, FactoryAssumption
<1> QED
    BY <1>1, <1>2

-----------------------------------------------------------------------------
(* The steps.                                                              *)

LEMMA InitInv == Init => Inv
<1> SUFFICES ASSUME Init PROVE Inv
    OBVIOUS
<1>1. PairsInv
    BY DEF Init, PairsInv
<1>2. TypeOK
    <2>1. changes \in 0..MaxChanges
        BY CapturersAssumption DEF Init
    <2> QED
        BY <2>1 DEF Init, TypeOK
<1>3. PickedInv /\ SourceInv /\ ThreadInv /\ FrameInv /\ SetsInv
    BY DEF Init, PickedInv, SourceInv, ThreadInv, FrameInv, SetsInv, NoSets
<1>4. KeyFramesCarryParameterSets /\ CrashesAreKnown
    BY DEF Init, KeyFramesCarryParameterSets, CrashesAreKnown
<1> QED
    BY <1>1, <1>2, <1>3, <1>4 DEF Inv

\* A new source is of the kind that was published for its URL.
LEMMA AddStreamInv == ASSUME Inv, AddStream PROVE Inv'
<1> USE DEF Inv
<1>1. PICK typed \in BOOLEAN, option \in BOOLEAN, format \in Formats, numbers \in BOOLEAN :
         \E given \in IF typed THEN TypedUrls ELSE {q.video : q \in {picked} \ {None}} :
            LET url == Resolve(given)
                class == CreateVideoSource(url.scheme, filter)
            IN
            /\ ~typed => ~option /\ format = "H264" /\ numbers
            /\ Create(class, url, useNull \/ option, format, ~typed /\ given = url)
            /\ IF class # None /\ ~numbers
               THEN CreateCrashes
               ELSE CASE class = "V4l2Capturer" -> V4l2Init
                      [] class \in {"ScreenCapturer", "WindowCapturer"} -> DesktopStart
                      [] class = "VcmCapturer" -> VcmInit(url)
                      [] OTHER -> Fails
    BY DEF AddStream
<1>2. PICK given \in IF typed THEN TypedUrls ELSE {q.video : q \in {picked} \ {None}} :
            LET url == Resolve(given)
                class == CreateVideoSource(url.scheme, filter)
            IN
            /\ ~typed => ~option /\ format = "H264" /\ numbers
            /\ Create(class, url, useNull \/ option, format, ~typed /\ given = url)
            /\ IF class # None /\ ~numbers
               THEN CreateCrashes
               ELSE CASE class = "V4l2Capturer" -> V4l2Init
                      [] class \in {"ScreenCapturer", "WindowCapturer"} -> DesktopStart
                      [] class = "VcmCapturer" -> VcmInit(url)
                      [] OTHER -> Fails
    BY <1>1
<1> DEFINE url == Resolve(given)
           class == CreateVideoSource(url.scheme, filter)
           listed == ~typed /\ given = url
<1>3. /\ source' = [class |-> class, url |-> url, null |-> useNull \/ option,
                    format |-> format, listed |-> listed]
      /\ stop' = FALSE /\ sps' = 0 /\ pps' = 0 /\ latest' = NoSets /\ device' = "good"
      /\ out' = None /\ picked' = None
      /\ UNCHANGED <<filter, useNull, pairs, boot, machine, changes>>
    BY <1>2 DEF Create, world, options, devices
<1>4. \/ object' = "none" /\ thread' = "none"
      \/ object' = "live" /\ thread' = "loop" /\ UNCHANGED process
      \/ object' = "starting" /\ thread' = "loop"
      \/ /\ class = "VcmCapturer" /\ url.scheme = "videocap"
         /\ object' = "live" /\ thread' = "module" /\ UNCHANGED process
    <2>0. CASE class # None /\ ~numbers
        BY <1>2, <2>0 DEF CreateCrashes
    <2> SUFFICES ASSUME ~(class # None /\ ~numbers)
                 PROVE  <1>4!:
        BY <2>0
    <2>1. CASE class = "V4l2Capturer"
        BY <1>2, <2>1 DEF V4l2Init, Fails
    <2>2. CASE class \in {"ScreenCapturer", "WindowCapturer"}
        BY <1>2, <2>2 DEF DesktopStart
    <2>3. CASE class = "VcmCapturer"
        BY <1>2, <2>3 DEF VcmInit, Fails, CreateCrashes
    <2>4. CASE class \notin {"V4l2Capturer", "ScreenCapturer", "WindowCapturer", "VcmCapturer"}
        BY <1>2, <2>4 DEF Fails
    <2> QED
        BY <2>1, <2>2, <2>3, <2>4
<1>5. Up
    BY DEF AddStream
<1>6. TypeOK' /\ PairsInv' /\ PickedInv' /\ FrameInv' /\ SetsInv'
    BY <1>3, <1>4 DEF TypeOK, PairsInv, PickedInv, FrameInv, SetsInv, NoSets
<1>7. ThreadInv'
    BY <1>3, <1>4 DEF ThreadInv
<1>8. KeyFramesCarryParameterSets' /\ CrashesAreKnown'
    BY <1>3, <1>4, <1>5 DEF KeyFramesCarryParameterSets, CrashesAreKnown, Up
<1>9. SourceInv'
    <2> SUFFICES ASSUME listed
                 PROVE  /\ class = "V4l2Capturer" => useNull \/ option
                        /\ class = "V4l2Capturer" => format = "H264"
                        /\ class \in {"ScreenCapturer", "WindowCapturer"} => ~(useNull \/ option)
                        /\ class = "VcmCapturer" /\ url.scheme = "videocap"
                              => ~(useNull \/ option)
        BY <1>3 DEF SourceInv
    <2>1. ~typed /\ ~option /\ format = "H264" /\ given = url
        BY <1>2
    <2>2. picked # None /\ url = picked.video
        BY <1>2, <2>1
    <2>3. PICK opens \in SUBSET CaptureNodes(picked.listing.node) :
             \E entry \in MediaList(filter, useNull, picked.listing.node, opens, pairs) :
                picked.video = entry.video
        BY <2>2 DEF PickedInv
    <2>4. useNull \in BOOLEAN
        BY DEF TypeOK
    <2>5. \/ url.scheme = "v4l2" /\ useNull
          \/ url.scheme \in {"videocap", "screen", "window"} /\ ~useNull
          \/ url.scheme = "config"
        BY <2>2, <2>3, <2>4, PublishedSchemes
    <2>6. /\ class = "V4l2Capturer" => url.scheme = "v4l2"
          /\ class = "ScreenCapturer" => url.scheme = "screen"
          /\ class = "WindowCapturer" => url.scheme = "window"
        BY ClassOfScheme
    <2> QED
        BY <2>1, <2>5, <2>6
<1> QED
    BY <1>6, <1>7, <1>8, <1>9

\* The other steps of clients and owners: the thread of a deleted source has ended.
LEMMA OwnerInv ==
    ASSUME Inv, Plug \/ GetMediaList \/ Release \/ DesktopStarted \/ Deleted \/ Fault
    PROVE  Inv'
<1> USE DEF Inv, world, options, devices, sets, Up
<1>1. CASE GetMediaList
    <2>1. PickedInv'
        BY <1>1 DEF GetMediaList, PickedInv
    <2> QED
        BY <1>1, <2>1 DEF GetMediaList, TypeOK, PairsInv, SourceInv, ThreadInv, FrameInv,
                          SetsInv, KeyFramesCarryParameterSets, CrashesAreKnown
<1>2. CASE Plug \/ Release \/ DesktopStarted \/ Fault
    <2>1. TypeOK'
        <3>1. changes' \in 0..MaxChanges
            BY <1>2, CapturersAssumption DEF Plug, Release, DesktopStarted, Fault, TypeOK
        <3> QED
            BY <1>2, <3>1 DEF Plug, Release, DesktopStarted, Fault, TypeOK
    <2>2. PairsInv' /\ PickedInv'
        BY <1>2 DEF Plug, Release, DesktopStarted, Fault, PairsInv, PickedInv
    <2>3. SourceInv' /\ ThreadInv'
        BY <1>2 DEF Plug, Release, DesktopStarted, Fault, SourceInv, ThreadInv
    <2>4. FrameInv' /\ SetsInv' /\ KeyFramesCarryParameterSets' /\ CrashesAreKnown'
        BY <1>2 DEF Plug, Release, DesktopStarted, Fault, FrameInv, SetsInv,
                    KeyFramesCarryParameterSets, CrashesAreKnown
    <2> QED
        BY <2>1, <2>2, <2>3, <2>4
<1>3. CASE Deleted
    <2>1. TypeOK' /\ PairsInv' /\ PickedInv' /\ SourceInv' /\ ThreadInv'
        BY <1>3 DEF Deleted, Joined, TypeOK, PairsInv, PickedInv, SourceInv, ThreadInv
    <2>2. FrameInv' /\ SetsInv' /\ KeyFramesCarryParameterSets' /\ CrashesAreKnown'
        BY <1>3 DEF Deleted, FrameInv, SetsInv, NoSets, KeyFramesCarryParameterSets,
                    CrashesAreKnown
    <2> QED
        BY <2>1, <2>2
<1> QED
    BY <1>1, <1>2, <1>3

\* A buffer of a V4L2 device: the parameter sets that are remembered are the last ones,
\* and a key frame has them all or the device sent just one of them with it.
LEMMA V4l2ReadInv ==
    ASSUME Inv, NEW own \in SUBSET {"sps", "pps"}, NEW v \in Versions, NEW idr \in BOOLEAN,
           NEW verbose \in BOOLEAN, V4l2Read(own, v, idr, verbose)
    PROVE  Inv'
<1> USE DEF Inv, world, options, devices, sets, Up
<1> DEFINE bare == idr /\ own = {}
           carried(set, kept) == IF set \in own THEN v ELSE IF bare THEN kept ELSE 0
           lacks == 0 \in {sps', pps'}
<1>0. /\ sps' = Remembered(sps, "sps" \in own, v)
      /\ pps' = Remembered(pps, "pps" \in own, v)
      /\ latest' = [set \in {"sps", "pps"} |-> IF set \in own THEN v ELSE latest[set]]
    BY DEF V4l2Read
<1>1. source.class = "V4l2Capturer" /\ Up /\ thread = "busy" /\ object # "deleted"
    BY DEF V4l2Read, Thread, ThreadInv
<1>2. SetsInv'
    BY <1>0 DEF SetsInv, Remembered
<1>3. CASE (bare \/ verbose) /\ lacks
    <2>1. /\ process' = "crashed"
          /\ UNCHANGED <<filter, useNull, pairs, boot, machine, changes, picked, source, object,
                         thread, stop, device, out>>
        BY <1>0, <1>3 DEF V4l2Read, Crash
    <2>2. TypeOK'
        BY <1>0, <2>1 DEF TypeOK, Remembered
    <2>3. PairsInv' /\ PickedInv' /\ SourceInv' /\ ThreadInv' /\ FrameInv'
        BY <2>1 DEF PairsInv, PickedInv, SourceInv, ThreadInv, FrameInv
    <2>4. CrashesAreKnown'
        BY <1>1, <1>3, <2>1 DEF CrashesAreKnown
    <2>5. KeyFramesCarryParameterSets'
        <3>1. sps = 0 \/ pps = 0
            BY <1>0, <1>3, CapturersAssumption DEF Remembered
        <3> QED
            BY <2>1, <3>1 DEF KeyFramesCarryParameterSets, SetsInv
    <2> QED
        BY <1>2, <2>2, <2>3, <2>4, <2>5
<1>4. CASE ~((bare \/ verbose) /\ lacks)
    <2>1. /\ thread' = "loop"
          /\ UNCHANGED <<filter, useNull, pairs, boot, machine, changes, picked, source, object,
                         stop, device, process>>
        BY <1>0, <1>1, <1>4 DEF V4l2Read, Thread
    <2>2. out' = [native |-> TRUE, format |-> source.format, key |-> idr, own |-> own,
                  sps |-> carried("sps", sps), pps |-> carried("pps", pps)]
        BY <1>0, <1>4 DEF V4l2Read
    <2>3. TypeOK'
        BY <1>0, <2>1 DEF TypeOK, Remembered
    <2>4. PairsInv' /\ PickedInv' /\ SourceInv' /\ ThreadInv'
        BY <1>1, <2>1 DEF PairsInv, PickedInv, SourceInv, ThreadInv
    <2>5. FrameInv' /\ CrashesAreKnown'
        BY <1>1, <2>1, <2>2 DEF FrameInv, CrashesAreKnown
    <2>6. KeyFramesCarryParameterSets'
        <3> SUFFICES ASSUME idr, Cardinality(own) # 1
                     PROVE  /\ carried("sps", sps) = latest'.sps
                            /\ carried("pps", pps) = latest'.pps
                            /\ carried("sps", sps) # 0 /\ carried("pps", pps) # 0
            BY <2>2 DEF KeyFramesCarryParameterSets
        <3>1. own # {"sps"} /\ own # {"pps"}
            BY FS_Singleton
        <3>2. own = {} \/ own = {"sps", "pps"}
            BY <3>1
        <3>3. v # 0
            BY CapturersAssumption
        <3>4. own = {} => sps # 0 /\ pps # 0
            BY <1>0, <1>4 DEF Remembered
        <3> QED
            BY <1>0, <3>2, <3>3, <3>4 DEF SetsInv
    <2> QED
        BY <1>2, <2>3, <2>4, <2>5, <2>6
<1> QED
    BY <1>3, <1>4

\* The other steps of the capture threads.
LEMMA ThreadStepInv ==
    ASSUME Inv, LoopTest \/ V4l2Timeout \/ V4l2ReadFails \/ DesktopCapture \/ VcmFrame
    PROVE  Inv'
<1> USE DEF Inv, world, options, devices, sets, Up
<1>1. CASE V4l2ReadFails
    BY <1>1 DEF V4l2ReadFails, Crash, TypeOK, PairsInv, PickedInv, SourceInv, ThreadInv,
                FrameInv, SetsInv, KeyFramesCarryParameterSets, CrashesAreKnown
<1>2. ASSUME NEW from \in {"loop", "busy", "module"}, NEW to, Thread(from, to),
             to \in {"loop", "busy", "ended", from},
             UNCHANGED <<sps, pps, latest>>,
             \/ UNCHANGED out
             \/ /\ out' = Picture
                /\ \/ source.class \in {"ScreenCapturer", "WindowCapturer"}
                   \/ from = "module"
      PROVE  Inv'
    <2>1. object # "deleted" /\ thread = from
        BY <1>2 DEF Thread, ThreadInv
    <2>2. /\ thread' = to
          /\ UNCHANGED <<filter, useNull, pairs, boot, machine, changes, picked, source, object,
                         stop, device, process>>
        BY <1>2, <2>1 DEF Thread
    <2>3. TypeOK' /\ PairsInv' /\ PickedInv' /\ SourceInv' /\ ThreadInv' /\ SetsInv'
        BY <1>2, <2>1, <2>2 DEF TypeOK, PairsInv, PickedInv, SourceInv, ThreadInv, SetsInv
    <2>4. FrameInv' /\ KeyFramesCarryParameterSets' /\ CrashesAreKnown'
        BY <1>2, <2>1, <2>2 DEF FrameInv, Picture, ThreadInv, KeyFramesCarryParameterSets,
                                CrashesAreKnown
    <2> QED
        BY <2>3, <2>4
<1>3. CASE LoopTest
    BY <1>2, <1>3 DEF LoopTest
<1>4. CASE V4l2Timeout
    BY <1>2, <1>4 DEF V4l2Timeout
<1>5. CASE VcmFrame
    BY <1>2, <1>5 DEF VcmFrame
<1>6. CASE DesktopCapture
    <2>1. CASE object = "starting"
        BY <1>6, <2>1 DEF DesktopCapture, Crash, TypeOK, PairsInv, PickedInv, SourceInv,
                          ThreadInv, FrameInv, SetsInv, KeyFramesCarryParameterSets,
                          CrashesAreKnown
    <2>2. CASE object # "starting"
        BY <1>2, <1>6, <2>2 DEF DesktopCapture
    <2> QED
        BY <2>1, <2>2
<1> QED
    BY <1>1, <1>3, <1>4, <1>5, <1>6

\* Inv is inductive.
LEMMA InvStep == Inv /\ [Next]_vars => Inv'
<1> SUFFICES ASSUME Inv, [Next]_vars PROVE Inv'
    OBVIOUS
<1>1. CASE UNCHANGED vars
    BY <1>1 DEF Inv, vars, world, options, devices, sets, TypeOK, PairsInv, PickedInv, SourceInv, ThreadInv,
                FrameInv, SetsInv, KeyFramesCarryParameterSets, CrashesAreKnown
<1>2. CASE Next
    BY <1>2, AddStreamInv, OwnerInv, V4l2ReadInv, ThreadStepInv DEF Next, Owner, CaptureThread
<1> QED
    BY <1>1, <1>2

LEMMA InvAlways == Spec => []Inv
    BY InitInv, InvStep, PTL DEF Spec

-----------------------------------------------------------------------------
\* The types of the variables.
THEOREM TypeCorrect == Spec => []TypeOK
    BY InvAlways, PTL DEF Inv

\* What is published can be watched, for every filter and both values of the null codec
\* option: the lists, the factory and the encoders agree.
THEOREM PublishedTheorem == Spec => []PublishedSourcesFit
<1>1. Inv => PublishedSourcesFit
    BY DEF Inv, SourceInv, FrameInv, PublishedSourcesFit, Encoders, Accepts
<1> QED
    BY <1>1, InvAlways, PTL

\* A published camera has the sound card of its own hardware, for any device files and any
\* sequence of changes: the two numberings of the files that can capture agree, so that only
\* the entry that operator[] made for the index zero can be wrong, and the numbers that mean
\* other hardware than at the start, when m_videoaudiomap was made.
THEOREM PairsTheorem == Spec => []PairsShareHardware
<1>1. Inv => PairsShareHardware
    <2> SUFFICES ASSUME Inv, picked # None, picked.audio # None,
                        LET i == picked.video.id
                            c == picked.audio
                        IN  /\ CameraHardware(picked.listing.node, i) = CameraHardware(boot.node, i)
                            /\ CardHardware(picked.listing.card, c) = CardHardware(boot.card, c)
                 PROVE  LET i == picked.video.id
                            first == CameraHardware(boot.node, i)
                        IN
                        \/ CardHardware(boot.card, picked.audio) = first
                        \/ /\ i = 0
                           /\ \E n \in DOMAIN boot.node :
                                 ~boot.node[n].capture /\ boot.node[n].hw \notin first
        BY DEF PairsShareHardware
    <2>1. PICK video \in VideoDevices(boot.node), audio \in AudioDevices(boot.card) :
             pairs = V4l2AlsaMap(video, audio)
        BY DEF Inv, PairsInv
    <2>2. picked.video.id \in DOMAIN pairs /\ picked.audio = pairs[picked.video.id]
        <3>1. PICK opens \in SUBSET CaptureNodes(picked.listing.node) :
                 \E entry \in MediaList(filter, useNull, picked.listing.node, opens, pairs) :
                    picked.video = entry.video /\ picked.audio = entry.audio
            BY DEF Inv, PickedInv
        <3> QED
            BY <3>1, ListedAudio
    <2>3. IsFiles(boot.node)
        BY CapturersAssumption DEF Inv, TypeOK, Machines, IsFiles
    <2> QED
        BY <2>1, <2>2, <2>3, PairedHardware
<1> QED
    BY <1>1, InvAlways, PTL

\* A key frame of a V4L2 device carries the parameter sets that the device sent last.
THEOREM KeyFramesTheorem == Spec => []KeyFramesCarryParameterSets
    BY InvAlways, PTL DEF Inv

\* The capturers bring the process down only while a source is being created, or in the
\* thread of a V4L2 device before both parameter sets or after it was unplugged, and never
\* because a capture thread outlives its source.
THEOREM CrashesTheorem == Spec => []CrashesAreKnown
    BY InvAlways, PTL DEF Inv
=============================================================================
