--------------------------- MODULE RtmpVideoSource ---------------------------
(***************************************************************************)
(* The capture thread of src/inc/rtmpvideosource.h on top of the queue of  *)
(* VideoDecoder.  The thread connects, reads packets and posts at most one *)
(* message for each video packet, until the destructor sets m_stop.        *)
(*                                                                         *)
(* A packet is abstracted to its codec, its kind and, for a configuration  *)
(* packet, the picture size that the parser of its SPS finds (0 when it    *)
(* cannot be parsed).  librtmp is external: it connects or not, and a read *)
(* returns a packet or fails, at the latest when its timeout is over.      *)
(***************************************************************************)
EXTENDS Naturals, Sequences

CONSTANTS
    Config,      \* the configuration packets: codec and picture size
    None,        \* no format, no parameter sets, null
    MaxQueue     \* bound: messages in the queue

Codecs == {"H264", "H265"}

\* A frame's content: the SPS in front of a key frame.
EncodedFrame == [key : BOOLEAN, sps : Config \cup {None}]

ASSUME RtmpAssumption ==
    /\ Config \subseteq Codecs \X Nat
    /\ None \notin Config \cup EncodedFrame
    /\ MaxQueue \in Nat

VARIABLES
    queue, posted, poster, stop, knows, stopper, dpc, item, format, decoder, popped,
    cfg,         \* m_cfg: the format of the SPS in it, None if it has none
    connected,   \* RTMP_IsConnected
    cpc,         \* where the capture thread is
    closing,     \* RtmpVideoSource::m_stop
    up           \* FALSE once freeing a packet that was never read ended the process

queueVars == <<queue, posted, poster, stop, knows, stopper, dpc, item, format, decoder,
               popped>>
rtmpVars  == <<cfg, connected, cpc, closing, up>>
vars      == <<queueVars, rtmpVars>>

D == INSTANCE VideoDecoder WITH Format <- Config, Content <- EncodedFrame

\* The types, and the backlog of the queue.
TypeOK ==
    /\ D!DecoderTypeOK
    /\ cfg \in Config \cup {None}
    /\ connected \in BOOLEAN
    /\ cpc \in {"loop", "connect", "read", "ended"}
    /\ closing \in BOOLEAN
    /\ up \in BOOLEAN

\* The constructor has started both threads.
Init ==
    /\ D!DecoderInit
    /\ cfg = None
    /\ connected = FALSE
    /\ cpc = "loop"
    /\ closing = FALSE
    /\ up = TRUE

-----------------------------------------------------------------------------
(* CaptureThread.                                                          *)

\* A mutant of LoopTest: the loop runs on while it is connected.
LoopTest_Connected ==
    /\ cpc = "loop" /\ poster = "idle"
    /\ cpc' = IF closing /\ ~connected THEN "ended" ELSE "connect"
    /\ UNCHANGED <<queueVars, cfg, connected, closing, up>>

\* while (!m_stop), after the last message has been notified.
LoopTest ==
    /\ cpc = "loop" /\ poster = "idle"
    /\ cpc' = IF closing THEN "ended" ELSE "connect"
    /\ UNCHANGED <<queueVars, cfg, connected, closing, up>>

\* RTMP_Connect and RTMP_ConnectStream, unless connected.
Connect ==
    /\ cpc = "connect"
    /\ connected' \in IF connected THEN {TRUE} ELSE BOOLEAN
    /\ cpc' = IF connected' THEN "read" ELSE "loop"
    /\ UNCHANGED <<queueVars, cfg, closing, up>>

\* The packet has been read and handled.
Handled ==
    /\ cpc = "read"
    /\ cpc' = "loop"
    /\ UNCHANGED <<connected, closing, up>>

\* A mutant of Configured: the parameter sets are kept in any case.
Configured_Always(f) == f

\* m_cfg after the configuration packet of f: H264 keeps the parameter sets only if
\* the SPS could be parsed, H265 always does.
Configured(f) == IF f[1] = "H264" /\ f[2] = 0 THEN None ELSE f

\* A configuration packet replaces the parameter sets and posts the format of an SPS
\* that could be parsed.
OnConfig(f) ==
    /\ Handled
    /\ cfg' = Configured(f)
    /\ IF f[2] = 0 THEN UNCHANGED queueVars ELSE D!postFormat(f)

\* An H265 configuration packet with a VPS that no SPS follows.
OnLoneVps ==
    /\ Handled
    /\ cfg' = None
    /\ UNCHANGED queueVars

\* The picture of a key frame is put behind the parameter sets.
OnKeyFrame ==
    /\ Handled
    /\ D!PostFrame([key |-> TRUE, sps |-> cfg])
    /\ UNCHANGED cfg

OnDelta ==
    /\ Handled
    /\ D!PostFrame([key |-> FALSE, sps |-> None])
    /\ UNCHANGED cfg

\* Audio, metadata, other codecs and other frame types.
OnOther ==
    /\ Handled
    /\ UNCHANGED <<queueVars, cfg>>

\* A read that fails leaves the packet uninitialised: freeing it does nothing or ends
\* the process.
ReadFails ==
    /\ cpc = "read"
    /\ cpc' = "loop"
    /\ connected' \in BOOLEAN
    /\ up' \in BOOLEAN
    /\ UNCHANGED <<queueVars, cfg, closing>>

\* A video packet, by its frame type and codec.
processVideoPacket ==
    \/ \E f \in Config : OnConfig(f)
    \/ OnLoneVps \/ OnKeyFrame \/ OnDelta \/ OnOther

-----------------------------------------------------------------------------
(* The destructors, and the decoder thread.                                *)

\* RtmpVideoSource::Stop sets its own m_stop.
StopCapture ==
    /\ ~closing
    /\ closing' = TRUE
    /\ UNCHANGED <<queueVars, cfg, connected, cpc, up>>

\* A mutant of Joined: the destructor does not wait for the capture thread.
Joined_Detached == closing

\* m_capturethread.join() comes before ~VideoDecoder and its Stop.
Joined == cpc = "ended"

DecoderStop ==
    /\ D!Stop
    /\ Joined
    /\ UNCHANGED rtmpVars

DecoderRuns ==
    /\ D!DecoderThread \/ D!SpuriousWakeUp
    /\ UNCHANGED rtmpVars

Notify ==
    /\ D!PostNotify
    /\ UNCHANGED rtmpVars

CaptureThread == LoopTest \/ Connect \/ processVideoPacket \/ ReadFails

Done == stopper = "joined" \/ ~up

Next ==
    \/ up /\ (CaptureThread \/ Notify \/ DecoderRuns \/ StopCapture \/ DecoderStop)
    \/ Done /\ UNCHANGED vars

\* Every thread runs, and librtmp returns from every call; nothing makes the owner
\* destroy the source.
Fairness ==
    /\ WF_vars(up /\ CaptureThread)
    /\ WF_vars(up /\ Notify)
    /\ WF_vars(up /\ D!DecoderThread /\ DecoderRuns)
    /\ WF_vars(up /\ DecoderStop)

Spec     == Init /\ [][Next]_vars
FairSpec == Spec /\ Fairness

-----------------------------------------------------------------------------
\* The capture thread uses the queue as VideoDecoder requires: one message at a time,
\* and none once ~VideoDecoder runs, because ~RtmpVideoSource joined it before.
ImplementsDecoder == D!DecoderSpec

\* The H265 SPS that cannot be parsed: it is kept in m_cfg although no format is posted
\* for it.
Unparsed == {<<"H265", 0>>}

\* A key frame whose parameter sets include an SPS is only fed to a decoder that was
\* made for this SPS, however many configuration packets, of both codecs, come between
\* the capture thread's m_cfg and the decoder thread's m_format.  An H265 SPS that
\* could not be parsed is the only exception.
KeyFramesMatchDecoder ==
    dpc = "decode" /\ item.content # None /\ decoder # None =>
        item.content.sps \in {None, decoder} \cup Unparsed

\* Destroying the source ends both threads, connected or not.
DestructorReturns == closing ~> stopper = "joined" \/ ~up
=============================================================================
