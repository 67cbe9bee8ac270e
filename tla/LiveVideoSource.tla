--------------------------- MODULE LiveVideoSource ---------------------------
(***************************************************************************)
(* The capture thread of src/inc/livevideosource.h (RTSP and MKV sources)  *)
(* on top of the queue of VideoDecoder.  live555's main loop calls         *)
(* onNewSession and onData; onData cuts a buffer into NAL units, keeps the *)
(* parameter sets in m_cfg, posts a format for each SPS, a delta frame for *)
(* each slice and one key frame for all IDR slices of the buffer.          *)
(*                                                                         *)
(* Bytes are abstracted to the type of each NAL unit and, for an SPS, the  *)
(* picture size that its parser finds (0 when it cannot be parsed).  One   *)
(* video session is modelled; live555 may restart it with another codec.   *)
(***************************************************************************)
EXTENDS Naturals, Sequences, FiniteSets

CONSTANTS
    Codec,       \* codecs that a session may have, of Codecs
    Size,        \* picture sizes; 0 stands for an SPS that cannot be parsed
    Buffer,      \* for each codec the NAL unit sequences that onData may be given
    Time,        \* presentation times in milliseconds
    None,        \* no format, no codec, null
    FFmpeg,      \* is FFmpeg the decoder's implementation?
    MaxSlices,   \* bound: IDR slices of a buffer
    MaxQueue     \* bound: messages in the queue

Codecs   == {"H264", "H265", "JPEG", "VP9"}
SPS(s)   == <<"sps", s>>
Nalu     == {<<"vps">>, <<"pps">>, <<"sei">>, <<"empty">>, <<"idr">>, <<"slice">>}
              \cup {SPS(s) : s \in Size}
VideoFormat == Codec \X (Size \cup {0})

\* A frame's content: the SPS in front of a key frame, and its IDR slices.
EncodedFrame == [key : BOOLEAN, sps : VideoFormat \cup {None}, slices : 0..MaxSlices]

ParameterSet == {"vps", "sps", "pps"}

\* The IDR slices of a buffer.
Idrs(b) == {i \in DOMAIN b : b[i][1] = "idr"}

\* A buffer is a NAL unit or an access unit: no parameter set follows a slice of the
\* picture, and the slices of an IDR picture are all IDR slices (H.264, 7.4.1.2).
ASSUME BufferAssumption ==
    /\ Codec \subseteq Codecs
    /\ Size \subseteq Nat
    /\ Time \subseteq Nat
    /\ FFmpeg \in BOOLEAN
    /\ MaxQueue \in Nat /\ MaxSlices \in Nat
    /\ None \notin Codec \cup VideoFormat \cup EncodedFrame
    /\ \A c \in Codec : Buffer[c] \subseteq Seq(Nalu)
    /\ \A c \in Codec : \A b \in Buffer[c] : \A i, j \in DOMAIN b :
          /\ i < j /\ b[i][1] \in {"idr", "slice"} => b[j][1] \notin ParameterSet
          /\ b[i][1] = "idr" => b[j][1] # "slice"
    /\ \A c \in Codec : \A b \in Buffer[c] : Cardinality(Idrs(b)) <= MaxSlices

VARIABLES
    queue, posted, poster, stop, knows, stopper, dpc, item, format, decoder, popped,
    codec,       \* m_codec of the session, None before onNewSession
    cfg,         \* m_cfg: the format of the last SPS in it, None if it has none
    script,      \* the parameter sets of the SDP that onNewSession still has to give
    buf, pos,    \* onData's buffer and the position of its loop
    ts,          \* onData's local variable ts
    idr,         \* idrContent: a key frame being put together, or None
    prev,        \* m_prevTimestamp, which the constructor does not initialise
    cpc,         \* where the capture thread is
    dangling,    \* m_decoder was reset while the capture thread uses it
    closing,     \* LiveVideoSource::Stop has been called
    up           \* FALSE once a dangling pointer has ended the process

queueVars == <<queue, posted, poster, stop, knows, stopper, dpc, item, format, decoder,
               popped>>
loopVars  == <<codec, cfg, script, buf, pos, ts, idr, prev>>
liveVars  == <<loopVars, cpc, dangling, closing, up>>
vars      == <<queueVars, liveVars>>

Delta        == [key |-> FALSE, sps |-> None, slices |-> 0]
WholePicture == [key |-> TRUE, sps |-> None, slices |-> 0]

D == INSTANCE VideoDecoder WITH Format <- VideoFormat, Content <- EncodedFrame

\* The types; a key frame never has more slices than a buffer can have.
TypeOK ==
    /\ D!DecoderTypeOK
    /\ codec \in Codec \cup {None}
    /\ cfg \in VideoFormat \cup {None}
    /\ script \in Seq(Seq(Nalu))
    /\ buf \in Seq(Nalu) /\ pos \in 1..Len(buf) + 1
    /\ ts \in Time \cup {0} /\ prev \in Time \cup {0}
    /\ idr \in EncodedFrame \cup {None}
    /\ cpc \in {"loop", "nalu", "name", "vp9", "end", "ended"}
    /\ dangling \in BOOLEAN /\ closing \in BOOLEAN /\ up \in BOOLEAN

\* The constructor starts the decoder thread, then the capture thread.
Init ==
    /\ D!DecoderInit
    /\ codec = None
    /\ cfg = None
    /\ script = <<>>
    /\ buf = <<>> /\ pos = 1
    /\ ts = 0
    /\ prev \in Time \cup {0}
    /\ idr = None
    /\ cpc = "loop"
    /\ dangling = FALSE
    /\ closing = FALSE
    /\ up = TRUE

-----------------------------------------------------------------------------
(* onNewSession and onData.                                                *)

\* What getInitFrames finds in the SDP: the parameter sets, or nothing.  For H265 a
\* set that is not base64 gives an empty frame.
InitFrames(c) ==
    {<<>>} \cup
    CASE c = "H264" -> {<<<<SPS(s)>>, <<<<"pps">>>>>> : s \in Size}
      [] c = "H265" -> {<<v, s, p>> : v \in {<<>>, <<<<"vps">>>>},
                                      s \in {<<>>} \cup {<<SPS(x)>> : x \in Size},
                                      p \in {<<>>, <<<<"pps">>>>}}
      [] OTHER -> {}

onNewSession(c) ==
    /\ cpc = "loop" /\ script = <<>> /\ ~closing
    /\ codec' = c
    /\ script' \in InitFrames(c)
    /\ UNCHANGED <<queueVars, cfg, buf, pos, ts, idr, prev, cpc, dangling,
                   closing, up>>

\* The start of onData for buffer b at time t.
Enter(b, t) ==
    /\ buf' = b /\ pos' = 1 /\ ts' = t
    /\ cpc' = CASE codec \in {"H264", "H265"} -> "nalu"
                [] codec = "VP9" -> "vp9"
                [] OTHER -> "end"
    /\ UNCHANGED <<queueVars, codec, cfg, idr, prev, dangling, closing, up>>

\* live555 delivers a buffer.
onData(b, t) ==
    /\ cpc = "loop" /\ script = <<>> /\ ~closing
    /\ Enter(b, t)
    /\ UNCHANGED script

\* onNewSession hands the next parameter set of the SDP to onData, with time 0.
InitFrame ==
    /\ cpc = "loop" /\ script # <<>>
    /\ Enter(Head(script), 0)
    /\ script' = Tail(script)

\* The local variables of onData are gone.
LeaveScope == buf' = <<>> /\ pos' = 1 /\ ts' = 0 /\ idr' = None

\* The end of onData.  A JPEG picture has been given to Decoded, past the queue.
EndData ==
    /\ cpc = "end" /\ poster = "idle"
    /\ prev' = ts
    /\ cpc' = "loop"
    /\ LeaveScope
    /\ UNCHANGED <<queueVars, codec, cfg, script, dangling, closing, up>>

-----------------------------------------------------------------------------
(* onH264Data and onH265Data: one step for each NAL unit.                  *)

NaluIs(types) == cpc = "nalu" /\ poster = "idle" /\ pos <= Len(buf) /\ buf[pos][1] \in types

NextNalu == pos' = pos + 1

rest == <<codec, script, buf, ts, prev, dangling, closing, up>>

\* H264 passes over empty NAL units and SEI; H265 treats them as slices.
Ignored == codec = "H264" /\ NaluIs({"empty", "sei"})

SkipNalu ==
    /\ Ignored
    /\ NextNalu
    /\ UNCHANGED <<queueVars, rest, cfg, idr, cpc>>

\* m_cfg is cleared, then holds the VPS.
OnVps ==
    /\ NaluIs({"vps"})
    /\ cfg' = None
    /\ NextNalu
    /\ UNCHANGED <<queueVars, rest, idr, cpc>>

\* A mutant of PostSps: a format that could not be parsed is not posted.
PostSps_Parsed(s) ==
    IF s = 0
    THEN UNCHANGED queueVars
    ELSE D!postFormat(<<codec, s>>)

\* postFormat with the size of the SPS, or with 0 x 0.
PostSps(s) == D!postFormat(<<codec, s>>)

\* The SPS goes to m_cfg, which H264 clears before; of two SPS a decoder uses the
\* last.
OnSps ==
    /\ NaluIs({"sps"})
    /\ cfg' = <<codec, buf[pos][2]>>
    /\ PostSps(buf[pos][2])
    /\ NextNalu
    /\ UNCHANGED <<rest, idr, cpc>>

\* The PPS is added to m_cfg, whose SPS stays the same.
OnPps ==
    /\ NaluIs({"pps"})
    /\ NextNalu
    /\ UNCHANGED <<queueVars, rest, cfg, idr, cpc>>

\* IDR slices are gathered behind the parameter sets.
OnIdr ==
    /\ NaluIs({"idr"})
    /\ idr' = IF idr = None
              THEN [key |-> TRUE, sps |-> cfg, slices |-> 1]
              ELSE [idr EXCEPT !.slices = @ + 1]
    /\ NextNalu
    /\ UNCHANGED <<queueVars, rest, cfg, cpc>>

IsSlice == NaluIs({"slice", "sei", "empty"}) /\ ~Ignored

\* Is the buffer older than the one before, and is there a decoder to ask?
InThePast == prev # 0 /\ ts < prev /\ decoder # None

PostDelta ==
    /\ D!PostFrame(Delta)
    /\ NextNalu
    /\ cpc' = "nalu"

OnSlice ==
    /\ IsSlice
    /\ ~InThePast
    /\ PostDelta
    /\ UNCHANGED <<rest, cfg, idr>>

\* m_decoder is not null and its ImplementationName is about to be called, without
\* any lock.
OnPastSlice ==
    /\ IsSlice
    /\ InThePast
    /\ cpc' = "name"
    /\ UNCHANGED <<queueVars, rest, cfg, idr, pos>>

\* The name decides between dropping and posting; if the decoder thread has reset
\* m_decoder meanwhile the call may end the process.
OnImplementationName ==
    /\ cpc = "name"
    /\ \/ /\ FFmpeg \/ dangling
          /\ NextNalu
          /\ cpc' = "nalu"
          /\ UNCHANGED <<queueVars, up>>
       \/ /\ ~FFmpeg \/ dangling
          /\ PostDelta
          /\ UNCHANGED up
       \/ /\ dangling
          /\ up' = FALSE
          /\ UNCHANGED <<queueVars, pos, cpc>>
    /\ dangling' = FALSE
    /\ UNCHANGED <<codec, cfg, script, buf, ts, idr, prev, closing>>

\* After the loop the IDR slices are posted as one key frame.
PostKeyFrame ==
    /\ cpc = "nalu" /\ poster = "idle" /\ pos = Len(buf) + 1
    /\ IF idr = None THEN UNCHANGED queueVars ELSE D!PostFrame(idr)
    /\ cpc' = "end"
    /\ UNCHANGED <<rest, cfg, pos, idr>>

\* VP9: a format of size 0 x 0 and the whole buffer as a key frame.
OnVp9 ==
    /\ cpc = "vp9" /\ poster = "idle"
    /\ \/ /\ idr = None
          /\ D!postFormat(<<codec, 0>>)
          /\ idr' = WholePicture
          /\ UNCHANGED cpc
       \/ /\ idr # None
          /\ D!PostFrame(idr)
          /\ cpc' = "end"
          /\ UNCHANGED idr
    /\ UNCHANGED <<rest, cfg, pos>>

-----------------------------------------------------------------------------
(* The destructors, and the decoder thread.                                *)

\* LiveVideoSource::Stop asks live555's main loop to end.
StopCapture ==
    /\ ~closing
    /\ closing' = TRUE
    /\ UNCHANGED <<queueVars, loopVars, cpc, dangling, up>>

\* The main loop (external) returns once the running callback has.
CaptureEnds ==
    /\ closing
    /\ cpc = "loop" /\ script = <<>>
    /\ cpc' = "ended"
    /\ UNCHANGED <<queueVars, loopVars, dangling, closing, up>>

\* A mutant of Joined: the destructor does not wait for the capture thread.
Joined_Detached == closing

\* m_capturethread.join() comes before ~VideoDecoder and its Stop.
Joined == cpc = "ended"

DecoderStop ==
    /\ D!Stop
    /\ Joined
    /\ UNCHANGED liveVars

DecoderRuns ==
    /\ D!DecoderThread \/ D!SpuriousWakeUp
    /\ dangling' = (dangling \/ (cpc = "name" /\ decoder' # decoder))
    /\ UNCHANGED <<loopVars, cpc, closing, up>>

Notify ==
    /\ D!PostNotify
    /\ UNCHANGED liveVars

Capture ==
    \/ InitFrame \/ EndData \/ SkipNalu \/ OnVps \/ OnSps \/ OnPps \/ OnIdr \/ OnSlice
    \/ OnPastSlice \/ OnImplementationName \/ PostKeyFrame \/ OnVp9 \/ CaptureEnds

Done == stopper = "joined" \/ ~up

Next ==
    \/ /\ up
       /\ \/ \E c \in Codec : onNewSession(c)
          \/ codec # None /\ \E b \in Buffer[codec], t \in Time : onData(b, t)
          \/ Capture
          \/ Notify
          \/ DecoderRuns
          \/ StopCapture
          \/ DecoderStop
    \/ Done /\ UNCHANGED vars

Spec == Init /\ [][Next]_vars

-----------------------------------------------------------------------------
\* The capture thread uses the queue as VideoDecoder requires: one message at a time,
\* and none once ~VideoDecoder runs, because ~LiveVideoSource joined it before.
ImplementsDecoder == D!DecoderSpec

\* A key frame whose parameter sets include an SPS is only fed to a decoder that was
\* made for this SPS: m_cfg on the capture thread and m_format on the decoder thread
\* agree however far apart the two threads are, also across a change of codec.  Only
\* a VP9 session, which has no parameter sets, leaves those of an earlier one in m_cfg.
KeyFramesMatchDecoder ==
    dpc = "decode" /\ item.content # None /\ decoder # None =>
        \/ item.content.sps \in {None, decoder}
        \/ decoder[1] = "VP9"
=============================================================================
