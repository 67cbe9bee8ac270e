------------------------ MODULE RtmpVideoSource_proofs ------------------------
(***************************************************************************)
(* Proofs about RtmpVideoSource for any configuration packets and backlog, *)
(* and about the scaler behind it (m_scaler of the base class              *)
(* VideoDecoder) for any options and frame sizes.  The two share no state: *)
(* the scaler is given the pictures that the decoder makes, of any size.   *)
(*                                                                         *)
(* The capture thread is shown to use the queue as VideoDecoder requires,  *)
(* so what VideoDecoder_proofs proves of any such thread holds here.       *)
(***************************************************************************)
EXTENDS RtmpVideoSource, VideoScaler, TLAPS

\* The theorems about the queue, for the formats and frames of this source.
P == INSTANCE VideoDecoder_proofs WITH Format <- Config, Content <- EncodedFrame

\* P and D are the same queue: the same variables, states and steps.
LEMMA SameRtmpQueue ==
    /\ D!DecoderInit => P!DecoderInit
    /\ [D!DecoderNext]_(D!queueVars) => [P!DecoderNext]_(P!queueVars)
<1> USE DEF P!postVars, D!postVars, P!stopVars, D!stopVars, P!decVars, D!decVars,
            P!queueVars, D!queueVars, P!EmptyFrame, D!EmptyFrame
<1>0. D!DecoderInit => P!DecoderInit
  BY DEF P!DecoderInit, D!DecoderInit
<1>1. \A m : D!Push(m) => P!Push(m)
  BY DEF P!Push, D!Push
<1>2. D!Post => P!Post
  BY <1>1 DEF P!Post, D!Post, P!postFormat, D!postFormat, P!PostFrame, D!PostFrame
<1>3. D!PostNotify => P!PostNotify
  BY DEF P!PostNotify, D!PostNotify, P!NotifyAll, D!NotifyAll
<1>4. D!DecoderThread => P!DecoderThread
  <2>1. D!CheckStop => P!CheckStop
    BY DEF P!CheckStop, D!CheckStop
  <2>2. D!GetFrameWait => P!GetFrameWait
    BY DEF P!GetFrameWait, D!GetFrameWait, P!Synchronises, D!Synchronises
  <2>3. D!GetFrame => P!GetFrame
    BY DEF P!GetFrame, D!GetFrame, P!Synchronises, D!Synchronises
  <2>4. D!SetFormat => P!SetFormat
    BY DEF P!SetFormat, D!SetFormat, P!KeepsDecoder, D!KeepsDecoder
  <2>5. D!SameFormat => P!SameFormat
    BY DEF P!SameFormat, D!SameFormat, P!KeepsDecoder, D!KeepsDecoder
  <2>6. D!Decode => P!Decode
    BY DEF P!Decode, D!Decode
  <2>7. QED
    BY <2>1, <2>2, <2>3, <2>4, <2>5, <2>6 DEF P!DecoderThread, D!DecoderThread
<1>5. D!SpuriousWakeUp => P!SpuriousWakeUp
  BY DEF P!SpuriousWakeUp, D!SpuriousWakeUp
<1>6. D!Stop => P!Stop
  BY DEF P!Stop, D!Stop, P!StopSet, D!StopSet, P!StopPush, D!StopPush, P!StopNotify,
         D!StopNotify, P!StopJoin, D!StopJoin, P!NotifyAll, D!NotifyAll
<1>7. D!DecoderNext => P!DecoderNext
  BY <1>2, <1>3, <1>4, <1>5, <1>6 DEF P!DecoderNext, D!DecoderNext
<1>8. QED
  BY <1>0, <1>7

\* Every H265 configuration packet has an SPS that can be parsed.
H265Parsed == <<"H265", 0>> \notin Config

\* The parameter sets in front of a message's key frame have the SPS of the format in
\* force for it, or one that could not be parsed.
SameSps(m) == m.content # None => m.content.sps \in {None, m.after} \cup Unparsed

\* The capture thread's own state, and its end before Stop.
RtmpControl ==
    /\ cfg \in Config \cup {None}
    /\ connected \in BOOLEAN
    /\ cpc \in {"loop", "connect", "read", "ended"}
    /\ closing \in BOOLEAN
    /\ up \in BOOLEAN
    /\ cpc # "ended" => stopper = "off"

\* The parameter sets are those of the last format posted, from the capture thread
\* to the decoder thread.
RtmpMessages ==
    /\ cfg \in {None, posted} \cup Unparsed
    /\ \A i \in DOMAIN queue : SameSps(queue[i])
    /\ SameSps(item)

RtmpInv == P!DecoderInv /\ RtmpControl /\ RtmpMessages

\* What the invariant of VideoDecoder says of this source's queue.
LEMMA RtmpDecoderFacts == P!DecoderInv => D!DecoderTypeOK /\ D!DecodedInItsFormat
<1>1. P!DecoderInv => D!DecoderTypeOK
  BY DEF P!DecoderInv, P!DecoderTypeOK, D!DecoderTypeOK, P!Frame, D!Frame
<1>2. P!DecoderInv => D!DecodedInItsFormat
  BY DEF P!DecoderInv, P!DecoderTypeOK, P!Current, D!DecodedInItsFormat, P!Frame
<1>3. QED
  BY <1>1, <1>2

\* Posting keeps the parameter sets in step.
LEMMA RtmpPost ==
    ASSUME D!DecoderTypeOK, RtmpMessages, NEW m, SameSps(m),
           D!Push(m), cfg' \in {None, m.after} \cup Unparsed
    PROVE  RtmpMessages'
<1>1. /\ queue' = Append(queue, m)
      /\ posted' = m.after
      /\ item' = item
  BY DEF D!Push, D!decVars
<1>2. queue \in Seq(D!Frame)
  BY DEF D!DecoderTypeOK
<1>3. \A i \in DOMAIN queue' : queue'[i] = m \/ (i \in DOMAIN queue /\ queue'[i] = queue[i])
  BY <1>1, <1>2
<1>4. QED
  BY <1>1, <1>3 DEF RtmpMessages, SameSps

\* A packet: at most one message is posted, and none once the thread has ended.
LEMMA RtmpPacket ==
    ASSUME D!DecoderTypeOK, RtmpControl, processVideoPacket
    PROVE  /\ RtmpControl'
           /\ RtmpMessages => RtmpMessages'
           /\ D!Post \/ UNCHANGED D!queueVars
<1> USE DEF D!queueVars, D!postVars, D!stopVars, D!decVars
<1>1. cpc = "read" /\ cpc' = "loop" /\ UNCHANGED <<connected, closing, up>>
  BY DEF processVideoPacket, OnConfig, OnLoneVps, OnKeyFrame, OnDelta,
         OnOther, Handled
<1>2. stopper = "off"
  BY <1>1 DEF RtmpControl
<1>3. ASSUME UNCHANGED queueVars
      PROVE  UNCHANGED <<queue, posted, item, stopper>> /\ UNCHANGED D!queueVars
  BY <1>3 DEF queueVars
<1>4. ASSUME stopper' = stopper, cfg' \in Config \cup {None}
      PROVE  RtmpControl'
  BY <1>1, <1>2, <1>4 DEF RtmpControl
<1>5. ASSUME NEW f \in Config, OnConfig(f)
      PROVE  /\ RtmpControl'
             /\ RtmpMessages => RtmpMessages'
             /\ D!Post \/ UNCHANGED D!queueVars
  <2>0. cfg' \in {None, f} /\ f # None
    BY <1>5, RtmpAssumption DEF OnConfig, Configured
  <2>1. CASE f[2] = 0
    <3>1. UNCHANGED queueVars
      BY <1>5, <2>1 DEF OnConfig
    <3>2. cfg' \in {None} \cup Unparsed
      <4>1. f = <<f[1], f[2]>> /\ f[1] \in {"H264", "H265"}
        BY <1>5, RtmpAssumption DEF Codecs
      <4>2. f[1] = "H264" \/ f \in Unparsed
        BY <2>1, <4>1 DEF Unparsed
      <4>3. QED
        BY <1>5, <2>1, <4>2 DEF OnConfig, Configured
    <3>3. RtmpControl'
      BY <1>3, <1>4, <1>5, <2>0, <3>1
    <3>4. RtmpMessages => RtmpMessages'
      BY <1>3, <3>1, <3>2 DEF RtmpMessages, SameSps
    <3>5. QED
      BY <1>3, <3>1, <3>3, <3>4
  <2>2. CASE f[2] # 0
    <3> DEFINE m == [format |-> f, content |-> None, after |-> f]
    <3>1. D!postFormat(f) /\ D!Push(m)
      BY <1>5, <2>2 DEF OnConfig, D!postFormat
    <3>2. SameSps(m) /\ m.after = f
      BY DEF SameSps
    <3> HIDE DEF m
    <3>3. stopper' = stopper
      BY <3>1 DEF D!Push
    <3>4. RtmpMessages => RtmpMessages'
      BY <2>0, <3>1, <3>2, RtmpPost
    <3>5. QED
      BY <1>2, <1>4, <1>5, <2>0, <3>1, <3>3, <3>4 DEF D!Post
  <2>3. QED
    BY <2>1, <2>2
<1>6. ASSUME NEW c \in EncodedFrame, D!PostFrame(c), cfg' = cfg, c.sps \in {None, cfg}
      PROVE  /\ RtmpControl'
             /\ RtmpMessages => RtmpMessages'
             /\ D!Post \/ UNCHANGED D!queueVars
  <2> DEFINE m == [format |-> None, content |-> c, after |-> posted]
  <2>1. D!Push(m)
    BY <1>6 DEF D!PostFrame
  <2>2. m.after = posted /\ m.content = c
    OBVIOUS
  <2> HIDE DEF m
  <2>3. stopper' = stopper
    BY <2>1 DEF D!Push
  <2>4. RtmpMessages => SameSps(m) /\ cfg' \in {None, m.after} \cup Unparsed
    BY <1>6, <2>2 DEF RtmpMessages, SameSps
  <2>5. RtmpMessages => RtmpMessages'
    BY <2>1, <2>4, RtmpPost
  <2>6. cfg' \in Config \cup {None}
    BY <1>6 DEF RtmpControl
  <2>7. QED
    BY <1>2, <1>4, <1>6, <2>3, <2>5, <2>6 DEF D!Post
<1>7. CASE OnKeyFrame
  <2>1. /\ D!PostFrame([key |-> TRUE, sps |-> cfg]) /\ cfg' = cfg
        /\ [key |-> TRUE, sps |-> cfg] \in EncodedFrame
    BY <1>7 DEF OnKeyFrame, EncodedFrame, RtmpControl
  <2>2. QED
    BY <1>6, <2>1
<1>8. CASE OnDelta
  <2>1. /\ D!PostFrame([key |-> FALSE, sps |-> None]) /\ cfg' = cfg
        /\ [key |-> FALSE, sps |-> None] \in EncodedFrame
    BY <1>8 DEF OnDelta, EncodedFrame
  <2>2. QED
    BY <1>6, <2>1
<1>9. CASE OnLoneVps \/ OnOther
  <2>1. UNCHANGED queueVars /\ cfg' \in {None, cfg}
    BY <1>9 DEF OnLoneVps, OnOther
  <2>2. RtmpControl'
    BY <1>3, <1>4, <2>1 DEF RtmpControl
  <2>3. RtmpMessages => RtmpMessages'
    BY <1>3, <2>1 DEF RtmpMessages, SameSps
  <2>4. QED
    BY <1>3, <2>1, <2>2, <2>3
<1>10. QED
  BY <1>5, <1>7, <1>8, <1>9 DEF processVideoPacket

\* The steps of the decoder thread and of Stop take messages out of the queue, and add
\* one without content.
LEMMA RtmpDecoderSide ==
    ASSUME D!DecoderTypeOK, RtmpControl, Notify \/ DecoderRuns \/ DecoderStop
    PROVE  /\ RtmpControl'
           /\ RtmpMessages => RtmpMessages'
           /\ D!PostNotify \/ D!DecoderThread \/ D!SpuriousWakeUp \/ D!Stop
<1> USE DEF D!postVars, D!stopVars, D!decVars
<1>1. D!PostNotify \/ D!DecoderThread \/ D!SpuriousWakeUp \/ D!Stop
  BY DEF Notify, DecoderRuns, DecoderStop
<1>2. UNCHANGED <<cfg, connected, cpc, closing, up>>
  BY DEF Notify, DecoderRuns, DecoderStop, rtmpVars
<1>3. posted' = posted
  BY <1>1 DEF D!PostNotify, D!SpuriousWakeUp, D!DecoderThread, D!CheckStop,
              D!GetFrameWait, D!GetFrame, D!SetFormat, D!SameFormat, D!Decode,
              D!Stop, D!StopSet, D!StopPush, D!StopNotify, D!StopJoin
<1>4. cpc # "ended" => stopper' = stopper
  <2>1. DecoderStop => cpc = "ended"
    BY DEF DecoderStop, Joined
  <2>2. D!PostNotify \/ D!DecoderThread \/ D!SpuriousWakeUp => stopper' = stopper
    BY DEF D!PostNotify, D!SpuriousWakeUp, D!DecoderThread, D!CheckStop,
           D!GetFrameWait, D!GetFrame, D!SetFormat, D!SameFormat, D!Decode
  <2>3. QED
    BY <2>1, <2>2 DEF Notify, DecoderRuns
<1>5. ASSUME RtmpMessages
      PROVE  RtmpMessages'
  <2>0. queue \in Seq(D!Frame) /\ item \in D!Frame
    BY DEF D!DecoderTypeOK
  <2>1. CASE UNCHANGED <<queue, item>>
    BY <1>2, <1>3, <1>5, <2>1 DEF RtmpMessages
  <2>2. CASE D!GetFrame
    <3>1. queue # <<>> /\ item' = Head(queue) /\ queue' = Tail(queue)
      BY <2>2 DEF D!GetFrame
    <3>2. 1 \in DOMAIN queue /\ Head(queue) = queue[1]
      BY <2>0, <3>1
    <3>3. \A i \in DOMAIN queue' : i + 1 \in DOMAIN queue /\ queue'[i] = queue[i + 1]
      BY <2>0, <3>1
    <3>4. QED
      BY <1>2, <1>3, <1>5, <3>1, <3>2, <3>3 DEF RtmpMessages
  <2>3. CASE D!Decode
    BY <1>2, <1>3, <1>5, <2>3 DEF D!Decode, D!EmptyFrame, RtmpMessages, SameSps
  <2>4. CASE D!StopPush
    <3>1. /\ queue' = Append(queue, [format |-> None, content |-> None, after |-> posted])
          /\ item' = item
      BY <2>4 DEF D!StopPush, D!EmptyFrame
    <3>2. \A i \in DOMAIN queue' :
             queue'[i].content = None \/ (i \in DOMAIN queue /\ queue'[i] = queue[i])
      BY <2>0, <3>1
    <3>3. QED
      BY <1>2, <1>3, <1>5, <3>1, <3>2 DEF RtmpMessages, SameSps
  <2>5. QED
    BY <1>1, <2>1, <2>2, <2>3, <2>4
    DEF D!PostNotify, D!SpuriousWakeUp, D!DecoderThread, D!CheckStop,
        D!GetFrameWait, D!SetFormat, D!SameFormat, D!Stop, D!StopSet,
        D!StopNotify, D!StopJoin
<1>6. RtmpControl'
  BY <1>2, <1>4 DEF RtmpControl
<1>7. QED
  BY <1>1, <1>5, <1>6

\* Every step of the source keeps its invariant and is a step of the queue or leaves it alone.
LEMMA RtmpStep ==
    ASSUME RtmpInv, [Next]_vars
    PROVE  RtmpInv' /\ [D!DecoderNext]_(D!queueVars)
<1>1. D!DecoderTypeOK /\ RtmpControl /\ RtmpMessages
  BY RtmpDecoderFacts DEF RtmpInv
<1>2. UNCHANGED queueVars => /\ UNCHANGED D!queueVars
                               /\ UNCHANGED <<queue, posted, stopper, item>>
  BY DEF queueVars, D!queueVars, D!postVars, D!stopVars, D!decVars
<1>3. /\ RtmpControl'
      /\ RtmpMessages'
      /\ [D!DecoderNext]_(D!queueVars)
  <2>1. CASE UNCHANGED vars \/ LoopTest \/ Connect \/ ReadFails \/ StopCapture
    <3>1. UNCHANGED queueVars /\ UNCHANGED cfg
      BY <2>1 DEF vars, rtmpVars, LoopTest, Connect, ReadFails, StopCapture
    <3>2. /\ connected' \in BOOLEAN /\ closing' \in BOOLEAN /\ up' \in BOOLEAN
          /\ cpc' \in {"loop", "connect", "read", "ended"}
          /\ cpc' # "ended" => cpc # "ended"
      BY <1>1, <2>1 DEF vars, rtmpVars, LoopTest, Connect, ReadFails,
                        StopCapture, RtmpControl
    <3>3. RtmpControl'
      BY <1>1, <1>2, <3>1, <3>2 DEF RtmpControl
    <3>4. RtmpMessages'
      BY <1>1, <1>2, <3>1 DEF RtmpMessages, SameSps
    <3>5. QED
      BY <1>2, <3>1, <3>3, <3>4
  <2>2. CASE processVideoPacket
    BY <1>1, <2>2, RtmpPacket DEF D!DecoderNext
  <2>3. CASE Notify \/ DecoderRuns \/ DecoderStop
    BY <1>1, <2>3, RtmpDecoderSide DEF D!DecoderNext
  <2>4. QED
    BY <2>1, <2>2, <2>3 DEF Next, CaptureThread
<1>4. P!DecoderInv'
  <2>1. [P!DecoderNext]_(P!queueVars)
    BY <1>3, SameRtmpQueue
  <2>2. None \notin Config /\ None \notin EncodedFrame /\ MaxQueue \in Nat
    BY RtmpAssumption
  <2>3. QED
    BY <2>1, <2>2, P!DecoderStep DEF RtmpInv
<1>5. QED
  BY <1>3, <1>4 DEF RtmpInv

\* The invariant, in every reachable state.
THEOREM RtmpAlways == Spec => []RtmpInv
<1>1. Init => RtmpInv
  <2> SUFFICES ASSUME Init PROVE RtmpInv
    OBVIOUS
  <2>1. None \notin Config /\ None \notin EncodedFrame /\ MaxQueue \in Nat
    BY RtmpAssumption
  <2>2. D!DecoderInit /\ P!DecoderInv
    BY <2>1, SameRtmpQueue, P!DecoderInitInv DEF Init
  <2>3. queue = <<>> /\ posted = None /\ stopper = "off" /\ item.content = None
    BY <2>2 DEF D!DecoderInit, D!EmptyFrame
  <2>4. RtmpControl
    BY <2>3 DEF Init, RtmpControl
  <2>5. RtmpMessages
    BY <2>3 DEF Init, RtmpMessages, SameSps
  <2>6. QED
    BY <2>2, <2>4, <2>5 DEF RtmpInv
<1>2. RtmpInv /\ [Next]_vars => RtmpInv'
  BY RtmpStep
<1>3. QED
  BY <1>1, <1>2, PTL DEF Spec

\* The types of the RTMP capture thread and of its queue.
THEOREM RtmpTypeCorrect == Spec => []TypeOK
<1>1. RtmpInv => TypeOK
  BY RtmpDecoderFacts DEF RtmpInv, RtmpControl, TypeOK
<1>2. QED
  BY RtmpAlways, <1>1, PTL

\* A key frame with an SPS is only fed to a decoder made for this SPS, or the SPS is an
\* H265 one that could not be parsed, whatever configuration packets come.
THEOREM RtmpKeyFramesTheorem == Spec => []KeyFramesMatchDecoder
<1>1. RtmpInv => KeyFramesMatchDecoder
  <2> SUFFICES ASSUME RtmpInv, dpc = "decode", item.content # None, decoder # None
               PROVE  item.content.sps \in {None, decoder} \cup Unparsed
    BY DEF KeyFramesMatchDecoder
  <2>1. decoder = item.after
    BY RtmpDecoderFacts DEF RtmpInv, D!DecodedInItsFormat
  <2>2. SameSps(item)
    BY DEF RtmpInv, RtmpMessages
  <2>3. QED
    BY <2>1, <2>2 DEF SameSps
<1>2. QED
  BY RtmpAlways, <1>1, PTL

\* The exception goes away when every H265 SPS that is sent can be parsed.
ExactKeyFrames ==
    dpc = "decode" /\ item.content # None /\ decoder # None =>
        item.content.sps \in {None, decoder}

THEOREM RtmpExactKeyFrames ==
    ASSUME H265Parsed
    PROVE  Spec => []ExactKeyFrames
<1>1. RtmpInv /\ KeyFramesMatchDecoder => ExactKeyFrames
  <2> SUFFICES ASSUME RtmpInv, KeyFramesMatchDecoder,
                      dpc = "decode", item.content # None, decoder # None
               PROVE  item.content.sps \in {None, decoder}
    BY DEF ExactKeyFrames
  <2>1. item.content \in EncodedFrame
    BY RtmpDecoderFacts DEF RtmpInv, D!DecoderTypeOK, D!Frame
  <2>2. item.content.sps = None \/ item.content.sps \notin Unparsed
    BY <2>1 DEF EncodedFrame, Unparsed, H265Parsed
  <2>3. QED
    BY <2>2 DEF KeyFramesMatchDecoder
<1>2. QED
  BY RtmpAlways, RtmpKeyFramesTheorem, <1>1, PTL

\* RtmpVideoSource implements VideoDecoder, whatever packets come: it posts one message
\* at a time and none once ~VideoDecoder runs.
THEOREM RtmpRefinement == Spec => ImplementsDecoder
<1>1. RtmpInv /\ [Next]_vars => [D!DecoderNext]_(D!queueVars)
  BY RtmpStep
<1>2. Init => D!DecoderInit
  BY DEF Init
<1>3. QED
  BY RtmpAlways, <1>1, <1>2, PTL DEF Spec, ImplementsDecoder, D!DecoderSpec

\* What the queue promises to its user, for the program that is this source and its
\* decoder thread; and the capture thread has ended before ~VideoDecoder stops the
\* decoder thread.
QueueKept ==
    /\ D!DecodedInItsFormat
    /\ D!NoLostWakeUp
    /\ D!StopIsPrompt
    /\ stopper # "off" => cpc = "ended"

\* What VideoDecoder_proofs shows of the queue under its contract holds of the whole
\* source, destructors included: frames are decoded in their format, no wake-up is
\* lost and the destructor waits for at most one message of the backlog.
THEOREM RtmpQueueTheorem == Spec => []QueueKept
<1>1. P!DecoderInv => D!NoLostWakeUp /\ D!StopIsPrompt
  BY DEF P!DecoderInv, P!DecoderTypeOK, P!Stopping, P!NoLostWakeUp, D!NoLostWakeUp,
         D!StopIsPrompt
<1>2. RtmpInv => QueueKept
  BY <1>1, RtmpDecoderFacts DEF RtmpInv, RtmpControl, QueueKept
<1>3. QED
  BY RtmpAlways, <1>2, PTL

-----------------------------------------------------------------------------
(* The scaler.                                                             *)

\* The region of one axis, of position p and extent e, after a frame of some size: it is
\* not empty, begins inside the frame and ends there, unless its sum is no int.
Settled(p, e, size) == /\ e > 0 /\ p < size
                       /\ p + e <= size \/ p + e > IntMax

\* Only the asked position and extent, of one axis, have a sum that is no int.
SmallUnlessAsked(p, e, ap, ae) == p + e <= IntMax \/ (p = ap /\ e = ae)

\* The inductive invariant: the types are needed for the arithmetic, and the region
\* of the last frame for the stability of the next one.
ScalerInv ==
    /\ ScalerTypeOK
    /\ AskedRegionIsKept
    /\ fw # 0 /\ fh # 0 => Settled(x, w, fw) /\ Settled(y, h, fh)
    /\ SmallUnlessAsked(x, w, asked.x, asked.w)
    /\ SmallUnlessAsked(y, h, asked.y, asked.h)

\* An int holds the numbers of its range as they are, and the sum of two ints that is
\* beyond it as a negative number.
LEMMA WrapLemma ==
    ASSUME NEW n \in 0..2 * IntMax
    PROVE  /\ n <= IntMax => Wrap(n) = n
           /\ n > IntMax => Wrap(n) < 0
<1> DEFINE r == 2 * (IntMax + 1)
<1>0. IntMax \in Nat /\ n \in Nat /\ r \in Nat /\ r > 0
  BY ScalerAssumption
<1>1. ASSUME n <= IntMax PROVE Wrap(n) = n
  <2>1. n + IntMax + 1 \in 0..r - 1
    BY <1>0, <1>1
  <2>2. (n + IntMax + 1) % r = n + IntMax + 1
    BY <1>0, <2>1, SMTT(30)
  <2> QED
    BY <1>0, <2>2 DEF Wrap
<1>2. ASSUME n > IntMax PROVE Wrap(n) < 0
  <2>1. n + IntMax + 1 - r \in 0..r - 1
    BY <1>0, <1>2
  <2>2. (n + IntMax + 1) % r = n + IntMax + 1 - r
    BY <1>0, <2>1, SMTT(30)
  <2>3. n + IntMax + 1 - r - (IntMax + 1) < 0
    BY <1>0
  <2> QED
    BY <1>0, <2>2, <2>3 DEF Wrap
<1> QED
  BY <1>1, <1>2

\* The two corrections of one axis in OnFrame.
LEMMA AxisLemma ==
    ASSUME NEW p \in 0..IntMax, NEW e \in 0..IntMax, NEW size \in 1..IntMax,
           NEW ap \in 0..IntMax, NEW ae \in 0..IntMax, SmallUnlessAsked(p, e, ap, ae)
    PROVE  LET q == Position(p, size)
               f == Extent(e, q, size)
           IN  /\ q \in 0..IntMax /\ f \in 0..IntMax
               /\ Settled(q, f, size)
               /\ SmallUnlessAsked(q, f, ap, ae)
               /\ p < size => q = p
<1> DEFINE q == Position(p, size)
           f == Extent(e, q, size)
<1>0. IntMax \in Nat
  BY ScalerAssumption
<1>1. q \in 0..IntMax /\ q < size /\ (q = p \/ q = 0) /\ (p < size => q = p)
  BY <1>0 DEF Position
<1> HIDE DEF q
<1>2. e + q \in 0..2 * IntMax
  BY <1>0, <1>1
<1>3. CASE e = 0 \/ Wrap(e + q) > size
  <2>1. f = size - q
    BY <1>3 DEF Extent
  <2> QED
    BY <1>0, <1>1, <2>1 DEF Settled, SmallUnlessAsked, q
<1>4. CASE e # 0 /\ ~(Wrap(e + q) > size)
  <2>1. f = e
    BY <1>4 DEF Extent
  <2>2. e + q <= IntMax => e + q <= size
    BY <1>0, <1>1, <1>2, <1>4, WrapLemma
  <2>3. Settled(q, e, size)
    BY <1>0, <1>1, <1>4, <2>2 DEF Settled
  <2>4. SmallUnlessAsked(q, e, ap, ae)
    BY <1>0, <1>1 DEF SmallUnlessAsked
  <2> QED
    BY <1>1, <2>1, <2>3, <2>4 DEF q
<1> QED
  BY <1>3, <1>4

\* The corrections of an axis leave a region alone that they have settled.
LEMMA SettledAxisLemma ==
    ASSUME NEW p \in 0..IntMax, NEW e \in 0..IntMax, NEW size \in 1..IntMax,
           Settled(p, e, size)
    PROVE  Position(p, size) = p /\ Extent(e, p, size) = e
<1>0. IntMax \in Nat /\ e + p \in 0..2 * IntMax
  BY ScalerAssumption
<1>1. Position(p, size) = p
  BY <1>0 DEF Position, Settled
<1>2. Wrap(e + p) \in Int
  <2>1. (e + p + IntMax + 1) % (2 * (IntMax + 1)) \in Int
    BY <1>0, SMTT(30)
  <2> QED
    BY <1>0, <2>1 DEF Wrap
<1>3. Wrap(e + p) <= size
  <2>1. CASE e + p <= IntMax
    <3>1. Wrap(e + p) = e + p
      BY <1>0, <2>1, WrapLemma
    <3> QED
      BY <1>0, <2>1, <3>1 DEF Settled
  <2>2. CASE e + p > IntMax
    <3>1. Wrap(e + p) < 0
      BY <1>0, <2>2, WrapLemma
    <3> QED
      BY <1>0, <1>2, <3>1
  <2> QED
    BY <1>0, <2>1, <2>2
<1>4. e # 0 /\ ~(Wrap(e + p) > size)
  BY <1>0, <1>2, <1>3 DEF Settled
<1> QED
  BY <1>1, <1>4 DEF Extent

\* What an int holds of a product is an integer, and so is its quotient.
LEMMA QuotientLemma ==
    ASSUME NEW n \in Int, NEW d \in Nat \ {0}
    PROVE  Quotient(Wrap(n), d) \in Int
<1>0. IntMax \in Nat /\ 2 * (IntMax + 1) \in Nat \ {0}
  BY ScalerAssumption
<1>1. (n + IntMax + 1) % (2 * (IntMax + 1)) \in Int
  BY <1>0, SMTT(30)
<1>2. Wrap(n) \in Int
  BY <1>0, <1>1 DEF Wrap
<1>3. \A m \in Int : m \div d \in Int
  BY SMTT(30)
<1>4. -Wrap(n) \in Int
  BY <1>2
<1>5. Wrap(n) \div d \in Int /\ (-Wrap(n)) \div d \in Int
  BY <1>2, <1>3, <1>4
<1>6. -((-Wrap(n)) \div d) \in Int
  BY <1>5
<1> QED
  BY <1>5, <1>6 DEF Quotient

\* The size of the output buffer for a region that is not empty.
LEMMA OutputLemma ==
    ASSUME NEW rw \in Nat \ {0}, NEW rh \in Nat \ {0}, width \in Int, height \in Int
    PROVE  OutputWidth(rw, rh) \in Int /\ OutputHeight(rw, rh) \in Int
<1>1. rw * height \in Int /\ rh * width \in Int
  OBVIOUS
<1>2. Quotient(Wrap(rw * height), rh) \in Int /\ Quotient(Wrap(rh * width), rw) \in Int
  BY <1>1, QuotientLemma
<1> QED
  BY <1>2 DEF OutputWidth, OutputHeight

\* The constructor leaves a region of naturals.
LEMMA ScalerInitInv == ScalerInit => ScalerInv
<1> SUFFICES ASSUME ScalerInit PROVE ScalerInv
  OBVIOUS
<1>1. \A o \in Option : Clamp(o) \in 0..IntMax
  BY ScalerAssumption DEF Clamp
<1>2. x \in 0..IntMax /\ y \in 0..IntMax /\ w \in 0..IntMax /\ h \in 0..IntMax
  BY <1>1 DEF ScalerInit
<1>3. ScalerTypeOK
  BY <1>2 DEF ScalerInit, ScalerTypeOK, Nothing
<1>4. AskedRegionIsKept /\ fw = 0
  BY DEF ScalerInit, AskedRegionIsKept
<1>5. asked.x = x /\ asked.y = y /\ asked.w = w /\ asked.h = h
  BY DEF ScalerInit
<1> QED
  BY <1>3, <1>4, <1>5 DEF ScalerInv, SmallUnlessAsked

\* A frame, whatever its size, preserves the invariant.
LEMMA ScalerStep == ScalerInv /\ [ScalerNext]_scalerVars => ScalerInv'
<1> SUFFICES ASSUME ScalerInv, [ScalerNext]_scalerVars PROVE ScalerInv'
  OBVIOUS
<1> USE DEF ScalerInv
<1>1. ASSUME NEW a \in Dim, NEW b \in Dim, NEW native \in BOOLEAN, OnFrame(a, b, native)
      PROVE  ScalerInv'
  <2> DEFINE px == Position(x, a)
             py == Position(y, b)
             ex == Extent(w, px, a)
             ey == Extent(h, py, b)
  <2>0. /\ a \in 1..IntMax /\ b \in 1..IntMax /\ IntMax \in Nat
        /\ width \in Int /\ height \in Int
    BY ScalerAssumption DEF ScalerTypeOK
  <2>1. /\ x \in 0..IntMax /\ y \in 0..IntMax /\ w \in 0..IntMax /\ h \in 0..IntMax
        /\ asked.x \in 0..IntMax /\ asked.y \in 0..IntMax
        /\ asked.w \in 0..IntMax /\ asked.h \in 0..IntMax
    BY DEF ScalerTypeOK
  <2>2. /\ px \in 0..IntMax /\ ex \in 0..IntMax /\ Settled(px, ex, a)
        /\ SmallUnlessAsked(px, ex, asked.x, asked.w) /\ (x < a => px = x)
    BY <2>0, <2>1, AxisLemma
  <2>3. /\ py \in 0..IntMax /\ ey \in 0..IntMax /\ Settled(py, ey, b)
        /\ SmallUnlessAsked(py, ey, asked.y, asked.h) /\ (y < b => py = y)
    BY <2>0, <2>1, AxisLemma
  <2>4. /\ x' = px /\ y' = py /\ w' = ex /\ h' = ey /\ fw' = a /\ fh' = b
        /\ UNCHANGED <<asked, width, height, rotated>>
    BY <1>1 DEF OnFrame
  <2>5. AskedRegionIsKept'
    <3> SUFFICES ASSUME fits'
                 PROVE  /\ px = asked.x /\ (asked.w > 0 => ex = asked.w)
                        /\ py = asked.y /\ (asked.h > 0 => ey = asked.h)
      BY <2>4 DEF AskedRegionIsKept
    <3>1. fits /\ asked.x < a /\ asked.x + asked.w <= a
               /\ asked.y < b /\ asked.y + asked.h <= b
      BY <1>1 DEF OnFrame
    <3>2. /\ x = asked.x /\ (asked.w > 0 => w = asked.w)
          /\ y = asked.y /\ (asked.h > 0 => h = asked.h)
      BY <3>1 DEF AskedRegionIsKept
    <3>3. px = asked.x /\ py = asked.y
      BY <2>0, <2>1, <2>2, <2>3, <3>1, <3>2
    <3> HIDE DEF px, py
    <3>4. ASSUME asked.w > 0 PROVE ex = asked.w
      <4>1. w = asked.w /\ Settled(px, w, a)
        BY <2>0, <2>1, <3>1, <3>2, <3>3, <3>4 DEF Settled
      <4> QED
        BY <2>0, <2>1, <2>2, <4>1, SettledAxisLemma
    <3>5. ASSUME asked.h > 0 PROVE ey = asked.h
      <4>1. h = asked.h /\ Settled(py, h, b)
        BY <2>0, <2>1, <3>1, <3>2, <3>3, <3>5 DEF Settled
      <4> QED
        BY <2>0, <2>1, <2>3, <4>1, SettledAxisLemma
    <3> QED
      BY <3>3, <3>4, <3>5
  <2>6. sent' \in [how : {"nothing", "frame", "crop", "scale"}, w : Int, h : Int]
    <3> HIDE DEF px, py, ex, ey
    <3>1. ex \in Nat \ {0} /\ ey \in Nat \ {0} /\ a \in Int /\ b \in Int
      BY <2>0, <2>2, <2>3 DEF Settled
    <3>2. OutputWidth(ex, ey) \in Int /\ OutputHeight(ex, ey) \in Int
      BY <2>0, <3>1, OutputLemma
    <3>3. \E how \in {"frame", "crop", "scale"} :
             sent' = IF how = "frame"
                     THEN [how |-> how, w |-> a, h |-> b]
                     ELSE [how |-> how, w |-> OutputWidth(ex, ey),
                           h |-> OutputHeight(ex, ey)]
      BY <1>1 DEF OnFrame, px, py, ex, ey
    <3> QED
      BY <3>1, <3>2, <3>3
  <2>7. fits' \in BOOLEAN
    BY <1>1 DEF OnFrame
  <2> HIDE DEF px, py, ex, ey
  <2>8. ScalerTypeOK'
    BY <2>2, <2>3, <2>4, <2>6, <2>7 DEF ScalerTypeOK
  <2> QED
    BY <2>2, <2>3, <2>4, <2>5, <2>8
<1>2. CASE UNCHANGED scalerVars
  BY <1>2 DEF scalerVars, roi, ScalerTypeOK, AskedRegionIsKept
<1> QED
  BY <1>1, <1>2 DEF ScalerNext

\* The conjunction of the invariants holds in every reachable state.
THEOREM ScalerInvariant == ScalerSpec => []ScalerInv
BY ScalerInitInv, ScalerStep, PTL DEF ScalerSpec

\* For all options that std::stoi may return and every sequence of frame sizes, the
\* position and the extent of the region stay ints that are not negative.
THEOREM ScalerTypes == ScalerSpec => []ScalerTypeOK
<1>1. ScalerInv => ScalerTypeOK
  BY DEF ScalerInv
<1> QED
  BY <1>1, ScalerInvariant, PTL

\* For all options that std::stoi may return and every sequence of frame sizes, the region
\* that OnFrame crops is never empty, so createOutputBuffer never divides by zero; it lies
\* inside the frame on every axis whose asked position and extent have an int for a sum.
THEOREM RegionTheorem == ScalerSpec => []RegionInsideFrame
<1>1. ScalerInv => RegionInsideFrame
  <2> SUFFICES ASSUME ScalerInv, fw # 0, fh # 0
               PROVE  /\ w > 0 /\ (asked.x + asked.w <= IntMax => x + w <= fw)
                      /\ h > 0 /\ (asked.y + asked.h <= IntMax => y + h <= fh)
    BY DEF RegionInsideFrame
  <2>1. /\ IntMax \in Nat /\ fw \in Int /\ fh \in Int
        /\ x \in 0..IntMax /\ y \in 0..IntMax /\ w \in 0..IntMax /\ h \in 0..IntMax
    BY ScalerAssumption DEF ScalerInv, ScalerTypeOK
  <2>2. Settled(x, w, fw) /\ Settled(y, h, fh)
    BY DEF ScalerInv
  <2>3. /\ asked.x + asked.w <= IntMax => x + w <= IntMax
        /\ asked.y + asked.h <= IntMax => y + h <= IntMax
    BY DEF ScalerInv, SmallUnlessAsked
  <2> QED
    BY <2>1, <2>2, <2>3 DEF Settled
<1> QED
  BY <1>1, ScalerInvariant, PTL

\* For every option and every sequence of frame sizes, a region that was asked for and
\* fits all the frames is never replaced by OnFrame's defaults.
THEOREM AskedTheorem == ScalerSpec => []AskedRegionIsKept
<1>1. ScalerInv => AskedRegionIsKept
  BY DEF ScalerInv
<1> QED
  BY <1>1, ScalerInvariant, PTL

\* OnFrame is idempotent on the region: a frame of the size of the one before leaves
\* the region alone.
THEOREM StabilityTheorem == ScalerSpec => RegionIsStable
<1>1. ScalerInv /\ [ScalerNext]_scalerVars => [fw' = fw /\ fh' = fh => UNCHANGED roi]_scalerVars
  <2> SUFFICES ASSUME ScalerInv, ScalerNext, fw' = fw, fh' = fh PROVE UNCHANGED roi
    OBVIOUS
  <2>1. PICK a \in Dim, b \in Dim, native \in BOOLEAN : OnFrame(a, b, native)
    BY DEF ScalerNext
  <2>2. a \in 1..IntMax /\ b \in 1..IntMax /\ fw = a /\ fh = b
    BY <2>1, ScalerAssumption DEF OnFrame
  <2>3. /\ x \in 0..IntMax /\ y \in 0..IntMax /\ w \in 0..IntMax /\ h \in 0..IntMax
        /\ Settled(x, w, a) /\ Settled(y, h, b)
    BY <2>2, ScalerAssumption DEF ScalerInv, ScalerTypeOK
  <2>4. /\ Position(x, a) = x /\ Extent(w, x, a) = w
        /\ Position(y, b) = y /\ Extent(h, y, b) = h
    BY <2>2, <2>3, SettledAxisLemma
  <2> QED
    BY <2>1, <2>4 DEF OnFrame, roi
<1> QED
  BY <1>1, ScalerInvariant, PTL DEF ScalerSpec, RegionIsStable
=============================================================================
