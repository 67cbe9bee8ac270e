------------------------ MODULE LiveVideoSource_proofs ------------------------
(***************************************************************************)
(* Proofs about LiveVideoSource on top of VideoDecoder, for any codecs,    *)
(* sizes, buffers and backlog.  The argument is compositional: the capture *)
(* thread is shown to use the queue as VideoDecoder requires, so what      *)
(* VideoDecoder_proofs proves of any such thread holds here; and every     *)
(* message the capture thread posts is shown to carry parameter sets that  *)
(* fit the format in force.  Together they say what the decoder is fed.    *)
(***************************************************************************)
EXTENDS LiveVideoSource, FiniteSetTheorems, TLAPS

\* The theorems about the queue, for the formats and frames of this source.
P == INSTANCE VideoDecoder_proofs WITH Format <- VideoFormat, Content <- EncodedFrame

-----------------------------------------------------------------------------
(* P and D are the same instance of VideoDecoder.                          *)

\* The queue of D and that of P have the same variables, states and steps.
LEMMA SameQueue ==
    /\ D!DecoderInit => P!DecoderInit
    /\ [D!DecoderNext]_(D!queueVars) => [P!DecoderNext]_(P!queueVars)
<1> USE DEF P!postVars, D!postVars, P!stopVars, D!stopVars, P!decVars, D!decVars,
            P!queueVars, D!queueVars, P!EmptyFrame, D!EmptyFrame
<1>0. D!DecoderInit => P!DecoderInit
  BY DEF P!DecoderInit, D!DecoderInit
<1>1. \A m : D!Push(m) => P!Push(m)
  BY DEF P!Push, D!Push
<1>2. D!Post => P!Post
  BY <1>1 DEF P!Post, D!Post, P!postFormat, D!postFormat, P!PostFrame, D!PostFrame
<1>3. D!PostNotify => P!PostNotify
  BY DEF P!PostNotify, D!PostNotify, P!NotifyAll, D!NotifyAll
<1>4. D!DecoderThread => P!DecoderThread
  <2>1. D!CheckStop => P!CheckStop
    BY DEF P!CheckStop, D!CheckStop
  <2>2. D!GetFrameWait => P!GetFrameWait
    BY DEF P!GetFrameWait, D!GetFrameWait, P!Synchronises, D!Synchronises
  <2>3. D!GetFrame => P!GetFrame
    BY DEF P!GetFrame, D!GetFrame, P!Synchronises, D!Synchronises
  <2>4. D!SetFormat => P!SetFormat
    BY DEF P!SetFormat, D!SetFormat, P!KeepsDecoder, D!KeepsDecoder
  <2>5. D!SameFormat => P!SameFormat
    BY DEF P!SameFormat, D!SameFormat, P!KeepsDecoder, D!KeepsDecoder
  <2>6. D!Decode => P!Decode
    BY DEF P!Decode, D!Decode
  <2>7. QED
    BY <2>1, <2>2, <2>3, <2>4, <2>5, <2>6 DEF P!DecoderThread, D!DecoderThread
<1>5. D!SpuriousWakeUp => P!SpuriousWakeUp
  BY DEF P!SpuriousWakeUp, D!SpuriousWakeUp
<1>6. D!Stop => P!Stop
  BY DEF P!Stop, D!Stop, P!StopSet, D!StopSet, P!StopPush, D!StopPush, P!StopNotify,
         D!StopNotify, P!StopJoin, D!StopJoin, P!NotifyAll, D!NotifyAll
<1>7. D!DecoderNext => P!DecoderNext
  BY <1>2, <1>3, <1>4, <1>5, <1>6 DEF P!DecoderNext, D!DecoderNext
<1>8. QED
  BY <1>0, <1>7

\* The assumptions of VideoDecoder hold of this source's formats and frames, so its
\* inductive invariant may be used.
LEMMA DecoderInduction ==
    /\ P!DecoderInit => P!DecoderInv
    /\ P!DecoderInv /\ [P!DecoderNext]_(P!queueVars) => P!DecoderInv'
<1>1. None \notin VideoFormat /\ None \notin EncodedFrame /\ MaxQueue \in Nat
  BY BufferAssumption
<1>2. QED
  BY <1>1, P!DecoderInitInv, P!DecoderStep

\* What the invariant of VideoDecoder says of this source's queue.
LEMMA DecoderFacts ==
    P!DecoderInv => /\ D!DecoderTypeOK
                    /\ D!DecodedInItsFormat
<1>1. P!DecoderInv => D!DecoderTypeOK
  BY DEF P!DecoderInv, P!DecoderTypeOK, D!DecoderTypeOK, P!Frame, D!Frame
<1>2. P!DecoderInv => D!DecodedInItsFormat
  BY DEF P!DecoderInv, P!DecoderTypeOK, P!Current, D!DecodedInItsFormat, P!Frame
<1>3. QED
  BY <1>1, <1>2

-----------------------------------------------------------------------------
(* The inductive invariant.                                                *)

\* TypeOK without the queue.
LoopTypeOK ==
    /\ codec \in Codec \cup {None}
    /\ cfg \in VideoFormat \cup {None}
    /\ script \in Seq(Seq(Nalu))
    /\ buf \in Seq(Nalu) /\ pos \in 1..Len(buf) + 1
    /\ ts \in Time \cup {0} /\ prev \in Time \cup {0}
    /\ idr \in EncodedFrame \cup {None}
    /\ cpc \in {"loop", "nalu", "name", "vp9", "end", "ended"}
    /\ dangling \in BOOLEAN /\ closing \in BOOLEAN /\ up \in BOOLEAN

\* onH264Data or onH265Data runs.
Looping == {"nalu", "name"}

\* The destructor stops the decoder once the capture thread has ended; the codec is
\* that of a session while its data is handled; what is about to be dropped or posted
\* is a NAL unit of the buffer and no IDR slice.
ControlInv ==
    /\ cpc # "ended" => stopper = "off"
    /\ script # <<>> => codec \in Codec
    /\ cpc \in Looping => codec \in Codec
    /\ cpc = "vp9" => codec \in Codec /\ codec = "VP9"
    /\ cpc = "name" => pos <= Len(buf) /\ buf[pos][1] # "idr"

\* What onData is given, by live555 or from the SDP.
Wellformed(b) ==
    /\ \A i, j \in DOMAIN b : i < j /\ b[i][1] = "idr" => b[j][1] \notin ParameterSet
    /\ Cardinality(Idrs(b)) <= MaxSlices

BufferInv ==
    /\ Wellformed(buf)
    /\ \A i \in DOMAIN script : Wellformed(script[i])

\* Parameter sets with SPS s may go to a decoder for format f.
Fits(s, f) == s = None \/ s = f \/ (f # None /\ f[1] = "VP9")

\* The IDR slices that the loop has passed.
Gathered == {i \in Idrs(buf) : i < pos}

\* The key frame being put together has a slice for each IDR seen, and the parameter
\* sets in front of it fit the last format posted.
IdrInv ==
    /\ cpc = "loop" => idr = None
    /\ cpc = "vp9" => idr = None \/ idr = WholePicture
    /\ cpc \in Looping /\ idr # None =>
          /\ Gathered # {}
          /\ idr.slices <= Cardinality(Gathered)
          /\ Fits(idr.sps, posted)

\* The parameter sets in front of a message's key frame fit the format in force for it.
Good(m) == m.content # None => Fits(m.content.sps, m.after)

Messages ==
    /\ \A i \in DOMAIN queue : Good(queue[i])
    /\ Good(item)

LoopInv ==
    /\ LoopTypeOK
    /\ ControlInv
    /\ BufferInv
    /\ IdrInv
    /\ Fits(cfg, posted)
    /\ Messages

LiveInv == P!DecoderInv /\ LoopInv

\* The NAL unit at the position of the loop.
LEMMA NaluFacts ==
    ASSUME LoopTypeOK, pos <= Len(buf)
    PROVE  /\ pos \in DOMAIN buf
           /\ buf[pos] \in Nalu
           /\ buf[pos][1] = "sps" => buf[pos][2] \in Size
           /\ pos + 1 \in 1..Len(buf) + 1
<1>1. /\ pos \in DOMAIN buf
      /\ buf[pos] \in Nalu
      /\ pos + 1 \in 1..Len(buf) + 1
  BY DEF LoopTypeOK
<1>2. \A n \in Nalu : n[1] = "sps" => n[2] \in Size
  BY DEF Nalu, SPS
<1>3. QED
  BY <1>1, <1>2

\* Passing a NAL unit adds it to the gathered slices if it is one.
LEMMA GatheredStep ==
    ASSUME LoopTypeOK, Wellformed(buf), pos <= Len(buf), buf' = buf, pos' = pos + 1
    PROVE  /\ Cardinality(Gathered) \in Nat
           /\ buf[pos][1] # "idr" => Gathered' = Gathered
           /\ buf[pos][1] = "idr" => /\ Gathered' # {}
                                     /\ Cardinality(Gathered') = Cardinality(Gathered) + 1
                                     /\ Cardinality(Gathered') <= MaxSlices
<1>1. pos \in DOMAIN buf /\ pos \in Nat /\ DOMAIN buf = 1..Len(buf) /\ Len(buf) \in Nat
  BY NaluFacts DEF LoopTypeOK
<1>2. IsFiniteSet(Idrs(buf))
  <2>1. IsFiniteSet(1..Len(buf))
    BY <1>1, FS_Interval
  <2>2. QED
    BY <1>1, <2>1, FS_Subset DEF Idrs
<1>3. IsFiniteSet(Gathered) /\ Cardinality(Gathered) \in Nat
  BY <1>2, FS_Subset, FS_CardinalityType DEF Gathered
<1>4. \A i \in DOMAIN buf : i < pos + 1 <=> i < pos \/ i = pos
  BY <1>1
<1>5. buf[pos][1] # "idr" => Gathered' = Gathered
  BY <1>1, <1>4 DEF Gathered, Idrs
<1>6. ASSUME buf[pos][1] = "idr"
      PROVE  /\ Gathered' # {}
             /\ Cardinality(Gathered') = Cardinality(Gathered) + 1
             /\ Cardinality(Gathered') <= MaxSlices
  <2>1. Gathered' = Gathered \cup {pos} /\ pos \notin Gathered
    BY <1>1, <1>4, <1>6 DEF Gathered, Idrs
  <2>2. Cardinality(Gathered') = Cardinality(Gathered) + 1
    BY <1>3, <2>1, FS_AddElement
  <2>3. Gathered' \subseteq Idrs(buf)
    BY <1>1, <1>6, <2>1 DEF Gathered, Idrs
  <2>4. Cardinality(Gathered') <= Cardinality(Idrs(buf)) /\ Cardinality(Idrs(buf)) \in Nat
    BY <1>2, <2>3, FS_Subset, FS_CardinalityType
  <2>5. QED
    BY <1>3, <2>1, <2>2, <2>4, BufferAssumption DEF Wellformed
<1>7. QED
  BY <1>3, <1>5, <1>6

\* Buffers without IDR slices and with at most one NAL unit are well formed.
LEMMA ShortBuffers ==
    /\ Wellformed(<<>>)
    /\ \A n \in Nalu : n[1] # "idr" => Wellformed(<<n>>)
<1>0. Cardinality({}) = 0 /\ 0 <= MaxSlices
  BY FS_EmptySet, BufferAssumption
<1>1. Wellformed(<<>>)
  <2>1. Idrs(<<>>) = {}
    BY DEF Idrs
  <2>2. QED
    BY <1>0, <2>1 DEF Wellformed
<1>2. ASSUME NEW n \in Nalu, n[1] # "idr"
      PROVE  Wellformed(<<n>>)
  <2>1. DOMAIN <<n>> = {1} /\ <<n>>[1] = n
    OBVIOUS
  <2>2. Idrs(<<n>>) = {}
    BY <1>2, <2>1 DEF Idrs
  <2>3. \A i, j \in DOMAIN <<n>> : ~(i < j)
    BY <2>1
  <2>4. Cardinality(Idrs(<<n>>)) <= MaxSlices
    BY <1>0, <2>2
  <2>5. QED
    BY <2>3, <2>4 DEF Wellformed
<1>3. QED
  BY <1>1, <1>2

\* The frames that getInitFrames finds in the SDP are short.
LEMMA InitFramesAreShort ==
    ASSUME NEW c \in Codec, NEW f \in InitFrames(c)
    PROVE  f \in Seq(Seq(Nalu)) /\ \A i \in DOMAIN f : Wellformed(f[i])
<1> DEFINE Short == {<<>>} \cup {<<n>> : n \in {x \in Nalu : x[1] # "idr"}}
<1>1. ASSUME NEW b \in Short
      PROVE  b \in Seq(Nalu) /\ Wellformed(b)
  <2>1. CASE b = <<>>
    BY <2>1, ShortBuffers
  <2>2. CASE \E n \in Nalu : n[1] # "idr" /\ b = <<n>>
    BY <2>2, ShortBuffers
  <2>3. QED
    BY <2>1, <2>2
<1>2. /\ <<"pps">> \in Nalu /\ <<"pps">>[1] # "idr"
      /\ <<"vps">> \in Nalu /\ <<"vps">>[1] # "idr"
      /\ \A s \in Size : SPS(s) \in Nalu /\ SPS(s)[1] # "idr"
  BY DEF Nalu, SPS
<1>3. <<<<"pps">>>> \in Short /\ <<<<"vps">>>> \in Short /\ \A s \in Size : <<SPS(s)>> \in Short
  BY <1>2
<1>4. <<>> \in Short
  OBVIOUS
<1> HIDE DEF Short
<1>5. \/ f = <<>>
      \/ \E a, b \in Short : f = <<a, b>>
      \/ \E a, b, d \in Short : f = <<a, b, d>>
  <2>1. CASE c = "H264"
    BY <1>3, <2>1 DEF InitFrames
  <2>2. CASE c = "H265"
    <3>1. f = <<>> \/ \E a \in {<<>>, <<<<"vps">>>>},
                         b \in {<<>>} \cup {<<SPS(x)>> : x \in Size},
                         d \in {<<>>, <<<<"pps">>>>} : f = <<a, b, d>>
      BY <2>2 DEF InitFrames
    <3>2. QED
      BY <1>3, <1>4, <3>1
  <2>3. CASE c # "H264" /\ c # "H265"
    BY <2>3 DEF InitFrames
  <2>4. QED
    BY <2>1, <2>2, <2>3
<1>6. CASE f = <<>>
  BY <1>6
<1>7. ASSUME NEW a \in Short, NEW b \in Short, f = <<a, b>>
      PROVE  f \in Seq(Seq(Nalu)) /\ \A i \in DOMAIN f : Wellformed(f[i])
  <2>1. DOMAIN f = {1, 2} /\ f[1] = a /\ f[2] = b
    BY <1>7
  <2>2. QED
    BY <1>1, <1>7, <2>1
<1>8. ASSUME NEW a \in Short, NEW b \in Short, NEW d \in Short, f = <<a, b, d>>
      PROVE  f \in Seq(Seq(Nalu)) /\ \A i \in DOMAIN f : Wellformed(f[i])
  <2>1. DOMAIN f = {1, 2, 3} /\ f[1] = a /\ f[2] = b /\ f[3] = d
    BY <1>8
  <2>2. QED
    BY <1>1, <1>8, <2>1
<1>9. QED
  BY <1>5, <1>6, <1>7, <1>8

-----------------------------------------------------------------------------
(* The capture thread.                                                     *)

\* A step that leaves the queue alone leaves its messages, and what was posted.
LEMMA QueueStays ==
    ASSUME Messages, UNCHANGED queueVars
    PROVE  Messages' /\ posted' = posted /\ stopper' = stopper
BY DEF queueVars, Messages

\* Posting a good message keeps the messages good.
LEMMA PostKeeps ==
    ASSUME D!DecoderTypeOK, Messages, NEW m \in D!Frame, Good(m), D!Push(m)
    PROVE  Messages' /\ posted' = m.after /\ stopper' = stopper
<1>1. /\ queue' = Append(queue, m)
      /\ posted' = m.after
      /\ UNCHANGED <<stopper, item>>
  BY DEF D!Push, D!stopVars, D!decVars
<1>2. queue \in Seq(D!Frame)
  BY DEF D!DecoderTypeOK
<1>3. \A i \in DOMAIN queue' : queue'[i] = m \/ (i \in DOMAIN queue /\ queue'[i] = queue[i])
  BY <1>1, <1>2
<1>4. QED
  BY <1>1, <1>3 DEF Messages

\* Posting a frame whose parameter sets fit keeps the messages good.
LEMMA PostFrameKeeps ==
    ASSUME D!DecoderTypeOK, Messages, NEW c \in EncodedFrame, Fits(c.sps, posted),
           D!PostFrame(c)
    PROVE  Messages' /\ posted' = posted /\ stopper' = stopper
<1> DEFINE m == [format |-> None, content |-> c, after |-> posted]
<1>1. m \in D!Frame /\ m.content = c /\ m.after = posted
  BY DEF D!DecoderTypeOK, D!Frame
<1>2. Good(m)
  BY <1>1 DEF Good
<1>3. D!Push(m)
  BY DEF D!PostFrame
<1> HIDE DEF m
<1>4. QED
  BY <1>1, <1>2, <1>3, PostKeeps

\* Posting a format keeps the messages good.
LEMMA PostFormatKeeps ==
    ASSUME D!DecoderTypeOK, Messages, NEW f \in VideoFormat, D!postFormat(f)
    PROVE  Messages' /\ posted' = f /\ stopper' = stopper
<1> DEFINE m == [format |-> f, content |-> None, after |-> f]
<1>1. m \in D!Frame /\ m.content = None /\ m.after = f
  BY DEF D!Frame
<1>2. Good(m)
  BY <1>1 DEF Good
<1>3. D!Push(m)
  BY DEF D!postFormat
<1> HIDE DEF m
<1>4. QED
  BY <1>1, <1>2, <1>3, PostKeeps

\* Delta and whole pictures carry no parameter sets.
LEMMA PlainFrames ==
    /\ Delta \in EncodedFrame /\ Delta.sps = None
    /\ WholePicture \in EncodedFrame /\ WholePicture.sps = None
BY BufferAssumption DEF Delta, WholePicture, EncodedFrame

\* A new session, and the beginning and the end of onData.
LEMMA SessionStep ==
    ASSUME LoopInv,
           \/ \E c \in Codec : onNewSession(c)
           \/ codec # None /\ \E b \in Buffer[codec], t \in Time : onData(b, t)
           \/ InitFrame \/ EndData \/ StopCapture \/ CaptureEnds
    PROVE  LoopInv' /\ UNCHANGED queueVars
<1> USE DEF LoopInv
<1>0. ASSUME UNCHANGED queueVars
      PROVE  Messages' /\ posted' = posted /\ stopper' = stopper
  BY <1>0, QueueStays
<1>1. ASSUME NEW c \in Codec, onNewSession(c)
      PROVE  LoopInv' /\ UNCHANGED queueVars
  <2>1. /\ cpc = "loop" /\ codec' = c /\ script' \in InitFrames(c)
        /\ UNCHANGED <<queueVars, cfg, buf, pos, ts, idr, prev, cpc, dangling, closing, up>>
    BY <1>1 DEF onNewSession
  <2>2. script' \in Seq(Seq(Nalu)) /\ \A i \in DOMAIN script' : Wellformed(script'[i])
    BY <2>1, InitFramesAreShort
  <2>3. LoopTypeOK'
    BY <2>1, <2>2 DEF LoopTypeOK
  <2>4. ControlInv' /\ BufferInv' /\ IdrInv' /\ Fits(cfg, posted)'
    BY <1>0, <2>1, <2>2 DEF ControlInv, BufferInv, IdrInv, Looping
  <2>5. QED
    BY <1>0, <2>1, <2>3, <2>4
<1>2. ASSUME NEW b \in Seq(Nalu), NEW t \in Time \cup {0}, codec \in Codec, cpc = "loop",
             Wellformed(b), Enter(b, t),
             script' \in Seq(Seq(Nalu)), \A i \in DOMAIN script' : Wellformed(script'[i])
      PROVE  LoopInv' /\ UNCHANGED queueVars
  <2>1. /\ buf' = b /\ pos' = 1 /\ ts' = t
        /\ cpc' \in {"nalu", "vp9", "end"} /\ (cpc' = "vp9" => codec = "VP9")
        /\ UNCHANGED <<queueVars, codec, cfg, idr, prev, dangling, closing, up>>
    BY <1>2 DEF Enter
  <2>2. LoopTypeOK'
    BY <1>2, <2>1 DEF LoopTypeOK
  <2>3. idr' = None /\ stopper' = "off"
    BY <1>0, <1>2, <2>1 DEF IdrInv, ControlInv
  <2>4. ControlInv' /\ BufferInv' /\ IdrInv' /\ Fits(cfg, posted)'
    BY <1>0, <1>2, <2>1, <2>3 DEF ControlInv, BufferInv, IdrInv, Looping
  <2>5. QED
    BY <1>0, <2>1, <2>2, <2>4
<1>3. ASSUME codec # None, NEW b \in Buffer[codec], NEW t \in Time, onData(b, t)
      PROVE  LoopInv' /\ UNCHANGED queueVars
  <2>1. codec \in Codec /\ b \in Seq(Nalu)
    BY <1>3, BufferAssumption DEF LoopTypeOK
  <2>2. Wellformed(b)
    BY <1>3, <2>1, BufferAssumption DEF Wellformed
  <2>3. cpc = "loop" /\ Enter(b, t) /\ script' = script
    BY <1>3 DEF onData
  <2>4. script' \in Seq(Seq(Nalu)) /\ \A i \in DOMAIN script' : Wellformed(script'[i])
    BY <2>3 DEF LoopTypeOK, BufferInv
  <2>5. QED
    BY <1>2, <2>1, <2>2, <2>3, <2>4
<1>4. ASSUME InitFrame
      PROVE  LoopInv' /\ UNCHANGED queueVars
  <2>1. /\ cpc = "loop" /\ script # <<>> /\ script \in Seq(Seq(Nalu))
        /\ Enter(Head(script), 0) /\ script' = Tail(script)
    BY <1>4 DEF InitFrame, LoopTypeOK
  <2>2. Head(script) \in Seq(Nalu) /\ Head(script) = script[1] /\ 1 \in DOMAIN script
    BY <2>1
  <2>3. \A i \in DOMAIN script' : i + 1 \in DOMAIN script /\ script'[i] = script[i + 1]
    BY <2>1
  <2>4. script' \in Seq(Seq(Nalu)) /\ \A i \in DOMAIN script' : Wellformed(script'[i])
    BY <2>1, <2>3 DEF BufferInv
  <2>5. Wellformed(Head(script)) /\ codec \in Codec
    BY <2>1, <2>2 DEF BufferInv, ControlInv
  <2>6. QED
    BY <1>2, <2>1, <2>2, <2>4, <2>5
<1>5. ASSUME EndData
      PROVE  LoopInv' /\ UNCHANGED queueVars
  <2>1. /\ cpc = "end" /\ cpc' = "loop" /\ prev' = ts
        /\ buf' = <<>> /\ pos' = 1 /\ ts' = 0 /\ idr' = None
        /\ UNCHANGED <<queueVars, codec, cfg, script, dangling, closing, up>>
    BY <1>5 DEF EndData, LeaveScope
  <2>2. LoopTypeOK'
    BY <2>1 DEF LoopTypeOK
  <2>3. ControlInv' /\ BufferInv' /\ IdrInv' /\ Fits(cfg, posted)'
    BY <1>0, <2>1, ShortBuffers DEF ControlInv, BufferInv, IdrInv, Looping
  <2>4. QED
    BY <1>0, <2>1, <2>2, <2>3
<1>6. ASSUME StopCapture \/ CaptureEnds
      PROVE  LoopInv' /\ UNCHANGED queueVars
  <2>1. /\ UNCHANGED <<queueVars, codec, cfg, script, buf, pos, ts, idr, prev, dangling, up>>
        /\ cpc' = cpc \/ (cpc = "loop" /\ cpc' = "ended")
        /\ closing' \in BOOLEAN
    BY <1>6 DEF StopCapture, CaptureEnds, loopVars, LoopTypeOK
  <2>2. LoopTypeOK'
    BY <2>1 DEF LoopTypeOK
  <2>3. Gathered' = Gathered
    BY <2>1 DEF Gathered
  <2>4. ControlInv' /\ BufferInv' /\ IdrInv' /\ Fits(cfg, posted)'
    BY <1>0, <2>1, <2>3 DEF ControlInv, BufferInv, IdrInv, Looping
  <2>5. QED
    BY <1>0, <2>1, <2>2, <2>4
<1>7. QED
  BY <1>1, <1>3, <1>4, <1>5, <1>6

\* One NAL unit of onH264Data or onH265Data, the key frame after the loop, and VP9.
LEMMA NaluStep ==
    ASSUME D!DecoderTypeOK, LoopInv,
           \/ SkipNalu \/ OnVps \/ OnSps \/ OnPps \/ OnIdr \/ OnSlice \/ OnPastSlice
           \/ OnImplementationName \/ PostKeyFrame \/ OnVp9
    PROVE  LoopInv' /\ (D!Post \/ UNCHANGED queueVars)
<1> LoopTypeOK /\ ControlInv /\ BufferInv /\ IdrInv /\ Fits(cfg, posted) /\ Messages
  BY DEF LoopInv
<1> USE PlainFrames
<1>0. ASSUME UNCHANGED queueVars
      PROVE  Messages' /\ posted' = posted /\ stopper' = stopper
  BY <1>0, QueueStays
<1>1. ASSUME pos <= Len(buf), buf[pos][1] # "idr", NextNalu,
             cpc \in Looping, cpc' \in {"nalu"},
             idr' = idr, idr # None => posted' = posted,
             cfg' \in VideoFormat \cup {None}, Fits(cfg, posted)',
             Messages', stopper' = stopper, up' \in BOOLEAN, dangling' \in BOOLEAN,
             UNCHANGED <<codec, script, buf, ts, prev, closing>>
      PROVE  LoopInv'
  <2>1. pos + 1 \in 1..Len(buf) + 1 /\ pos' = pos + 1
    BY <1>1, NaluFacts DEF NextNalu
  <2>2. LoopTypeOK'
    BY <1>1, <2>1 DEF LoopTypeOK
  <2>3. Gathered' = Gathered
    BY <1>1, <2>1, GatheredStep DEF BufferInv
  <2>4. ControlInv' /\ BufferInv'
    BY <1>1 DEF ControlInv, BufferInv, Looping
  <2>5. IdrInv'
    BY <1>1, <2>3 DEF IdrInv, Looping
  <2>6. QED
    BY <1>1, <2>2, <2>4, <2>5 DEF LoopInv
<1>2. ASSUME NEW types, NaluIs(types)
      PROVE  /\ cpc = "nalu" /\ cpc \in Looping /\ pos <= Len(buf)
             /\ buf[pos][1] \in types /\ stopper = "off"
  BY <1>2 DEF NaluIs, Looping, ControlInv
<1>3. ASSUME SkipNalu \/ OnVps \/ OnPps
      PROVE  LoopInv' /\ UNCHANGED queueVars
  <2>1. /\ NextNalu /\ UNCHANGED <<queueVars, idr, cpc>>
        /\ UNCHANGED <<codec, script, buf, ts, prev, dangling, closing, up>>
        /\ cfg' = cfg \/ cfg' = None
    BY <1>3 DEF SkipNalu, OnVps, OnPps, rest
  <2>2. NaluIs({"empty", "sei", "vps", "pps"})
    BY <1>3 DEF SkipNalu, OnVps, OnPps, Ignored, NaluIs
  <2>3. buf[pos][1] # "idr" /\ cpc = "nalu" /\ cpc \in Looping /\ pos <= Len(buf)
    BY <1>2, <2>2
  <2>4. cfg' \in VideoFormat \cup {None} /\ Fits(cfg, posted)'
    BY <1>0, <2>1 DEF LoopTypeOK, Fits
  <2>5. up' \in BOOLEAN /\ dangling' \in BOOLEAN
    BY <2>1 DEF LoopTypeOK
  <2>6. QED
    BY <1>0, <1>1, <2>1, <2>3, <2>4, <2>5
<1>4. ASSUME OnSps
      PROVE  LoopInv' /\ D!Post
  <2> DEFINE f == <<codec, buf[pos][2]>>
  <2>1. /\ NaluIs({"sps"}) /\ cfg' = f /\ D!postFormat(f)
        /\ NextNalu /\ UNCHANGED <<idr, cpc>>
        /\ UNCHANGED <<codec, script, buf, ts, prev, dangling, closing, up>>
    BY <1>4 DEF OnSps, PostSps, rest
  <2>2. /\ cpc = "nalu" /\ cpc \in Looping /\ pos <= Len(buf)
        /\ buf[pos][1] = "sps" /\ stopper = "off"
    BY <1>2, <2>1
  <2>3. f \in VideoFormat
    BY <2>2, NaluFacts DEF VideoFormat, ControlInv
  <2> HIDE DEF f
  <2>4. Messages' /\ posted' = f /\ stopper' = stopper
    BY <2>1, <2>3, PostFormatKeeps
  <2>5. idr = None
    <3>1. pos \in DOMAIN buf /\ \A i \in Gathered : i \in DOMAIN buf /\ i < pos
                                                  /\ buf[i][1] = "idr"
      BY <2>2, NaluFacts DEF Gathered, Idrs
    <3>2. Gathered = {}
      BY <2>2, <3>1 DEF BufferInv, Wellformed, ParameterSet
    <3>3. QED
      BY <2>2, <3>2 DEF IdrInv
  <2>6. Fits(cfg, posted)' /\ cfg' \in VideoFormat \cup {None}
    BY <2>1, <2>3, <2>4 DEF Fits
  <2>7. up' \in BOOLEAN /\ dangling' \in BOOLEAN /\ cpc' = "nalu" /\ buf[pos][1] # "idr"
    BY <2>1, <2>2 DEF LoopTypeOK
  <2>8. LoopInv'
    BY <1>1, <2>1, <2>2, <2>4, <2>5, <2>6, <2>7
  <2>9. QED
    BY <2>1, <2>2, <2>3, <2>8 DEF D!Post
<1>5. ASSUME OnIdr
      PROVE  LoopInv' /\ UNCHANGED queueVars
  <2>1. /\ NaluIs({"idr"}) /\ pos' = pos + 1
        /\ UNCHANGED <<queueVars, cfg, cpc>>
        /\ UNCHANGED <<codec, script, buf, ts, prev, dangling, closing, up>>
    BY <1>5 DEF OnIdr, NextNalu, rest
  <2>2. /\ cpc = "nalu" /\ cpc \in Looping /\ pos <= Len(buf) /\ buf[pos][1] = "idr"
    BY <1>2, <2>1
  <2>3. /\ Cardinality(Gathered) \in Nat /\ Gathered' # {}
        /\ Cardinality(Gathered') = Cardinality(Gathered) + 1
        /\ Cardinality(Gathered') <= MaxSlices
    BY <2>1, <2>2, GatheredStep DEF BufferInv
  <2>4. MaxSlices \in Nat
    BY BufferAssumption
  <2>5. /\ idr' \in EncodedFrame
        /\ idr'.slices <= Cardinality(Gathered')
        /\ Fits(idr'.sps, posted)
    <3>1. CASE idr = None
      <4>1. idr' = [key |-> TRUE, sps |-> cfg, slices |-> 1]
        BY <1>5, <3>1 DEF OnIdr
      <4>2. 1 \in 0..MaxSlices
        BY <2>3, <2>4
      <4>3. QED
        BY <2>3, <4>1, <4>2 DEF EncodedFrame, LoopTypeOK
    <3>2. CASE idr # None
      <4>1. idr \in EncodedFrame /\ idr' = [idr EXCEPT !.slices = @ + 1]
        BY <1>5, <3>2 DEF OnIdr, LoopTypeOK
      <4>2. idr.slices <= Cardinality(Gathered) /\ Fits(idr.sps, posted)
        BY <2>2, <3>2 DEF IdrInv
      <4>3. idr.slices + 1 \in 0..MaxSlices /\ idr.slices + 1 <= Cardinality(Gathered')
        BY <2>3, <2>4, <4>1, <4>2 DEF EncodedFrame
      <4>4. QED
        BY <4>1, <4>2, <4>3 DEF EncodedFrame
    <3>3. QED
      BY <3>1, <3>2
  <2>6. LoopTypeOK'
    BY <2>1, <2>2, <2>5, NaluFacts DEF LoopTypeOK
  <2>7. ControlInv' /\ BufferInv' /\ Fits(cfg, posted)'
    BY <1>0, <2>1, <2>2 DEF ControlInv, BufferInv, Looping
  <2>8. IdrInv'
    BY <1>0, <2>1, <2>2, <2>3, <2>5 DEF IdrInv, Looping
  <2>9. QED
    BY <1>0, <2>1, <2>6, <2>7, <2>8 DEF LoopInv
<1>6. ASSUME PostDelta, cpc \in Looping, pos <= Len(buf), buf[pos][1] # "idr",
             up' \in BOOLEAN, dangling' \in BOOLEAN,
             UNCHANGED <<codec, cfg, script, buf, ts, idr, prev, closing>>
      PROVE  LoopInv' /\ D!Post
  <2>1. D!PostFrame(Delta) /\ NextNalu /\ cpc' = "nalu"
    BY <1>6 DEF PostDelta
  <2>2. Fits(Delta.sps, posted)
    BY DEF Fits
  <2>3. Messages' /\ posted' = posted /\ stopper' = stopper
    BY <2>1, <2>2, PostFrameKeeps
  <2>4. stopper = "off"
    BY <1>6 DEF ControlInv, Looping
  <2>5. cfg' \in VideoFormat \cup {None} /\ Fits(cfg, posted)'
    BY <1>6, <2>3 DEF LoopTypeOK
  <2>6. LoopInv'
    BY <1>1, <1>6, <2>1, <2>3, <2>5
  <2>7. QED
    BY <2>1, <2>4, <2>6 DEF D!Post
<1>7. ASSUME IsSlice
      PROVE  /\ cpc = "nalu" /\ cpc \in Looping /\ pos <= Len(buf)
             /\ buf[pos][1] # "idr" /\ stopper = "off"
  <2>1. NaluIs({"slice", "sei", "empty"})
    BY <1>7 DEF IsSlice
  <2>2. QED
    BY <1>2, <2>1
<1>8. ASSUME OnSlice
      PROVE  LoopInv' /\ D!Post
  <2>1. up' \in BOOLEAN /\ dangling' \in BOOLEAN
    BY <1>8 DEF OnSlice, rest, LoopTypeOK
  <2>2. QED
    BY <1>6, <1>7, <1>8, <2>1 DEF OnSlice, rest
<1>9. ASSUME UNCHANGED <<queueVars, codec, cfg, script, buf, pos, ts, idr, prev, closing>>,
             cpc \in Looping, cpc' \in Looping,
             cpc' = "name" => pos <= Len(buf) /\ buf[pos][1] # "idr",
             up' \in BOOLEAN, dangling' \in BOOLEAN
      PROVE  LoopInv'
  <2>1. Gathered' = Gathered
    BY <1>9 DEF Gathered
  <2>2. LoopTypeOK'
    BY <1>9 DEF LoopTypeOK, Looping
  <2>3. ControlInv' /\ BufferInv' /\ IdrInv' /\ Fits(cfg, posted)'
    BY <1>0, <1>9, <2>1 DEF ControlInv, BufferInv, IdrInv, Looping
  <2>4. QED
    BY <1>0, <1>9, <2>2, <2>3 DEF LoopInv
<1>10. ASSUME OnPastSlice
       PROVE  LoopInv' /\ UNCHANGED queueVars
  <2>1. IsSlice /\ cpc' = "name" /\ UNCHANGED <<queueVars, rest, cfg, idr, pos>>
    BY <1>10 DEF OnPastSlice
  <2>2. QED
    BY <1>7, <1>9, <2>1 DEF rest, Looping, LoopTypeOK
<1>11. ASSUME OnImplementationName
       PROVE  LoopInv' /\ (D!Post \/ UNCHANGED queueVars)
  <2>1. /\ cpc = "name" /\ cpc \in Looping /\ pos <= Len(buf) /\ buf[pos][1] # "idr"
        /\ dangling' \in BOOLEAN
        /\ UNCHANGED <<codec, cfg, script, buf, ts, idr, prev, closing>>
    BY <1>11 DEF OnImplementationName, ControlInv, Looping
  <2>2. CASE NextNalu /\ cpc' = "nalu" /\ UNCHANGED <<queueVars, up>>
    <3>1. /\ cfg' \in VideoFormat \cup {None} /\ Fits(cfg, posted)'
          /\ Messages' /\ stopper' = stopper /\ posted' = posted
          /\ up' \in BOOLEAN
      BY <1>0, <2>1, <2>2 DEF LoopTypeOK
    <3>2. QED
      BY <1>1, <2>1, <2>2, <3>1
  <2>3. CASE PostDelta /\ UNCHANGED up
    BY <1>6, <2>1, <2>3 DEF LoopTypeOK
  <2>4. CASE up' = FALSE /\ UNCHANGED <<queueVars, pos, cpc>>
    BY <1>9, <2>1, <2>4
  <2>5. QED
    BY <1>11, <2>2, <2>3, <2>4 DEF OnImplementationName
<1>12. ASSUME Messages', posted' = posted, stopper' = stopper, stopper = "off",
              cpc' \in {"end", "vp9"}, cpc' = "vp9" => cpc = "vp9",
              idr' \in EncodedFrame \cup {None},
              cpc' = "vp9" => idr' = None \/ idr' = WholePicture,
              UNCHANGED <<codec, cfg, script, buf, pos, ts, prev, dangling, closing, up>>
       PROVE  LoopInv'
  <2>1. LoopTypeOK'
    BY <1>12 DEF LoopTypeOK
  <2>2. ControlInv' /\ BufferInv' /\ IdrInv' /\ Fits(cfg, posted)'
    BY <1>12 DEF ControlInv, BufferInv, IdrInv, Looping
  <2>3. QED
    BY <1>12, <2>1, <2>2 DEF LoopInv
<1>13. ASSUME PostKeyFrame
       PROVE  LoopInv' /\ (D!Post \/ UNCHANGED queueVars)
  <2>1. /\ cpc = "nalu" /\ cpc' = "end"
        /\ UNCHANGED <<codec, cfg, script, buf, pos, ts, idr, prev, dangling, closing, up>>
        /\ IF idr = None THEN UNCHANGED queueVars ELSE D!PostFrame(idr)
    BY <1>13 DEF PostKeyFrame, rest
  <2>2. stopper = "off" /\ idr' \in EncodedFrame \cup {None}
    BY <2>1 DEF ControlInv, LoopTypeOK
  <2>3. CASE idr = None
    BY <1>0, <1>12, <2>1, <2>2, <2>3
  <2>4. CASE idr # None
    <3>1. idr \in EncodedFrame /\ Fits(idr.sps, posted)
      BY <2>1, <2>4 DEF LoopTypeOK, IdrInv, Looping
    <3>2. Messages' /\ posted' = posted /\ stopper' = stopper
      BY <2>1, <2>4, <3>1, PostFrameKeeps
    <3>3. QED
      BY <1>12, <2>1, <2>2, <2>4, <3>1, <3>2 DEF D!Post
  <2>5. QED
    BY <2>3, <2>4
<1>14. ASSUME OnVp9
       PROVE  LoopInv' /\ D!Post
  <2>1. /\ cpc = "vp9" /\ stopper = "off"
        /\ codec \in Codec /\ codec = "VP9"
        /\ UNCHANGED <<codec, cfg, script, buf, pos, ts, prev, dangling, closing, up>>
    BY <1>14 DEF OnVp9, rest, ControlInv
  <2>2. CASE idr = None
    <3>1. D!postFormat(<<codec, 0>>) /\ idr' = WholePicture /\ cpc' = "vp9"
      BY <1>14, <2>1, <2>2 DEF OnVp9
    <3>2. <<codec, 0>> \in VideoFormat /\ <<codec, 0>> # None /\ <<codec, 0>>[1] = "VP9"
      BY <2>1, BufferAssumption DEF VideoFormat
    <3>3. Messages' /\ posted' = <<codec, 0>> /\ stopper' = stopper
      BY <3>1, <3>2, PostFormatKeeps
    <3>4. Fits(cfg, posted)'
      BY <3>2, <3>3 DEF Fits
    <3>5. LoopTypeOK'
      BY <2>1, <3>1 DEF LoopTypeOK
    <3>6. ControlInv' /\ BufferInv' /\ IdrInv'
      BY <2>1, <3>1, <3>3 DEF ControlInv, BufferInv, IdrInv, Looping
    <3>7. QED
      BY <2>1, <3>1, <3>2, <3>3, <3>4, <3>5, <3>6 DEF LoopInv, D!Post
  <2>3. CASE idr # None
    <3>1. D!PostFrame(idr) /\ idr' = idr /\ cpc' = "end"
      BY <1>14, <2>3 DEF OnVp9
    <3>2. idr \in EncodedFrame /\ Fits(idr.sps, posted)
      BY <2>1, <2>3 DEF IdrInv, Fits
    <3>3. Messages' /\ posted' = posted /\ stopper' = stopper
      BY <3>1, <3>2, PostFrameKeeps
    <3>4. QED
      BY <1>12, <2>1, <3>1, <3>2, <3>3 DEF D!Post
  <2>4. QED
    BY <2>2, <2>3
<1>15. QED
  BY <1>3, <1>4, <1>5, <1>8, <1>10, <1>11, <1>13, <1>14

-----------------------------------------------------------------------------
(* The decoder thread and the destructor.                                  *)

\* notify_all, the decoder thread and Stop leave the capture thread alone; they take
\* messages out of the queue, and add one without content.
LEMMA DecoderSideStep ==
    ASSUME D!DecoderTypeOK, LoopInv, Notify \/ DecoderRuns \/ DecoderStop
    PROVE  /\ LoopInv'
           /\ D!PostNotify \/ D!DecoderThread \/ D!SpuriousWakeUp \/ D!Stop
<1> LoopTypeOK /\ ControlInv /\ BufferInv /\ IdrInv /\ Fits(cfg, posted) /\ Messages
  BY DEF LoopInv
<1> USE DEF D!postVars, D!stopVars, D!decVars
<1>1. D!PostNotify \/ D!DecoderThread \/ D!SpuriousWakeUp \/ D!Stop
  BY DEF Notify, DecoderRuns, DecoderStop
<1>2. /\ UNCHANGED <<codec, cfg, script, buf, pos, ts, idr, prev, cpc, closing, up>>
      /\ dangling' \in BOOLEAN
  BY DEF Notify, DecoderRuns, DecoderStop, liveVars, loopVars, LoopTypeOK
<1>3. posted' = posted
  BY <1>1 DEF D!PostNotify, D!SpuriousWakeUp, D!DecoderThread, D!CheckStop,
              D!GetFrameWait, D!GetFrame, D!SetFormat, D!SameFormat, D!Decode, D!Stop,
              D!StopSet, D!StopPush, D!StopNotify, D!StopJoin
<1>4. cpc # "ended" => stopper' = stopper
  <2>1. DecoderStop => cpc = "ended"
    BY DEF DecoderStop, Joined
  <2>2. D!PostNotify \/ D!DecoderThread \/ D!SpuriousWakeUp => stopper' = stopper
    BY DEF D!PostNotify, D!SpuriousWakeUp, D!DecoderThread, D!CheckStop, D!GetFrameWait,
           D!GetFrame, D!SetFormat, D!SameFormat, D!Decode
  <2>3. QED
    BY <2>1, <2>2 DEF Notify, DecoderRuns
<1>5. Messages'
  <2>0. queue \in Seq(D!Frame) /\ item \in D!Frame
    BY DEF D!DecoderTypeOK
  <2>1. CASE UNCHANGED <<queue, item>>
    BY <2>1 DEF Messages
  <2>2. CASE D!GetFrame
    <3>1. queue # <<>> /\ item' = Head(queue) /\ queue' = Tail(queue)
      BY <2>2 DEF D!GetFrame
    <3>2. 1 \in DOMAIN queue /\ Head(queue) = queue[1]
      BY <2>0, <3>1
    <3>3. \A i \in DOMAIN queue' : i + 1 \in DOMAIN queue /\ queue'[i] = queue[i + 1]
      BY <2>0, <3>1
    <3>4. QED
      BY <3>1, <3>2, <3>3 DEF Messages
  <2>3. CASE D!Decode
    BY <2>3 DEF D!Decode, D!EmptyFrame, Messages, Good
  <2>4. CASE D!StopPush
    <3>1. /\ queue' = Append(queue, [format |-> None, content |-> None, after |-> posted])
          /\ item' = item
      BY <2>4 DEF D!StopPush, D!EmptyFrame
    <3>2. \A i \in DOMAIN queue' :
             queue'[i].content = None \/ (i \in DOMAIN queue /\ queue'[i] = queue[i])
      BY <2>0, <3>1
    <3>3. QED
      BY <3>1, <3>2 DEF Messages, Good
  <2>5. QED
    BY <1>1, <2>1, <2>2, <2>3, <2>4
    DEF D!PostNotify, D!SpuriousWakeUp, D!DecoderThread, D!CheckStop, D!GetFrameWait,
        D!SetFormat, D!SameFormat, D!Stop, D!StopSet, D!StopNotify, D!StopJoin
<1>6. LoopTypeOK'
  BY <1>2 DEF LoopTypeOK
<1>7. Gathered' = Gathered
  BY <1>2 DEF Gathered
<1>8. ControlInv' /\ BufferInv' /\ IdrInv' /\ Fits(cfg, posted)'
  BY <1>2, <1>3, <1>4, <1>7 DEF ControlInv, BufferInv, IdrInv, Looping
<1>9. QED
  BY <1>1, <1>5, <1>6, <1>8 DEF LoopInv

-----------------------------------------------------------------------------
(* The theorems.                                                           *)

\* Every step keeps the loop's invariant, and is a step of the queue or leaves it as
\* it is.
LEMMA LiveStep ==
    ASSUME LiveInv, [Next]_vars
    PROVE  LoopInv' /\ [D!DecoderNext]_(D!queueVars)
<1>1. LoopInv /\ D!DecoderTypeOK
  BY DecoderFacts DEF LiveInv
<1>2. UNCHANGED queueVars => UNCHANGED D!queueVars
  BY DEF queueVars, D!queueVars, D!postVars, D!stopVars, D!decVars
<1>3. CASE UNCHANGED vars
  <2>1. /\ UNCHANGED queueVars
        /\ UNCHANGED <<codec, cfg, script, buf, pos, ts, idr, prev>>
        /\ UNCHANGED <<cpc, dangling, closing, up>>
    BY <1>3 DEF vars, liveVars, loopVars
  <2>2. UNCHANGED <<queue, posted, stopper, item>>
    BY <2>1 DEF queueVars
  <2>3. LoopInv'
    BY <1>1, <2>1, <2>2
    DEF LoopInv, LoopTypeOK, ControlInv, BufferInv, IdrInv, Messages, Gathered
  <2>4. QED
    BY <1>2, <2>1, <2>3
<1>4. CASE \/ \E c \in Codec : onNewSession(c)
           \/ codec # None /\ \E b \in Buffer[codec], t \in Time : onData(b, t)
           \/ InitFrame \/ EndData \/ StopCapture \/ CaptureEnds
  BY <1>1, <1>2, <1>4, SessionStep
<1>5. CASE \/ SkipNalu \/ OnVps \/ OnSps \/ OnPps \/ OnIdr \/ OnSlice \/ OnPastSlice
           \/ OnImplementationName \/ PostKeyFrame \/ OnVp9
  BY <1>1, <1>2, <1>5, NaluStep DEF D!DecoderNext
<1>6. CASE Notify \/ DecoderRuns \/ DecoderStop
  BY <1>1, <1>6, DecoderSideStep DEF D!DecoderNext
<1>7. QED
  BY <1>3, <1>4, <1>5, <1>6 DEF Next, Capture

\* The initial states satisfy the invariant.
LEMMA LiveInit == Init => LiveInv /\ D!DecoderInit
<1> SUFFICES ASSUME Init PROVE LiveInv /\ D!DecoderInit
  OBVIOUS
<1>1. D!DecoderInit /\ P!DecoderInv
  BY SameQueue, DecoderInduction DEF Init
<1>2. /\ queue = <<>> /\ posted = None /\ stopper = "off" /\ item.content = None
  BY <1>1 DEF D!DecoderInit, D!EmptyFrame
<1>3. LoopTypeOK
  <2>1. script \in Seq(Seq(Nalu)) /\ buf \in Seq(Nalu) /\ pos \in 1..Len(buf) + 1
    BY DEF Init
  <2>2. dangling \in BOOLEAN /\ closing \in BOOLEAN /\ up \in BOOLEAN
    BY Zenon DEF Init
  <2>3. QED
    BY <2>1, <2>2 DEF Init, LoopTypeOK
<1>4. ControlInv /\ BufferInv /\ IdrInv /\ Fits(cfg, posted) /\ Messages
  BY <1>2, ShortBuffers
  DEF Init, ControlInv, BufferInv, IdrInv, Looping, Fits, Messages, Good
<1>5. QED
  BY <1>1, <1>3, <1>4 DEF LiveInv, LoopInv

\* The invariant of the queue and of onData's loop, in every reachable state.
THEOREM LiveAlways == Spec => []LiveInv
<1>1. LiveInv /\ [Next]_vars => LiveInv'
  BY LiveStep, SameQueue, DecoderInduction DEF LiveInv
<1>2. QED
  BY LiveInit, <1>1, PTL DEF Spec

\* The types of the capture thread and of its queue; in particular a key frame has
\* at most as many slices as the buffer has IDR NAL units, and the backlog is at most
\* one message longer than MaxQueue.
THEOREM TypeCorrect == Spec => []TypeOK
<1>1. LiveInv => TypeOK
  BY DecoderFacts DEF LiveInv, LoopInv, LoopTypeOK, TypeOK
<1>2. QED
  BY LiveAlways, <1>1, PTL

\* A key frame with an SPS is only fed to a decoder made for this SPS, for any
\* sequence of sessions and buffers and any lag of the decoder thread.
THEOREM KeyFramesTheorem == Spec => []KeyFramesMatchDecoder
<1>1. LiveInv => KeyFramesMatchDecoder
  <2> SUFFICES ASSUME LiveInv, dpc = "decode", item.content # None, decoder # None
               PROVE  item.content.sps \in {None, decoder} \/ decoder[1] = "VP9"
    BY DEF KeyFramesMatchDecoder
  <2>1. decoder = item.after
    BY DecoderFacts DEF LiveInv, D!DecodedInItsFormat
  <2>2. Fits(item.content.sps, item.after)
    BY DEF LiveInv, LoopInv, Messages, Good
  <2>3. QED
    BY <2>1, <2>2 DEF Fits
<1>2. QED
  BY LiveAlways, <1>1, PTL

\* LiveVideoSource implements VideoDecoder: its capture thread posts one message at a
\* time and none once ~VideoDecoder runs, so what is proved of the queue alone holds.
THEOREM Refinement == Spec => ImplementsDecoder
<1>1. LiveInv /\ [Next]_vars => [D!DecoderNext]_(D!queueVars)
  BY LiveStep
<1>2. Init => D!DecoderInit
  BY LiveInit
<1>3. QED
  BY LiveAlways, <1>1, <1>2, PTL DEF Spec, ImplementsDecoder, D!DecoderSpec

\* What the queue promises to its user, for the program that is this source and its
\* decoder thread; and the capture thread has ended before ~VideoDecoder stops the
\* decoder thread.
QueueKept ==
    /\ D!DecodedInItsFormat
    /\ D!NoLostWakeUp
    /\ D!StopIsPrompt
    /\ stopper # "off" => cpc = "ended"

\* What VideoDecoder_proofs shows of the queue under its contract holds of the whole
\* source, destructors included: frames are decoded in their format, no wake-up is
\* lost and the destructor waits for at most one message of the backlog.
THEOREM LiveQueueTheorem == Spec => []QueueKept
<1>1. P!DecoderInv => D!NoLostWakeUp /\ D!StopIsPrompt
  BY DEF P!DecoderInv, P!DecoderTypeOK, P!Stopping, P!NoLostWakeUp, D!NoLostWakeUp,
         D!StopIsPrompt
<1>2. LiveInv => QueueKept
  BY <1>1, DecoderFacts DEF LiveInv, LoopInv, ControlInv, QueueKept
<1>3. QED
  BY LiveAlways, <1>2, PTL
=============================================================================
