------------------------ MODULE VideoDecoder_proofs ------------------------
(***************************************************************************)
(* Proofs about VideoDecoder for any formats, contents and backlog.        *)
(*                                                                         *)
(* DecodedInItsFormat is not inductive: whether the next message fits the  *)
(* decoder depends on the messages between the last one taken and the one  *)
(* being posted.  Chained says that every message in the queue follows the *)
(* one before it, so the format in force is handed on from message to      *)
(* message, and Current that the decoder has the format of the last        *)
(* message taken.                                                          *)
(***************************************************************************)
EXTENDS VideoDecoder, TLAPS

\* The format in force after the messages before position i of the queue.
Before(i) == IF i = 1 THEN item.after ELSE queue[i - 1].after

\* A message with a format changes the format in force, any other one keeps it.
Chained ==
    /\ \A i \in 1..Len(queue) :
          queue[i].after = IF queue[i].format # None THEN queue[i].format ELSE Before(i)
    /\ posted = IF queue = <<>> THEN item.after ELSE queue[Len(queue)].after

\* What the decoder was made for.
Current ==
    /\ item.format # None => item.after = item.format
    /\ decoder # None => decoder = format
    /\ decoder # None /\ (dpc # "format" \/ item.format = None) => format = item.after

\* Stop and the decoder thread's view of it.
Stopping ==
    /\ stopper # "off" => stop
    /\ knows => stopper \notin {"off", "set"}
    /\ stopper \in {"off", "set"} => Len(queue) <= MaxQueue
    /\ popped > 0 => popped = 1 /\ knows /\ dpc \in {"format", "decode", "check", "exited"}

DecoderInv == DecoderTypeOK /\ Chained /\ Current /\ Stopping /\ NoLostWakeUp

\* The initial state satisfies the invariant.
LEMMA DecoderInitInv == DecoderInit => DecoderInv
  <1> SUFFICES ASSUME DecoderInit PROVE DecoderInv
    OBVIOUS
  <1>1. item \in Frame /\ item.format = None /\ item.after = None
    BY DEF DecoderInit, EmptyFrame, Frame
  <1>2. queue \in Seq(Frame) /\ Len(queue) = 0
    BY DEF DecoderInit
  <1>3. DecoderTypeOK
    <2>1. Len(queue) <= MaxQueue + 1
      BY <1>2, VideoDecoderAssumption
    <2>2. popped \in Nat
      BY DEF DecoderInit
    <2>3. QED
      BY <1>1, <1>2, <2>1, <2>2, Zenon DEF DecoderInit, DecoderTypeOK
  <1>4. Chained
    BY <1>1, <1>2 DEF DecoderInit, Chained
  <1>5. Current /\ Stopping /\ NoLostWakeUp
    BY <1>1, <1>2, VideoDecoderAssumption
    DEF DecoderInit, Current, Stopping, NoLostWakeUp
  <1>6. QED
    BY <1>3, <1>4, <1>5 DEF DecoderInv

\* What appending a message does to the queue.
LEMMA AppendFacts ==
  ASSUME NEW m \in Frame, queue \in Seq(Frame)
  PROVE  /\ Append(queue, m) \in Seq(Frame)
         /\ Len(Append(queue, m)) = Len(queue) + 1
         /\ Append(queue, m) # <<>>
         /\ Append(queue, m)[Len(queue) + 1] = m
         /\ \A i \in 1..Len(queue) : Append(queue, m)[i] = queue[i]
  OBVIOUS

\* What taking the first message does to the queue.
LEMMA TailFacts ==
  ASSUME queue \in Seq(Frame), queue # <<>>
  PROVE  /\ Len(queue) \in Nat /\ Len(queue) > 0
         /\ Tail(queue) \in Seq(Frame)
         /\ Len(Tail(queue)) = Len(queue) - 1
         /\ \A i \in 1..Len(queue) - 1 : Tail(queue)[i] = queue[i + 1]
         /\ Head(queue) = queue[1]
         /\ Head(queue) \in Frame
         /\ Tail(queue) = <<>> <=> Len(queue) = 1
  <1>1. Len(queue) \in Nat /\ Len(queue) > 0
    OBVIOUS
  <1>2. Tail(queue) \in Seq(Frame) /\ Len(Tail(queue)) = Len(queue) - 1
    OBVIOUS
  <1>3. \A i \in 1..Len(queue) - 1 : Tail(queue)[i] = queue[i + 1]
    OBVIOUS
  <1>4. Head(queue) = queue[1] /\ Head(queue) \in Frame
    BY <1>1
  <1>5. \A s \in Seq(Frame) : s = <<>> <=> Len(s) = 0
    OBVIOUS
  <1>6. Tail(queue) = <<>> <=> Len(queue) = 1
    BY <1>1, <1>2, <1>5
  <1>7. QED
    BY <1>1, <1>2, <1>3, <1>4, <1>6

\* A message is posted: it carries on the chain.
LEMMA AppendKeepsChain ==
  ASSUME NEW m \in Frame, DecoderTypeOK, Chained,
         m.after = IF m.format # None THEN m.format ELSE posted,
         queue' = Append(queue, m), posted' = m.after, item' = item
  PROVE  Chained'
  <1> DEFINE n == Len(queue)
  <1>1. queue \in Seq(Frame) /\ n \in Nat
    BY DEF DecoderTypeOK
  <1>2. /\ Len(queue') = n + 1 /\ queue' # <<>>
        /\ queue'[n + 1] = m
        /\ \A i \in 1..n : queue'[i] = queue[i]
    BY <1>1, AppendFacts
  <1>3. posted' = queue'[Len(queue')].after
    BY <1>2
  <1>4. ASSUME NEW i \in 1..n + 1
        PROVE  queue'[i].after =
                 IF queue'[i].format # None THEN queue'[i].format ELSE Before(i)'
    <2>1. CASE i \in 1..n
      <3>1. Before(i)' = Before(i)
        BY <2>1, <1>1, <1>2 DEF Before
      <3>2. QED
        BY <2>1, <3>1, <1>2 DEF Chained
    <2>2. CASE i = n + 1
      <3>1. Before(i)' = posted
        <4>1. CASE queue = <<>>
          BY <4>1, <2>2 DEF Before, Chained
        <4>2. CASE queue # <<>>
          <5>1. n \in 1..n /\ i # 1 /\ i - 1 = n
            BY <4>2, <1>1, <2>2
          <5>2. QED
            BY <5>1, <4>2, <1>2 DEF Before, Chained
        <4>3. QED
          BY <4>1, <4>2
      <3>2. QED
        BY <2>2, <3>1, <1>2
    <2>3. QED
      BY <1>1, <1>4, <2>1, <2>2
  <1>5. QED
    BY <1>2, <1>3, <1>4 DEF Chained

\* Every step of the queue preserves the invariant.
LEMMA DecoderStep == DecoderInv /\ [DecoderNext]_queueVars => DecoderInv'
  <1> SUFFICES ASSUME DecoderInv, [DecoderNext]_queueVars PROVE DecoderInv'
    OBVIOUS
  <1> USE VideoDecoderAssumption DEF DecoderInv
  <1>1. queue \in Seq(Frame) /\ Len(queue) \in Nat /\ item \in Frame /\ posted \in Format \cup {None}
    BY DEF DecoderTypeOK
  <1>2. ASSUME NEW m \in Frame, Push(m), stopper = "off",
               m.after = IF m.format # None THEN m.format ELSE posted
        PROVE  DecoderInv'
    <2>1. Chained'
      BY <1>2, AppendKeepsChain DEF Push, decVars
    <2>2. queue' \in Seq(Frame) /\ Len(queue') = Len(queue) + 1
      BY <1>1, <1>2, AppendFacts DEF Push
    <2>3. Len(queue') <= MaxQueue + 1 /\ posted' \in Format \cup {None}
      BY <1>1, <1>2, <2>2 DEF Push, Frame
    <2>4. DecoderTypeOK'
      BY <1>2, <2>2, <2>3, Zenon DEF Push, DecoderTypeOK, stopVars, decVars
    <2>5. Current' /\ Stopping' /\ NoLostWakeUp'
      BY <1>1, <1>2, <2>2 DEF Push, Current, Stopping, NoLostWakeUp, stopVars, decVars
    <2>6. QED
      BY <2>1, <2>4, <2>5
  <1>3. CASE Post
    <2>1. ASSUME NEW f \in Format, postFormat(f), stopper = "off" PROVE DecoderInv'
      <3> DEFINE m == [format |-> f, content |-> None, after |-> f]
      <3>1. m \in Frame /\ m.after = IF m.format # None THEN m.format ELSE posted
        BY DEF Frame
      <3>2. Push(m)
        BY <2>1 DEF postFormat
      <3> HIDE DEF m
      <3>3. QED
        BY <3>1, <3>2, <2>1, <1>2
    <2>2. ASSUME NEW c \in Content, PostFrame(c), stopper = "off" PROVE DecoderInv'
      <3> DEFINE m == [format |-> None, content |-> c, after |-> posted]
      <3>1. m \in Frame /\ m.after = IF m.format # None THEN m.format ELSE posted
        BY <1>1 DEF Frame
      <3>2. Push(m)
        BY <2>2 DEF PostFrame
      <3> HIDE DEF m
      <3>3. QED
        BY <3>1, <3>2, <2>2, <1>2
    <2>3. QED
      BY <1>3, <2>1, <2>2 DEF Post
  \* The chain is about the queue and the messages at its two ends only.
  <1>4. ASSUME UNCHANGED <<queue, posted, item>> PROVE Chained'
    BY <1>4 DEF Chained, Before
  <1>5. CASE PostNotify
    <2>1. DecoderTypeOK'
      BY <1>5, Zenon DEF PostNotify, NotifyAll, DecoderTypeOK, stopVars
    <2>2. Current' /\ Stopping' /\ NoLostWakeUp'
      BY <1>5 DEF PostNotify, NotifyAll, Current, Stopping, NoLostWakeUp, stopVars, DecoderTypeOK
    <2>3. QED
      BY <1>4, <1>5, <2>1, <2>2 DEF PostNotify
  <1>6. CASE CheckStop
    <2>1. DecoderTypeOK'
      BY <1>6, Zenon DEF CheckStop, DecoderTypeOK, stopVars, postVars
    <2>2. Current' /\ Stopping' /\ NoLostWakeUp'
      BY <1>6 DEF CheckStop, Current, Stopping, NoLostWakeUp, stopVars, postVars, DecoderTypeOK
    <2>3. QED
      BY <1>4, <1>6, <2>1, <2>2 DEF CheckStop, postVars
  <1>7. CASE GetFrameWait
    <2>1. DecoderTypeOK'
      BY <1>7, Zenon DEF GetFrameWait, Synchronises, DecoderTypeOK, stopVars, postVars
    <2>2. Current' /\ Stopping' /\ NoLostWakeUp'
      BY <1>7 DEF GetFrameWait, Synchronises, Current, Stopping, NoLostWakeUp, stopVars,
                  postVars, DecoderTypeOK
    <2>3. QED
      BY <1>4, <1>7, <2>1, <2>2 DEF GetFrameWait, postVars
  <1>8. CASE SpuriousWakeUp
    <2>1. DecoderTypeOK'
      BY <1>8, Zenon DEF SpuriousWakeUp, DecoderTypeOK, stopVars, postVars
    <2>2. Current' /\ Stopping' /\ NoLostWakeUp'
      BY <1>8 DEF SpuriousWakeUp, Current, Stopping, NoLostWakeUp, stopVars, postVars, DecoderTypeOK
    <2>3. QED
      BY <1>4, <1>8, <2>1, <2>2 DEF SpuriousWakeUp, postVars
  <1>9. CASE GetFrame
    <2>1. /\ Len(queue) > 0
          /\ queue' \in Seq(Frame) /\ Len(queue') = Len(queue) - 1
          /\ \A i \in 1..Len(queue) - 1 : queue'[i] = queue[i + 1]
          /\ item' = queue[1] /\ item' \in Frame
          /\ queue' = <<>> <=> Len(queue) = 1
      BY <1>1, <1>9, TailFacts DEF GetFrame
    <2>2. item'.after = IF item'.format # None THEN item'.format ELSE item.after
      BY <1>1, <2>1 DEF Chained, Before
    <2>3. Chained'
      <3>1. posted' = IF queue' = <<>> THEN item'.after ELSE queue'[Len(queue')].after
        BY <1>1, <1>9, <2>1 DEF GetFrame, Chained, postVars
      <3>2. ASSUME NEW i \in 1..Len(queue')
            PROVE  queue'[i].after =
                     IF queue'[i].format # None THEN queue'[i].format ELSE Before(i)'
        <4>1. i + 1 \in 1..Len(queue) /\ queue'[i] = queue[i + 1]
          BY <1>1, <2>1, <3>2
        <4>2. Before(i)' = queue[i].after
          BY <1>1, <2>1, <3>2 DEF Before
        <4>3. Before(i + 1) = queue[i].after
          BY <3>2, <1>1, <2>1 DEF Before
        <4>4. QED
          BY <4>1, <4>2, <4>3 DEF Chained
      <3>3. QED
        BY <3>1, <3>2 DEF Chained
    <2>4. Current'
      BY <1>9, <2>2 DEF GetFrame, Current
    <2>5. popped' \in Nat /\ Len(queue') <= MaxQueue + 1
      BY <1>1, <1>9, <2>1 DEF GetFrame, DecoderTypeOK
    <2>6. DecoderTypeOK'
      BY <1>9, <2>1, <2>5, Zenon DEF GetFrame, Synchronises, DecoderTypeOK, stopVars, postVars
    <2>7. Stopping' /\ NoLostWakeUp'
      BY <1>1, <1>9, <2>1 DEF GetFrame, Synchronises, Stopping, NoLostWakeUp, stopVars, postVars, DecoderTypeOK
    <2>8. QED
      BY <2>3, <2>4, <2>6, <2>7
  <1>10. CASE SetFormat
    <2>1. DecoderTypeOK'
      BY <1>1, <1>10, Zenon DEF SetFormat, DecoderTypeOK, stopVars, postVars, Frame
    <2>2. Current' /\ Stopping' /\ NoLostWakeUp'
      BY <1>10 DEF SetFormat, Current, Stopping, NoLostWakeUp, stopVars, postVars, DecoderTypeOK
    <2>3. QED
      BY <1>4, <1>10, <2>1, <2>2 DEF SetFormat, postVars
  <1>11. CASE SameFormat
    <2>1. DecoderTypeOK'
      BY <1>11, Zenon DEF SameFormat, DecoderTypeOK, stopVars, postVars
    <2>2. Current' /\ Stopping' /\ NoLostWakeUp'
      BY <1>11 DEF SameFormat, KeepsDecoder, Current, Stopping, NoLostWakeUp, stopVars,
                   postVars, DecoderTypeOK
    <2>3. QED
      BY <1>4, <1>11, <2>1, <2>2 DEF SameFormat, postVars
  <1>12. CASE Decode
    <2>1. /\ item' \in Frame
          /\ item'.after = item.after /\ item'.format = None
      BY <1>1, <1>12 DEF Decode, EmptyFrame, Frame
    <2>2. DecoderTypeOK'
      BY <1>12, <2>1, Zenon DEF Decode, DecoderTypeOK, stopVars, postVars
    <2>3. Chained'
      BY <1>12, <2>1 DEF Decode, Chained, Before, postVars
    <2>4. Current' /\ Stopping' /\ NoLostWakeUp'
      BY <1>12, <2>1 DEF Decode, Current, Stopping, NoLostWakeUp, stopVars, postVars, DecoderTypeOK
    <2>5. QED
      BY <2>2, <2>3, <2>4
  <1>13. CASE StopSet
    <2>1. DecoderTypeOK'
      BY <1>13, Zenon DEF StopSet, DecoderTypeOK, decVars, postVars
    <2>2. Current' /\ Stopping' /\ NoLostWakeUp'
      BY <1>13 DEF StopSet, Current, Stopping, NoLostWakeUp, decVars, postVars, DecoderTypeOK
    <2>3. QED
      BY <1>4, <1>13, <2>1, <2>2 DEF StopSet, postVars, decVars
  <1>14. CASE StopPush
    <2> DEFINE m == EmptyFrame(posted)
    <2>1. m \in Frame /\ m.format = None /\ m.after = posted
      BY <1>1 DEF EmptyFrame, Frame
    <2>2. queue' = Append(queue, m)
      BY <1>14 DEF StopPush
    <2> HIDE DEF m
    <2>3. Chained'
      BY <1>14, <2>1, <2>2, AppendKeepsChain DEF StopPush, postVars, decVars
    <2>4. queue' \in Seq(Frame) /\ Len(queue') = Len(queue) + 1
      BY <1>1, <2>1, <2>2, AppendFacts
    <2>5. Len(queue') <= MaxQueue + 1
      BY <1>1, <1>14, <2>4 DEF StopPush, Stopping
    <2>6. DecoderTypeOK'
      BY <1>14, <2>4, <2>5, Zenon DEF StopPush, DecoderTypeOK, decVars, postVars
    <2>7. Current' /\ Stopping' /\ NoLostWakeUp'
      BY <1>14 DEF StopPush, Current, Stopping, NoLostWakeUp, decVars, postVars, DecoderTypeOK
    <2>8. QED
      BY <2>3, <2>6, <2>7
  <1>15. CASE StopNotify
    <2>1. DecoderTypeOK'
      BY <1>15, Zenon DEF StopNotify, NotifyAll, DecoderTypeOK, postVars
    <2>2. Current' /\ Stopping' /\ NoLostWakeUp'
      BY <1>15 DEF StopNotify, NotifyAll, Current, Stopping, NoLostWakeUp, postVars, DecoderTypeOK
    <2>3. QED
      BY <1>4, <1>15, <2>1, <2>2 DEF StopNotify, postVars
  <1>16. CASE StopJoin
    <2>1. DecoderTypeOK'
      BY <1>16, Zenon DEF StopJoin, DecoderTypeOK, decVars, postVars
    <2>2. Current' /\ Stopping' /\ NoLostWakeUp'
      BY <1>16 DEF StopJoin, Current, Stopping, NoLostWakeUp, decVars, postVars, DecoderTypeOK
    <2>3. QED
      BY <1>4, <1>16, <2>1, <2>2 DEF StopJoin, postVars, decVars
  <1>17. CASE UNCHANGED queueVars
    <2>1. DecoderTypeOK'
      BY <1>17, Zenon DEF queueVars, postVars, stopVars, decVars, DecoderTypeOK
    <2>2. Current' /\ Stopping' /\ NoLostWakeUp'
      BY <1>17 DEF queueVars, postVars, stopVars, decVars, Current, Stopping, NoLostWakeUp
    <2>3. QED
      BY <1>4, <1>17, <2>1, <2>2 DEF queueVars, postVars, decVars
  <1>18. QED
    BY <1>3, <1>5, <1>6, <1>7, <1>8, <1>9, <1>10, <1>11, <1>12, <1>13, <1>14, <1>15,
       <1>16, <1>17
    DEF DecoderNext, DecoderThread, Stop

\* Whatever the formats, the frames and the length of the backlog, the decoding queue
\* keeps its invariant.
THEOREM DecoderInvariant == DecoderSpec => []DecoderInv
  BY DecoderInitInv, DecoderStep, PTL DEF DecoderSpec

\* The decoder thread never feeds a frame to a decoder of another format than the one
\* posted last before the frame.
THEOREM FormatTheorem == DecoderSpec => []DecodedInItsFormat
  <1>1. DecoderInv => DecodedInItsFormat
    BY DEF DecoderInv, Current, DecodedInItsFormat
  <1>2. QED
    BY <1>1, DecoderInvariant, PTL

\* No wake-up of the decoder thread is lost, neither those of the capture thread nor
\* the one of Stop.
THEOREM WakeUpTheorem == DecoderSpec => []NoLostWakeUp
  <1>1. DecoderInv => NoLostWakeUp
    BY DEF DecoderInv
  <1>2. QED
    BY <1>1, DecoderInvariant, PTL

\* Stop waits for at most one message of the backlog, although m_stop is a plain bool.
THEOREM PromptTheorem == DecoderSpec => []StopIsPrompt
  <1>1. DecoderInv => StopIsPrompt
    BY DEF DecoderInv, DecoderTypeOK, Stopping, StopIsPrompt
  <1>2. QED
    BY <1>1, DecoderInvariant, PTL
=============================================================================
