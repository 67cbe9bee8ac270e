---------------------------- MODULE VideoDecoder ----------------------------
(***************************************************************************)
(* The decoding queue of src/inc/VideoDecoder.h.  A capture thread posts   *)
(* formats and encoded frames to m_queue; the decoder thread takes them    *)
(* one by one, builds a decoder when the format changes and feeds it the   *)
(* frames; Stop, run by the destructor, sets m_stop, posts an empty frame  *)
(* and joins the decoder thread.                                           *)
(*                                                                         *)
(* A format stands for codec, width and height together.  The capture      *)
(* thread is any thread that posts one message at a time and has ended     *)
(* before Stop begins; LiveVideoSource shows that it is such a thread.     *)
(***************************************************************************)
EXTENDS Naturals, Sequences

CONSTANTS
    Format,      \* video formats: codec, width and height
    Content,     \* the encoded frames
    None,        \* the empty format string, the null content, no decoder
    MaxQueue     \* bound: messages in the queue (m_queue itself has no limit)

ASSUME VideoDecoderAssumption ==
    /\ None \notin Format
    /\ None \notin Content
    /\ MaxQueue \in Nat

VARIABLES
    queue,       \* m_queue
    posted,      \* the last format that was posted (history)
    poster,      \* the capture thread: "idle", or "notify" after a push
    stop,        \* m_stop
    knows,       \* the decoder thread is bound to see that m_stop is set
    stopper,     \* the thread that runs Stop
    dpc,         \* where the decoder thread is
    item,        \* the decoder thread's local variable frame
    format,      \* m_format, m_width and m_height
    decoder,     \* the format that m_decoder was created for, None if it is null
    popped       \* messages taken from the queue since Stop pushed its own (history)

postVars  == <<posted, poster>>
stopVars  == <<stop, stopper>>
decVars   == <<dpc, item, format, decoder>>
queueVars == <<queue, postVars, stopVars, knows, decVars, popped>>

\* A message; after is the format in force for it, the last one posted before it.
Frame == [format : Format \cup {None}, content : Content \cup {None},
          after : Format \cup {None}]

\* The message that Stop pushes: neither a format nor a content.
EmptyFrame(f) == [format |-> None, content |-> None, after |-> f]

\* The types, and the backlog: Stop adds one message to the capture thread's.
DecoderTypeOK ==
    /\ queue \in Seq(Frame) /\ Len(queue) <= MaxQueue + 1
    /\ posted \in Format \cup {None}
    /\ poster \in {"idle", "notify"}
    /\ stop \in BOOLEAN
    /\ knows \in BOOLEAN
    /\ stopper \in {"off", "set", "pushed", "notified", "joined"}
    /\ dpc \in {"check", "get", "wait", "format", "decode", "exited"}
    /\ item \in Frame
    /\ format \in Format \cup {None}
    /\ decoder \in Format \cup {None}
    /\ popped \in Nat

\* The constructor has started the decoder thread.
DecoderInit ==
    /\ queue = <<>>
    /\ posted = None
    /\ poster = "idle"
    /\ stop = FALSE
    /\ knows = FALSE
    /\ stopper = "off"
    /\ dpc = "check"
    /\ item = EmptyFrame(None)
    /\ format = None
    /\ decoder = None
    /\ popped = 0

-----------------------------------------------------------------------------
(* The capture thread.                                                     *)

\* The critical section of postFormat and PostFrame.
Push(frame) ==
    /\ poster = "idle"
    /\ Len(queue) < MaxQueue
    /\ queue' = Append(queue, frame)
    /\ posted' = frame.after
    /\ poster' = "notify"
    /\ UNCHANGED <<stopVars, knows, decVars, popped>>

postFormat(f) == Push([format |-> f, content |-> None, after |-> f])

PostFrame(c) == Push([format |-> None, content |-> c, after |-> posted])

\* A mutant of NotifyAll: nobody is woken.
NotifyAll_Nobody == UNCHANGED dpc

\* m_queuecond.notify_all()
NotifyAll == dpc' = IF dpc = "wait" THEN "get" ELSE dpc

\* The call of notify_all that follows the push, outside the mutex.
PostNotify ==
    /\ poster = "notify"
    /\ poster' = "idle"
    /\ NotifyAll
    /\ UNCHANGED <<queue, posted, stopVars, knows, item, format, decoder, popped>>

-----------------------------------------------------------------------------
(* DecoderThread.                                                          *)

\* while (!m_stop).  The flag is not atomic: a thread that has not taken the mutex
\* since Stop released it may still read the old value.
CheckStop ==
    /\ dpc = "check"
    /\ \/ stop /\ dpc' = "exited"
       \/ ~(stop /\ knows) /\ dpc' = "get"
    /\ UNCHANGED <<queue, postVars, stopVars, knows, item, format, decoder, popped>>

\* Taking the mutex makes what Stop wrote before its push visible.
Synchronises == knows' = (knows \/ stopper \in {"pushed", "notified"})

\* getFrame on an empty queue: the condition variable releases the mutex.
GetFrameWait ==
    /\ dpc = "get"
    /\ queue = <<>>
    /\ dpc' = "wait"
    /\ Synchronises
    /\ UNCHANGED <<queue, postVars, stopVars, item, format, decoder, popped>>

SpuriousWakeUp ==
    /\ dpc = "wait"
    /\ dpc' = "get"
    /\ UNCHANGED <<queue, postVars, stopVars, knows, item, format, decoder, popped>>

\* getFrame takes the first message.
GetFrame ==
    /\ dpc = "get"
    /\ queue # <<>>
    /\ item' = Head(queue)
    /\ queue' = Tail(queue)
    /\ dpc' = "format"
    /\ Synchronises
    /\ popped' = IF stopper \in {"pushed", "notified"} THEN popped + 1 ELSE popped
    /\ UNCHANGED <<postVars, stopVars, format, decoder>>

\* A mutant of KeepsDecoder: a decoder is never replaced.
KeepsDecoder_Always(f) == decoder # None

\* Is the decoder there, and made for format f?
KeepsDecoder(f) == decoder # None /\ format = f

\* A message with a format: the decoder is replaced unless it fits.  createDecoder
\* leaves a null pointer when the factory has no decoder for the codec.
SetFormat ==
    /\ dpc = "format"
    /\ item.format # None /\ ~KeepsDecoder(item.format)
    /\ format' = item.format
    /\ decoder' \in {item.format, None}
    /\ dpc' = "decode"
    /\ UNCHANGED <<queue, postVars, stopVars, knows, item, popped>>

\* Any other message, or a format that the decoder has already.
SameFormat ==
    /\ dpc = "format"
    /\ item.format = None \/ KeepsDecoder(item.format)
    /\ dpc' = "decode"
    /\ UNCHANGED <<queue, postVars, stopVars, knows, item, format, decoder, popped>>

\* The content goes to the decoder, if both are there.  A decoder that fails is
\* thrown away.  The local frame is gone.
Decode ==
    /\ dpc = "decode"
    /\ decoder' \in IF item.content # None THEN {decoder, None} ELSE {decoder}
    /\ dpc' = "check"
    /\ item' = EmptyFrame(item.after)
    /\ UNCHANGED <<queue, postVars, stopVars, knows, format, popped>>

-----------------------------------------------------------------------------
(* Stop.                                                                   *)

\* A mutant of StopSet: the flag stays as it is.
StopSet_Forgotten ==
    /\ stopper = "off"
    /\ poster = "idle"
    /\ stopper' = "set"
    /\ UNCHANGED <<queue, postVars, stop, knows, decVars, popped>>

\* m_stop = true.
StopSet ==
    /\ stopper = "off"
    /\ poster = "idle"
    /\ stop' = TRUE
    /\ stopper' = "set"
    /\ UNCHANGED <<queue, postVars, knows, decVars, popped>>

StopPush ==
    /\ stopper = "set"
    /\ queue' = Append(queue, EmptyFrame(posted))
    /\ stopper' = "pushed"
    /\ UNCHANGED <<postVars, stop, knows, decVars, popped>>

StopNotify ==
    /\ stopper = "pushed"
    /\ stopper' = "notified"
    /\ NotifyAll
    /\ UNCHANGED <<queue, postVars, stop, knows, item, format, decoder, popped>>

\* m_decoderthread.join()
StopJoin ==
    /\ stopper = "notified"
    /\ dpc = "exited"
    /\ stopper' = "joined"
    /\ UNCHANGED <<queue, postVars, stop, knows, decVars, popped>>

-----------------------------------------------------------------------------
DecoderThread ==
    \/ CheckStop \/ GetFrameWait \/ GetFrame \/ SetFormat \/ SameFormat \/ Decode

Stop == StopSet \/ StopPush \/ StopNotify \/ StopJoin

\* The capture thread posts until Stop begins.
Post ==
    /\ stopper = "off"
    /\ \/ \E f \in Format : postFormat(f)
       \/ \E c \in Content : PostFrame(c)

DecoderNext ==
    \/ Post
    \/ PostNotify
    \/ DecoderThread
    \/ SpuriousWakeUp
    \/ Stop
    \/ stopper = "joined" /\ UNCHANGED queueVars

\* Threads that can run do; nothing makes the capture thread post, the owner
\* destroy the source, or the condition variable wake up by itself.
DecoderFairness ==
    /\ WF_queueVars(DecoderThread)
    /\ WF_queueVars(PostNotify)
    /\ WF_queueVars(StopPush \/ StopNotify \/ StopJoin)

DecoderSpec     == DecoderInit /\ [][DecoderNext]_queueVars
DecoderFairSpec == DecoderSpec /\ DecoderFairness

-----------------------------------------------------------------------------
\* A frame is only fed to a decoder that was made for the last format posted before
\* it, however far the decoder thread lags behind the capture thread and whichever
\* decoders failed in between.
DecodedInItsFormat ==
    dpc = "decode" /\ item.content # None /\ decoder # None => decoder = item.after

\* The decoder thread never sleeps on a queue that has messages, unless the call of
\* notify_all that will wake it is still to come.
NoLostWakeUp ==
    dpc = "wait" /\ queue # <<>> => poster = "notify" \/ stopper = "pushed"

\* Once Stop has pushed its message the decoder thread handles at most one more,
\* whatever the backlog: the join waits for one frame, not for the queue.
StopIsPrompt == popped <= 1

\* The destructor's Stop returns.
StopReturns == stopper # "off" ~> stopper = "joined"
=============================================================================
