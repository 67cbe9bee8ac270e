--------------------------- MODULE LiveAudioSource ---------------------------
(***************************************************************************)
(* src/inc/liveaudiosource.h: the capture thread decodes the packets of    *)
(* live555 into m_buffer and hands it out to the sinks in segments of 10   *)
(* ms, while WebRTC's threads add and remove sinks.                        *)
(*                                                                         *)
(* A format stands for a codec, a frequency and a number of channels.  A   *)
(* sample is abstracted to the format it was decoded in; samples are       *)
(* counted so that gaps and repetitions show.                              *)
(***************************************************************************)
EXTENDS Naturals, Sequences, SequencesExt

CONSTANTS
    Sink,        \* the sinks of the senders that use the source
    Format,      \* audio formats that a session may have
    Supported,   \* the formats that the decoder factory supports
    Segment,     \* segmentLength * m_channel: samples of 10 ms, by format
    MaxDecoded,  \* bound: samples in a packet
    MaxPackets,  \* bound: packets
    MaxAdds,     \* bound: calls of AddSink
    Wait,        \* m_wait: are packets paced by their times?
    None         \* no decoder

\* Nothing tests the frequency and the channels of a session: below 100 Hz, or with no
\* channel, a segment has no samples.  A product below zero is compared as a size_t and is
\* a segment that no buffer fills.
ASSUME AudioAssumption ==
    /\ Supported \subseteq Format
    /\ None \notin Format
    /\ Segment \in [Format -> Nat]
    /\ {MaxDecoded, MaxPackets, MaxAdds} \subseteq Nat
    /\ Wait \in BOOLEAN

VARIABLES
    sinks,       \* m_sinks
    locked,      \* the capture thread holds m_sink_lock
    alive,       \* sinks that have not been destroyed
    announced,   \* m_freq and m_channel, of a format
    decoder,     \* the format that m_decoder was created for, None if it is null
    known,       \* the session's id is in m_codec
    buffer,      \* m_buffer
    segment,     \* the local variable outbuffer, <<>> when there is none
    todo,        \* the sinks that the loop over m_sinks has still to call
    cpc,         \* where the capture thread is
    paced,       \* m_prevts is not 0
    popped,      \* samples taken out of m_buffer so far (history)
    heard,       \* for each sink the sample it expects next (history)
    closing,     \* the destructor runs
    packets, adds  \* packets and added sinks so far, for the bounds

sinkVars == <<sinks, alive, adds>>
vars     == <<sinkVars, locked, announced, decoder, known, buffer, segment, todo, cpc,
              paced, popped, heard, closing, packets>>

\* The constructor sets a format of its own, 8000 Hz and one channel.
Init ==
    /\ sinks = <<>>
    /\ locked = FALSE
    /\ alive = {}
    /\ announced \in Format /\ Segment[announced] > 0
    /\ decoder = None
    /\ known = FALSE
    /\ buffer = <<>> /\ segment = <<>> /\ todo = <<>>
    /\ cpc = "loop"
    /\ paced = FALSE
    /\ popped = 0
    /\ heard = [s \in Sink |-> 0]
    /\ closing = FALSE
    /\ packets = 0 /\ adds = 0

-----------------------------------------------------------------------------
(* WebRTC's threads.  A sender keeps its source alive until it has removed *)
(* its sink, and then destroys the sink.                                   *)

AddSink(s) ==
    /\ ~closing /\ ~locked
    /\ s \notin alive /\ adds < MaxAdds
    /\ alive' = alive \cup {s}
    /\ sinks' = Append(sinks, s)
    /\ heard' = [heard EXCEPT ![s] = popped - Len(segment)]
    /\ adds' = adds + 1
    /\ UNCHANGED <<locked, announced, decoder, known, buffer, segment, todo, cpc, paced,
                   popped, closing, packets>>

\* A mutant of Unlocked: sinks are removed without m_sink_lock.
Unlocked_Ignored == TRUE

\* m_sink_lock can be taken.
Unlocked == ~locked

\* m_sinks.remove(sink).  A sink is added again only after it was removed, so there is one
\* entry to remove.
RemoveSink(s) ==
    /\ Unlocked
    /\ s \in alive
    /\ \E i \in DOMAIN sinks : sinks[i] = s /\ sinks' = RemoveAt(sinks, i)
    /\ alive' = alive \ {s}
    /\ UNCHANGED <<adds, locked, announced, decoder, known, buffer, segment, todo, cpc,
                   paced, popped, heard, closing, packets>>

-----------------------------------------------------------------------------
(* The callbacks, on the capture thread.                                   *)

\* m_factory->IsSupportedDecoder(format)
IsSupportedDecoder(f) == f \in Supported

\* The frequency and the channels are assigned before the codec is looked at; the
\* factory may still fail to create the decoder.
onNewSession(f) ==
    /\ cpc = "loop" /\ ~closing
    /\ announced' = f
    /\ IF IsSupportedDecoder(f)
       THEN decoder' \in {f, None} /\ known' = TRUE
       ELSE UNCHANGED <<decoder, known>>
    /\ UNCHANGED <<sinkVars, locked, buffer, segment, todo, cpc, paced, popped, heard,
                   closing, packets>>

\* A packet of the session, which may have to wait for its time.  Without a session or
\* a decoder nothing happens.
onData ==
    /\ cpc = "loop" /\ ~closing
    /\ known /\ decoder # None
    /\ packets < MaxPackets
    /\ packets' = packets + 1
    /\ cpc' = IF Wait /\ paced THEN "wait" ELSE "decode"
    /\ UNCHANGED <<sinkVars, locked, announced, decoder, known, buffer, segment, todo,
                   paced, popped, heard, closing>>

\* sleep_for, of less than a second.
SleepFor ==
    /\ cpc = "wait"
    /\ cpc' = "decode"
    /\ UNCHANGED <<sinkVars, locked, announced, decoder, known, buffer, segment, todo,
                   paced, popped, heard, closing, packets>>

\* n decoded samples are queued; none when decoding fails.
Decode(n) ==
    /\ cpc = "decode"
    /\ buffer' = buffer \o [i \in 1..n |-> decoder]
    /\ cpc' = "segment"
    /\ UNCHANGED <<sinkVars, locked, announced, decoder, known, segment, todo, paced,
                   popped, heard, closing, packets>>

\* A mutant of HasSegment: the samples are compared with the bytes of a segment.
HasSegment_Bytes == Len(buffer) > 2 * Segment[announced]

\* m_buffer.size() > segmentLength * m_channel
HasSegment == Len(buffer) > Segment[announced]

\* A mutant of Cut: the last sample of the segment stays in the queue.
Cut_OffByOne ==
    /\ segment' = SubSeq(buffer, 1, Segment[announced])
    /\ buffer' = SubSeq(buffer, Segment[announced], Len(buffer))
    /\ popped' = popped + Segment[announced] - 1

\* A segment is moved from m_buffer to outbuffer.
Cut ==
    /\ segment' = SubSeq(buffer, 1, Segment[announced])
    /\ buffer' = SubSeq(buffer, Segment[announced] + 1, Len(buffer))
    /\ popped' = popped + Segment[announced]

CutSegment ==
    /\ cpc = "segment"
    /\ HasSegment
    /\ Cut
    /\ cpc' = "lock"
    /\ UNCHANGED <<sinkVars, locked, announced, decoder, known, todo, paced, heard,
                   closing, packets>>

\* m_sink_lock is taken for the loop over m_sinks.
LockSinks ==
    /\ cpc = "lock" /\ ~locked
    /\ locked' = TRUE
    /\ todo' = sinks
    /\ cpc' = "deliver"
    /\ UNCHANGED <<sinkVars, announced, decoder, known, buffer, segment, paced, popped,
                   heard, closing, packets>>

\* sink->OnData(outbuffer, ...)
Deliver ==
    /\ cpc = "deliver" /\ todo # <<>>
    /\ heard' = [heard EXCEPT ![Head(todo)] = @ + Len(segment)]
    /\ todo' = Tail(todo)
    /\ UNCHANGED <<sinkVars, locked, announced, decoder, known, buffer, segment, cpc,
                   paced, popped, closing, packets>>

\* A mutant of UnlockSinks: the lock is kept for the next segment.
UnlockSinks_KeepsLock ==
    /\ cpc = "deliver" /\ todo = <<>>
    /\ segment' = <<>>
    /\ cpc' = "segment"
    /\ UNCHANGED <<sinkVars, locked, announced, decoder, known, buffer, todo, paced,
                   popped, heard, closing, packets>>

\* The segment is deleted and the lock released.
UnlockSinks ==
    /\ cpc = "deliver" /\ todo = <<>>
    /\ locked' = FALSE
    /\ segment' = <<>>
    /\ cpc' = "segment"
    /\ UNCHANGED <<sinkVars, announced, decoder, known, buffer, todo, paced, popped,
                   heard, closing, packets>>

\* The end of onData: m_prevts is set.
EndData ==
    /\ cpc = "segment"
    /\ ~HasSegment
    /\ paced' = TRUE
    /\ cpc' = "loop"
    /\ UNCHANGED <<sinkVars, locked, announced, decoder, known, buffer, segment, todo,
                   popped, heard, closing, packets>>

-----------------------------------------------------------------------------
(* The destructor, which runs when the last sender has released the source. *)

Stop ==
    /\ ~closing /\ alive = {}
    /\ closing' = TRUE
    /\ UNCHANGED <<sinkVars, locked, announced, decoder, known, buffer, segment, todo,
                   cpc, paced, popped, heard, packets>>

\* The main loop (external) returns once the running callback has.
CaptureEnds ==
    /\ cpc = "loop" /\ closing
    /\ cpc' = "ended"
    /\ UNCHANGED <<sinkVars, locked, announced, decoder, known, buffer, segment, todo,
                   paced, popped, heard, closing, packets>>

Capture ==
    \/ SleepFor
    \/ \E n \in 0..MaxDecoded : Decode(n)
    \/ CutSegment \/ LockSinks \/ Deliver \/ UnlockSinks \/ EndData \/ CaptureEnds

Next ==
    \/ \E s \in Sink : AddSink(s) \/ RemoveSink(s)
    \/ \E f \in Format : onNewSession(f)
    \/ onData
    \/ Capture
    \/ Stop
    \/ cpc = "ended" /\ UNCHANGED vars

\* The capture thread runs; nothing makes live555 deliver or the owner release.
Fairness == WF_vars(Capture)

Spec     == Init /\ [][Next]_vars
FairSpec == Spec /\ Fairness

-----------------------------------------------------------------------------
\* The types.
TypeOK ==
    /\ sinks \in Seq(Sink) /\ todo \in Seq(Sink)
    /\ alive \subseteq Sink
    /\ locked \in BOOLEAN /\ known \in BOOLEAN /\ paced \in BOOLEAN
    /\ closing \in BOOLEAN
    /\ announced \in Format
    /\ decoder \in Supported \cup {None}
    /\ buffer \in Seq(Supported) /\ segment \in Seq(Supported)
    /\ cpc \in {"loop", "wait", "decode", "segment", "lock", "deliver", "ended"}
    /\ popped \in Nat /\ heard \in [Sink -> Nat]
    /\ packets \in 0..MaxPackets /\ adds \in 0..MaxAdds

\* onData never calls a sink that was destroyed: a sender that has returned from
\* RemoveSink is not called again, even when it removed its sink in the middle of a
\* packet.
RemovedSinksAreSilent == cpc = "deliver" => \A i \in DOMAIN todo : todo[i] \in alive

\* A sink hears every sample since it was added, once and in order, except for the
\* segment that is on its way to it.
SinksHearEverything ==
    \A s \in alive :
        heard[s] = IF cpc = "lock" \/ (cpc = "deliver" /\ s \in ToSet(todo))
                   THEN popped - Len(segment)
                   ELSE popped

\* However long the stream, however often it changes its format and however the
\* packets are cut, m_buffer never holds more than one segment and one packet: the
\* audio does not fall behind.
BacklogIsBounded ==
    \E f \in Format : Len(buffer) <= Segment[f] + MaxDecoded

\* onData's loop over segments without samples takes nothing out of m_buffer and goes on
\* for ever.
Endless == /\ cpc \in {"segment", "lock", "deliver"}
           /\ Segment[announced] = 0 /\ buffer # <<>>

\* Every callback returns and the destructor's join with it, from any interleaving with
\* the sinks and any sequence of formats.  The one exception is a packet that is handled
\* while the announced format has segments without samples, be it the format of a session
\* that was rejected after it was announced.
DestructorReturns == closing ~> cpc = "ended" \/ Endless
=============================================================================
