----------------------- MODULE LiveAudioSource_proofs -----------------------
(***************************************************************************)
(* Proofs about LiveAudioSource, for any number of sinks, any formats and  *)
(* segment lengths, none included, and streams of any length.              *)
(***************************************************************************)
EXTENDS LiveAudioSource, SequenceTheorems, TLAPS

\* No element is twice in the sequence.
Once(q) == \A i, j \in DOMAIN q : q[i] = q[j] => i = j

\* A packet is only decoded with a decoder.
DecoderInv == cpc \in {"wait", "decode"} => decoder # None

\* m_sinks has the sinks that are alive, each of them once.
SinksInv == Once(sinks) /\ alive = ToSet(sinks)

\* m_sink_lock is held during the loop over m_sinks and only then, and what the loop has
\* still to call are sinks of the list.
LoopInv ==
    /\ locked <=> cpc = "deliver"
    /\ Once(todo) /\ ToSet(todo) \subseteq alive
    /\ cpc # "deliver" => todo = <<>>

\* There is a segment outside the queue only on its way to the sinks.
SegmentInv ==
    /\ Len(segment) <= popped
    /\ cpc \notin {"lock", "deliver"} => segment = <<>>

\* Between two packets there is at most one segment of some format in m_buffer: the last
\* call of onData left no more.
BacklogInv ==
    /\ BacklogIsBounded
    /\ cpc \in {"loop", "wait", "decode"} => \E f \in Format : Len(buffer) <= Segment[f]

Inv ==
    /\ TypeOK /\ DecoderInv /\ SinksInv /\ LoopInv /\ SegmentInv /\ BacklogInv
    /\ SinksHearEverything

-----------------------------------------------------------------------------
(* Sequences without repetitions.                                          *)

\* A new element at the end.
LEMMA AppendOnce ==
    ASSUME NEW S, NEW q \in Seq(S), NEW s \in S, Once(q), s \notin ToSet(q)
    PROVE  /\ Append(q, s) \in Seq(S) /\ Once(Append(q, s))
           /\ ToSet(Append(q, s)) = ToSet(q) \cup {s}
<1>1. /\ Append(q, s) \in Seq(S) /\ DOMAIN Append(q, s) = 1..Len(q) + 1
      /\ DOMAIN q = 1..Len(q) /\ Len(q) \in Nat
      /\ Append(q, s)[Len(q) + 1] = s
      /\ \A i \in 1..Len(q) : Append(q, s)[i] = q[i]
    OBVIOUS
<1>2. Once(Append(q, s))
    BY <1>1 DEF Once, ToSet
<1>3. ToSet(Append(q, s)) = ToSet(q) \cup {s}
    BY <1>1 DEF ToSet
<1> QED
    BY <1>1, <1>2, <1>3

\* The first element is gone, and only that.
LEMMA TailOnce ==
    ASSUME NEW S, NEW q \in Seq(S), Once(q), q # <<>>
    PROVE  /\ Tail(q) \in Seq(S) /\ Once(Tail(q)) /\ Head(q) \in S
           /\ Head(q) \in ToSet(q)
           /\ ToSet(Tail(q)) = ToSet(q) \ {Head(q)}
<1>1. /\ Tail(q) \in Seq(S) /\ Len(q) \in Nat /\ Len(q) > 0
      /\ DOMAIN q = 1..Len(q) /\ DOMAIN Tail(q) = 1..Len(q) - 1
      /\ Head(q) = q[1] /\ Head(q) \in S
      /\ \A i \in 1..Len(q) - 1 : Tail(q)[i] = q[i + 1]
    OBVIOUS
<1>2. Once(Tail(q))
    BY <1>1 DEF Once
<1>3. ToSet(Tail(q)) \subseteq ToSet(q) \ {Head(q)}
    BY <1>1 DEF Once, ToSet
<1>4. ASSUME NEW x \in ToSet(q), x # Head(q) PROVE x \in ToSet(Tail(q))
    <2>1. PICK i \in 1..Len(q) : q[i] = x
        BY <1>1 DEF ToSet
    <2>2. i - 1 \in 1..Len(q) - 1 /\ Tail(q)[i - 1] = x
        BY <1>1, <1>4, <2>1
    <2> QED
        BY <1>1, <2>2 DEF ToSet
<1>5. Head(q) \in ToSet(q)
    BY <1>1 DEF ToSet
<1> QED
    BY <1>1, <1>2, <1>3, <1>4, <1>5

\* The i-th element is gone, and only that.
LEMMA RemoveAtOnce ==
    ASSUME NEW S, NEW q \in Seq(S), Once(q), NEW i \in DOMAIN q
    PROVE  /\ RemoveAt(q, i) \in Seq(S) /\ Once(RemoveAt(q, i))
           /\ ToSet(RemoveAt(q, i)) = ToSet(q) \ {q[i]}
<1> DEFINE r == RemoveAt(q, i)
           from(k) == IF k < i THEN k ELSE k + 1
<1>1. Len(q) \in Nat /\ DOMAIN q = 1..Len(q) /\ i \in 1..Len(q)
    OBVIOUS
<1>2. /\ SubSeq(q, 1, i - 1) \in Seq(S) /\ Len(SubSeq(q, 1, i - 1)) = i - 1
      /\ \A k \in 1..i - 1 : SubSeq(q, 1, i - 1)[k] = q[k]
    BY <1>1
<1>3. /\ SubSeq(q, i + 1, Len(q)) \in Seq(S) /\ Len(SubSeq(q, i + 1, Len(q))) = Len(q) - i
      /\ \A k \in 1..Len(q) - i : SubSeq(q, i + 1, Len(q))[k] = q[k + i]
    BY <1>1
<1>4. /\ r \in Seq(S) /\ Len(r) = Len(q) - 1 /\ DOMAIN r = 1..Len(q) - 1
      /\ \A k \in 1..Len(q) - 1 : r[k] = q[from(k)]
    <2> DEFINE a == SubSeq(q, 1, i - 1)
               b == SubSeq(q, i + 1, Len(q))
    <2>1. r = a \o b
        BY DEF RemoveAt
    <2>2. /\ a \in Seq(S) /\ Len(a) = i - 1 /\ \A k \in 1..i - 1 : a[k] = q[k]
          /\ b \in Seq(S) /\ Len(b) = Len(q) - i /\ \A k \in 1..Len(q) - i : b[k] = q[k + i]
        BY <1>2, <1>3
    <2> HIDE DEF r, a, b
    <2>3. r \in Seq(S) /\ Len(r) = Len(a) + Len(b)
        BY <2>1, <2>2
    <2>4. \A k \in 1..Len(a) + Len(b) : r[k] = IF k <= Len(a) THEN a[k] ELSE b[k - Len(a)]
        BY <2>1, <2>2, ConcatProperties, Zenon
    <2>5. Len(r) = Len(q) - 1 /\ DOMAIN r = 1..Len(q) - 1
        BY <1>1, <2>2, <2>3
    <2>6. ASSUME NEW k \in 1..Len(q) - 1 PROVE r[k] = q[from(k)]
        <3>1. CASE k < i
            BY <1>1, <2>2, <2>4, <3>1
        <3>2. CASE ~(k < i)
            <4>1. k - (i - 1) \in 1..Len(q) - i /\ (k - (i - 1)) + i = k + 1
                BY <1>1, <3>2
            <4>2. r[k] = b[k - (i - 1)]
                BY <1>1, <2>2, <2>4, <3>2
            <4> QED
                BY <2>2, <3>2, <4>1, <4>2
        <3> QED
            BY <3>1, <3>2
    <2> QED
        BY <2>3, <2>5, <2>6
<1>5. \A k \in 1..Len(q) - 1 : from(k) \in 1..Len(q) /\ from(k) # i
    BY <1>1
<1>6. Once(r)
    <2> SUFFICES ASSUME NEW k \in 1..Len(q) - 1, NEW l \in 1..Len(q) - 1, r[k] = r[l]
                 PROVE  k = l
        BY <1>4 DEF Once
    <2>1. from(k) = from(l)
        BY <1>1, <1>4, <1>5 DEF Once
    <2> QED
        BY <1>1, <2>1
<1>7. ToSet(r) \subseteq ToSet(q) \ {q[i]}
    BY <1>1, <1>4, <1>5 DEF Once, ToSet
<1>8. ASSUME NEW x \in ToSet(q), x # q[i] PROVE x \in ToSet(r)
    <2>1. PICK m \in 1..Len(q) : q[m] = x
        BY <1>1 DEF ToSet
    <2>2. CASE m < i
        BY <1>1, <1>4, <2>1, <2>2 DEF ToSet
    <2>3. CASE m > i
        <3>1. m - 1 \in 1..Len(q) - 1 /\ from(m - 1) = m
            BY <1>1, <2>1, <2>3
        <3> QED
            BY <1>4, <2>1, <3>1 DEF ToSet
    <2> QED
        BY <1>1, <1>8, <2>1, <2>2, <2>3
<1> QED
    BY <1>4, <1>6, <1>7, <1>8

-----------------------------------------------------------------------------
(* The steps.                                                              *)

\* What the proofs use of the constants.
LEMMA Constants ==
    /\ MaxDecoded \in Nat /\ MaxPackets \in Nat /\ MaxAdds \in Nat
    /\ Supported \subseteq Format /\ None \notin Supported
    /\ \A f \in Format : Segment[f] \in Nat
    BY AudioAssumption

LEMMA InitInv == Init => Inv
<1> SUFFICES ASSUME Init PROVE Inv
    OBVIOUS
<1> USE Constants DEF Init
<1>1. TypeOK
    <2>1. /\ heard \in [Sink -> Nat] /\ popped \in Nat
          /\ packets \in 0..MaxPackets /\ adds \in 0..MaxAdds
        OBVIOUS
    <2>2. /\ sinks \in Seq(Sink) /\ todo \in Seq(Sink)
          /\ buffer \in Seq(Supported) /\ segment \in Seq(Supported)
        OBVIOUS
    <2> QED
        BY <2>1, <2>2 DEF TypeOK
<1>2. DecoderInv /\ SegmentInv /\ SinksHearEverything
    BY DEF DecoderInv, SegmentInv, SinksHearEverything
<1>3. SinksInv /\ LoopInv
    BY DEF SinksInv, LoopInv, Once, ToSet
<1>4. BacklogInv
    BY DEF BacklogInv, BacklogIsBounded
<1> QED
    BY <1>1, <1>2, <1>3, <1>4 DEF Inv

\* Adding a sink: it expects the segment that is on its way to the sinks, if there is one.
LEMMA AddSinkInv == ASSUME Inv, NEW s \in Sink, AddSink(s) PROVE Inv'
<1> USE Constants DEF Inv, AddSink
<1>1. sinks \in Seq(Sink) /\ Once(sinks) /\ s \notin ToSet(sinks)
    BY DEF TypeOK, SinksInv
<1>2. sinks' \in Seq(Sink) /\ Once(sinks') /\ ToSet(sinks') = ToSet(sinks) \cup {s}
    BY <1>1, AppendOnce
<1>3. popped - Len(segment) \in Nat
    BY DEF TypeOK, SegmentInv
<1>4. TypeOK'
    BY <1>2, <1>3 DEF TypeOK
<1>5. SinksInv' /\ LoopInv'
    BY <1>2 DEF SinksInv, LoopInv
<1>6. DecoderInv' /\ SegmentInv' /\ BacklogInv'
    BY DEF DecoderInv, SegmentInv, BacklogInv, BacklogIsBounded
<1>7. cpc # "deliver" /\ (cpc # "lock" => Len(segment) = 0) /\ popped \in Nat
    BY DEF LoopInv, SegmentInv, TypeOK
<1>8. SinksHearEverything'
    BY <1>7 DEF SinksHearEverything, TypeOK
<1> QED
    BY <1>4, <1>5, <1>6, <1>8

\* Removing a sink: not while the loop runs.
LEMMA RemoveSinkInv == ASSUME Inv, NEW s \in Sink, RemoveSink(s) PROVE Inv'
<1> USE Constants DEF Inv, RemoveSink, Unlocked
<1>1. PICK i \in DOMAIN sinks : sinks[i] = s /\ sinks' = RemoveAt(sinks, i)
    OBVIOUS
<1>2. sinks \in Seq(Sink) /\ Once(sinks)
    BY DEF TypeOK, SinksInv
<1>3. sinks' \in Seq(Sink) /\ Once(sinks') /\ ToSet(sinks') = ToSet(sinks) \ {s}
    BY <1>1, <1>2, RemoveAtOnce
<1>4. TypeOK'
    BY <1>3 DEF TypeOK
<1>5. SinksInv' /\ LoopInv'
    <2>1. SinksInv'
        BY <1>3 DEF SinksInv
    <2>2. cpc # "deliver" /\ todo = <<>> /\ ToSet(todo) = {}
        BY DEF LoopInv, ToSet
    <2>3. LoopInv'
        BY <2>2 DEF LoopInv
    <2> QED
        BY <2>1, <2>3
<1>6. DecoderInv' /\ SegmentInv' /\ BacklogInv' /\ SinksHearEverything'
    BY DEF DecoderInv, SegmentInv, BacklogInv, BacklogIsBounded, SinksHearEverything
<1> QED
    BY <1>4, <1>5, <1>6

\* A session, a packet and its time, and the destructor: the queue and the sinks stay.
LEMMA ControlInv ==
    ASSUME Inv,
           (\E f \in Format : onNewSession(f)) \/ onData \/ SleepFor \/ Stop \/ CaptureEnds
    PROVE  Inv'
<1> USE Constants DEF Inv, sinkVars
<1>1. UNCHANGED <<sinks, alive, locked, buffer, segment, todo, popped, heard>>
    BY DEF onNewSession, onData, SleepFor, Stop, CaptureEnds
<1>2. TypeOK' /\ DecoderInv'
    <2>1. CASE \E f \in Format : onNewSession(f)
        BY <2>1 DEF onNewSession, TypeOK, DecoderInv, IsSupportedDecoder
    <2>2. CASE onData \/ SleepFor
        BY <2>2 DEF onData, SleepFor, TypeOK, DecoderInv
    <2>3. CASE Stop \/ CaptureEnds
        BY <2>3 DEF Stop, CaptureEnds, TypeOK, DecoderInv
    <2> QED
        BY <2>1, <2>2, <2>3
<1>3. \/ cpc' = cpc
      \/ cpc \in {"loop", "wait"} /\ cpc' \in {"wait", "decode", "ended"}
    BY DEF onNewSession, onData, SleepFor, Stop, CaptureEnds
<1>4. SinksInv' /\ LoopInv' /\ SegmentInv'
    BY <1>1, <1>3 DEF SinksInv, LoopInv, SegmentInv
<1>5. BacklogInv'
    BY <1>1, <1>3 DEF BacklogInv, BacklogIsBounded
<1>6. SinksHearEverything'
    BY <1>1, <1>3 DEF SinksHearEverything
<1> QED
    BY <1>2, <1>4, <1>5, <1>6

\* A packet adds at most MaxDecoded samples to at most one segment.
LEMMA DecodeInv == ASSUME Inv, NEW n \in 0..MaxDecoded, Decode(n) PROVE Inv'
<1> USE Constants DEF Inv, Decode, sinkVars
<1> DEFINE new == [i \in 1..n |-> decoder]
<1>1. n \in Nat /\ MaxDecoded \in Nat /\ n <= MaxDecoded
    OBVIOUS
<1>2. new \in Seq(Supported) /\ Len(new) = n
    BY <1>1 DEF TypeOK, DecoderInv
<1>3. buffer' \in Seq(Supported) /\ Len(buffer') = Len(buffer) + n
    BY <1>2, ConcatProperties DEF TypeOK
<1>4. TypeOK' /\ DecoderInv'
    BY <1>3 DEF TypeOK, DecoderInv
<1>5. SinksInv' /\ LoopInv' /\ SegmentInv' /\ SinksHearEverything'
    BY DEF SinksInv, LoopInv, SegmentInv, SinksHearEverything
<1>6. BacklogInv'
    <2>1. PICK f \in Format : Len(buffer) <= Segment[f]
        BY DEF BacklogInv
    <2>2. Segment[f] \in Nat /\ Len(buffer) \in Nat
        BY DEF TypeOK
    <2>3. Len(buffer') <= Segment[f] + MaxDecoded
        BY <1>1, <1>3, <2>1, <2>2
    <2> QED
        BY <2>3 DEF BacklogInv, BacklogIsBounded
<1> QED
    BY <1>4, <1>5, <1>6

\* A segment leaves the queue for the sinks.
LEMMA CutSegmentInv == ASSUME Inv, CutSegment PROVE Inv'
<1> USE Constants DEF Inv, CutSegment, Cut, sinkVars
<1> DEFINE n == Segment[announced]
<1>1. buffer \in Seq(Supported) /\ n \in Nat /\ Len(buffer) \in Nat /\ Len(buffer) > n
    BY DEF TypeOK, HasSegment
<1>2. segment' \in Seq(Supported) /\ Len(segment') = n
    BY <1>1
<1>3. buffer' \in Seq(Supported) /\ Len(buffer') = Len(buffer) - n
    BY <1>1
<1>4. TypeOK' /\ DecoderInv'
    <2>1. popped' \in Nat
        BY <1>1 DEF TypeOK
    <2> QED
        BY <1>2, <1>3, <2>1 DEF TypeOK, DecoderInv
<1>5. SinksInv' /\ LoopInv'
    BY DEF SinksInv, LoopInv
<1>6. SegmentInv'
    BY <1>1, <1>2 DEF SegmentInv, TypeOK
<1>7. BacklogInv'
    BY <1>1, <1>3 DEF BacklogInv, BacklogIsBounded
<1>8. SinksHearEverything'
    BY <1>1, <1>2 DEF SinksHearEverything, TypeOK
<1> QED
    BY <1>4, <1>5, <1>6, <1>7, <1>8

\* The loop over the sinks: each of them gets the segment once.
LEMMA DeliveryInv ==
    ASSUME Inv, LockSinks \/ Deliver \/ UnlockSinks \/ EndData
    PROVE  Inv'
<1> USE Constants DEF Inv, sinkVars
<1>1. CASE LockSinks
    <2>1. TypeOK' /\ DecoderInv' /\ SinksInv' /\ LoopInv'
        BY <1>1 DEF LockSinks, TypeOK, DecoderInv, SinksInv, LoopInv
    <2>2. SegmentInv' /\ BacklogInv'
        BY <1>1 DEF LockSinks, SegmentInv, BacklogInv, BacklogIsBounded
    <2>3. SinksHearEverything'
        BY <1>1 DEF LockSinks, SinksHearEverything, SinksInv
    <2> QED
        BY <2>1, <2>2, <2>3
<1>2. CASE Deliver
    <2>1. /\ todo' \in Seq(Sink) /\ Once(todo') /\ Head(todo) \in Sink
          /\ Head(todo) \in ToSet(todo) /\ ToSet(todo') = ToSet(todo) \ {Head(todo)}
        BY <1>2, TailOnce DEF Deliver, TypeOK, LoopInv
    <2>2. TypeOK' /\ DecoderInv' /\ SinksInv' /\ LoopInv'
        BY <1>2, <2>1 DEF Deliver, TypeOK, DecoderInv, SinksInv, LoopInv
    <2>3. SegmentInv' /\ BacklogInv'
        BY <1>2 DEF Deliver, SegmentInv, BacklogInv, BacklogIsBounded
    <2>4. SinksHearEverything'
        BY <1>2, <2>1 DEF Deliver, SinksHearEverything, TypeOK, LoopInv, SegmentInv
    <2> QED
        BY <2>2, <2>3, <2>4
<1>3. CASE UnlockSinks
    <2>1. TypeOK' /\ DecoderInv'
        <3>1. segment' \in Seq(Supported)
            BY <1>3 DEF UnlockSinks
        <3>2. locked' \in BOOLEAN
            BY <1>3 DEF UnlockSinks
        <3> QED
            BY <1>3, <3>1, <3>2 DEF UnlockSinks, TypeOK, DecoderInv
    <2>2. SinksInv' /\ LoopInv'
        BY <1>3 DEF UnlockSinks, SinksInv, LoopInv
    <2>3. SegmentInv' /\ BacklogInv'
        BY <1>3 DEF UnlockSinks, SegmentInv, BacklogInv, BacklogIsBounded, TypeOK
    <2>4. SinksHearEverything'
        BY <1>3 DEF UnlockSinks, SinksHearEverything, ToSet
    <2> QED
        BY <2>1, <2>2, <2>3, <2>4
<1>4. CASE EndData
    <2>1. TypeOK' /\ DecoderInv' /\ SinksInv' /\ LoopInv' /\ SegmentInv'
        BY <1>4 DEF EndData, TypeOK, DecoderInv, SinksInv, LoopInv, SegmentInv
    <2>2. SinksHearEverything'
        BY <1>4 DEF EndData, SinksHearEverything
    <2>3. BacklogInv'
        BY <1>4 DEF EndData, BacklogInv, BacklogIsBounded, HasSegment, TypeOK
    <2> QED
        BY <2>1, <2>2, <2>3
<1> QED
    BY <1>1, <1>2, <1>3, <1>4

\* Inv is inductive.
LEMMA InvStep == Inv /\ [Next]_vars => Inv'
<1> SUFFICES ASSUME Inv, [Next]_vars PROVE Inv'
    OBVIOUS
<1>1. CASE UNCHANGED vars
    BY <1>1 DEF Inv, vars, sinkVars, TypeOK, DecoderInv, SinksInv, LoopInv, SegmentInv,
                BacklogInv, BacklogIsBounded, SinksHearEverything
<1>2. CASE Next
    BY <1>1, <1>2, AddSinkInv, RemoveSinkInv, ControlInv, DecodeInv, CutSegmentInv,
       DeliveryInv DEF Next, Capture
<1> QED
    BY <1>1, <1>2

LEMMA InvAlways == Spec => []Inv
    BY InitInv, InvStep, PTL DEF Spec

-----------------------------------------------------------------------------
\* The types of the variables.
THEOREM TypeCorrect == Spec => []TypeOK
    BY InvAlways, PTL DEF Inv

\* onData only calls sinks that have not been removed: m_sink_lock is held for the whole
\* loop over m_sinks.
THEOREM SilentTheorem == Spec => []RemovedSinksAreSilent
<1>1. Inv => RemovedSinksAreSilent
    BY DEF Inv, LoopInv, ToSet, RemovedSinksAreSilent
<1> QED
    BY <1>1, InvAlways, PTL

\* Every sink gets every segment that is cut after AddSink once, although the list changes
\* between any two segments.
THEOREM HearTheorem == Spec => []SinksHearEverything
    BY InvAlways, PTL DEF Inv

\* m_buffer never holds more than a segment and a packet, however long the stream is.
THEOREM BacklogTheorem == Spec => []BacklogIsBounded
<1>1. Inv => BacklogIsBounded
    BY DEF Inv, BacklogInv
<1> QED
    BY <1>1, InvAlways, PTL
=============================================================================
