-------------------------- MODULE MCLiveAudioSource --------------------------
(* Instances of LiveAudioSource for TLC.                                   *)
EXTENDS LiveAudioSource

CONSTANTS narrow, wide, odd

\* Segments of different lengths, of which a packet may hold more than one; the format
\* that is not supported has no channel.
SegmentLengths ==
    [f \in Format |-> CASE f = narrow -> 1 [] f = wide -> 2 [] f = odd -> 0]
=============================================================================
