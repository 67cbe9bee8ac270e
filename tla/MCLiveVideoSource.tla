-------------------------- MODULE MCLiveVideoSource --------------------------
(* An instance of LiveVideoSource for TLC.                                 *)
EXTENDS LiveVideoSource

\* What onData is given: single NAL units as RTSP delivers them, and access units as a
\* file has them.
SomeBuffers ==
    [c \in Codec |->
        CASE c = "H264" -> {<<<<"slice">>>>,
                            <<SPS(1), <<"pps">>, <<"sei">>, <<"idr">>, <<"idr">>>>}
          [] c = "H265" -> {<<<<"vps">>>>, <<<<"sei">>, <<"idr">>>>}
          [] OTHER -> {<<>>}]
=============================================================================
