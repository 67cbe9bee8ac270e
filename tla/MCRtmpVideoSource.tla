-------------------------- MODULE MCRtmpVideoSource --------------------------
(* An instance of RtmpVideoSource for TLC.                                 *)
EXTENDS RtmpVideoSource

\* Both codecs, each with an SPS that cannot be parsed.
Configs == Codecs \X {0, 1}
=============================================================================
