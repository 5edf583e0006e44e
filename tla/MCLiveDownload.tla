-------------------------- MODULE MCLiveDownload --------------------------
(* Instances of LiveDownload for TLC. *)
EXTENDS LiveDownload

\* Segment durations for the bounded instances, in "milliseconds" small enough
\* for the start offset and the recording limit to fall between segments.
MCDurationMs == [s \in 0..MaxSeq |-> 1 + (s % 2)]
=============================================================================
