------------------------------ MODULE Transport ------------------------------
(***************************************************************************)
(* What happens to the packets of a transport stream on the way to the     *)
(* output: a segment under SAMPLE-AES is decrypted (SampleAes), a pair of  *)
(* a video and an audio segment is merged (TsMerge).                       *)
(***************************************************************************)
EXTENDS SampleAes

CONSTANTS PAT, OtherSections, PidSpace, MaxComponents, Room,
          VideoSegments, AudioSegments, NumSegments

\* download_hls merges what starts with a packet.
ASSUME SegmentsAssumption ==
  \A s \in VideoSegments \cup AudioSegments : Len(s) \in Nat \ {0}

VARIABLES job,  \* "decrypt" or "merge"
          separate_segments, context, segments, i, j, count

Merge == INSTANCE TsMerge

\* A map lists PIDs, one at least: the code takes the last one of the video's.
ASSUME MapsAssumption ==
  /\ PAT # NULL /\ PidSpace \in Nat /\ MaxComponents \in 0..PidSpace
  /\ \A s \in VideoSegments \cup AudioSegments : \A k \in 1..Len(s) :
       s[k].map # NULL => s[k].map \in Seq(0..(PidSpace - 1)) \ {<<>>}

decrypt_vars == <<pmt, input, buffer, pcr, removed, counter, write_pmt>>
merge_vars   == <<separate_segments, context, segments, i, j, count>>

TransportInit ==
  \/ job = "decrypt" /\ Init
     /\ separate_segments = FALSE /\ context = Merge!NoContext
     /\ segments = <<>> /\ i = 0 /\ j = 0 /\ count = 0
  \/ job = "merge" /\ Merge!Init
     /\ pmt = <<>> /\ input = <<>> /\ write_pmt = TRUE
     /\ buffer = <<>> /\ pcr = <<>> /\ removed = <<>> /\ counter = <<>>

TransportNext ==
  \/ job = "decrypt" /\ Next /\ UNCHANGED <<job, merge_vars>>
  \/ job = "merge" /\ Merge!Next /\ UNCHANGED <<job, decrypt_vars>>

TransportSpec == TransportInit /\ [][TransportNext]_<<job, pc, out, decrypt_vars, merge_vars>>

-----------------------------------------------------------------------------
(* The properties of SampleAes and of TsMerge, for the job they are about.   *)

\* What a receiver reassembles from a decrypted segment is what was sent.
Restored == job = "decrypt" => StreamsRestored

\* The buffer for the decrypted segment is never outgrown.
Fits == job = "decrypt" => FitsInput

\* The merge drops, repeats and reorders no packet of the video.
VideoKept == job = "merge" => Merge!VideoKept

\* Nor of the audio, whose components get PIDs of their own for the whole file; only
\* with a PID of the video that merge_pmt does not look at may they clash.
AudioKept == job = "merge" => Merge!AudioKept

\* A segment has at most one merged map; if it starts with its program association,
\* the map is ahead of all packets behind that.
MapAhead == job = "merge" => Merge!MapAhead

\* The packets of both segments stay near each other.
Interleaved == job = "merge" => Merge!Interleaved

=============================================================================
