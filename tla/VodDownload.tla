---------------------------- MODULE VodDownload ----------------------------
(***************************************************************************)
(* Recording an ended playlist (download_hls): segments are fetched one by *)
(* one, with their audio rendition if there is one, after a bounded number *)
(* of retries; each is written behind the initialization data it needs.    *)
(* With option -I a segment that cannot be fetched is skipped; any other   *)
(* failure ends the run, and the exit status says so.                      *)
(***************************************************************************)
EXTENDS SegmentOutput

CONSTANT SegmentDownloadRetries  \* option -w

ASSUME RetriesAssumption == SegmentDownloadRetries \in Nat

\* What the parser makes of a playlist: a section stays in force until the
\* next one, and discontinuity numbers do not decrease.
Playlists ==
  {p \in [Positions -> [map : Maps \cup {NULL}, discontinuity : 0..1]] :
     \A i \in Positions \ {1} :
       /\ p[i - 1].map # NULL => p[i].map # NULL
       /\ p[i - 1].discontinuity <= p[i].discontinuity}

VARIABLES
  ignore_download_errors,  \* option -I, chosen once
  playlist,     \* the video playlist
  audio_count,  \* number of audio segments, 0 without an audio rendition
  audio_kind,   \* the audio segments are MPEG-TS or packed audio
  pc, ms, ms_audio,
  target,       \* what vod_download_segment is fetching
  retries, ret,
  skipped,      \* observation: segments given up under -I
  faults        \* observation: kinds of failure met, other than those

inputVars == <<separate_segments, ignore_download_errors, playlist, audio_count, audio_kind>>
loopVars  == <<pc, ms, ms_audio, target, retries, ret>>
vars == <<outputVars, stateVars, inputVars, loopVars, skipped, faults>>

\* main.c refuses EXT-X-MAP together with an audio rendition.
Init ==
  /\ OutputInit
  /\ ignore_download_errors \in BOOLEAN
  /\ playlist \in Playlists
  /\ audio_count \in 0..NumSegments
  /\ audio_count > 0 => \A i \in Positions : playlist[i].map = NULL
  /\ audio_kind \in {"ts", "packed"}
  /\ pc = "fetch" /\ ms = 1 /\ target = "video"
  /\ ms_audio = IF audio_count > 0 THEN 1 ELSE NULL
  /\ retries = 0 /\ ret = 0 /\ skipped = {} /\ faults = {}

NextAudio == IF ms_audio = NULL \/ ms_audio = audio_count THEN NULL ELSE ms_audio + 1

\* The segment file, or the one file.
Name == IF separate_segments THEN ms ELSE 0

-----------------------------------------------------------------------------
(* vod_download_segment, for a segment, its audio or a section *)

FetchOk ==
  /\ pc = "fetch"
  /\ IF target = "video" /\ ms_audio # NULL
     THEN target' = "audio" /\ UNCHANGED pc
     ELSE UNCHANGED target /\ pc' = IF target = "map" THEN "write_init" ELSE "begin"
  /\ retries' = 0
  /\ UNCHANGED <<outputVars, stateVars, inputVars, ms, ms_audio, ret, skipped, faults>>

\* A failure that may pass: wait a second, open a new session, try again.
FetchRetry ==
  /\ pc = "fetch"
  /\ retries < SegmentDownloadRetries
  /\ retries' = retries + 1
  /\ UNCHANGED <<outputVars, stateVars, inputVars, pc, ms, ms_audio, target, ret,
                 skipped, faults>>

\* Fault: with -I any failure of a segment counts as a failed download.
FetchUnusable_Skipped ==
  /\ pc = "fetch"
  /\ faults' = faults \cup {"content"}
  /\ ms' = ms + 1 /\ target' = "video" /\ UNCHANGED ms_audio
  /\ pc' = IF ms = NumSegments THEN "end" ELSE "fetch"
  /\ retries' = 0
  /\ UNCHANGED <<outputVars, stateVars, inputVars, ret, skipped>>

\* SEGMENT_ERROR: the size, the range, the key or the decryption is wrong.
FetchUnusable ==
  /\ pc = "fetch"
  /\ faults' = faults \cup {"content"}
  /\ ret' = 1
  /\ pc' = IF target = "map" THEN "abort" ELSE "end"
  /\ retries' = 0
  /\ UNCHANGED <<outputVars, stateVars, inputVars, ms, ms_audio, target, skipped>>

\* After the segment: the next one, or the end of the list.
Advance ==
  /\ ms' = ms + 1
  /\ ms_audio' = NextAudio
  /\ target' = "video"
  /\ pc' = IF ms = NumSegments THEN "end" ELSE "fetch"

\* Fault: the audio playlist is not advanced along with the video.
FetchSkip_KeepsAudio ==
  /\ pc = "fetch" /\ target # "map"
  /\ ignore_download_errors
  /\ skipped' = skipped \cup {ms}
  /\ ms' = ms + 1 /\ target' = "video"
  /\ pc' = IF ms = NumSegments THEN "end" ELSE "fetch"
  /\ retries' = 0
  /\ UNCHANGED <<outputVars, stateVars, inputVars, ms_audio, ret, faults>>

\* Fault: the loop continues with the same segment.
FetchSkip_Stays ==
  /\ pc = "fetch" /\ target # "map"
  /\ ignore_download_errors
  /\ skipped' = skipped \cup {ms}
  /\ retries' = 0
  /\ UNCHANGED <<outputVars, stateVars, inputVars, pc, ms, ms_audio, target, ret, faults>>

\* SEGMENT_DOWNLOAD_ERROR of a segment or its audio under -I: refused (401,
\* 403, 410) or out of retries.
FetchSkip ==
  /\ pc = "fetch" /\ target # "map"
  /\ ignore_download_errors
  /\ skipped' = skipped \cup {ms}
  /\ Advance
  /\ retries' = 0
  /\ UNCHANGED <<outputVars, stateVars, inputVars, ret, faults>>

FetchGivesUp ==
  /\ pc = "fetch"
  /\ ~ignore_download_errors \/ target = "map"
  /\ faults' = faults \cup {"download"}
  /\ ret' = 1
  /\ pc' = IF target = "map" THEN "abort" ELSE "end"
  /\ retries' = 0
  /\ UNCHANGED <<outputVars, stateVars, inputVars, ms, ms_audio, target, skipped>>

-----------------------------------------------------------------------------
(* The body of the loop in download_hls *)

Seg == playlist[ms]

\* begin_segment only makes up the file name; it may be too long.
BeginFails ==
  /\ pc = "begin" /\ separate_segments
  /\ faults' = faults \cup {"name"}
  /\ ret' = 1
  /\ pc' = "abort"
  /\ UNCHANGED <<outputVars, stateVars, inputVars, ms, ms_audio, target, retries, skipped>>

\* The section is missing, or its cached bytes cannot be written.
BeginInitFails ==
  /\ pc = "begin"
  /\ \/ InitMissing(Seg) /\ UNCHANGED outputVars
     \/ InitCopied(Seg) /\ WriteFails(Name)
  /\ faults' = faults \cup {"init"}
  /\ ret' = 1
  /\ pc' = "abort"
  /\ UNCHANGED <<stateVars, inputVars, ms, ms_audio, target, retries, skipped>>

Begin ==
  /\ pc = "begin"
  /\ \/ InitUnneeded(Seg) /\ UNCHANGED outputVars
     \/ InitCopied(Seg) /\ WriteDone(Name, InitChunk(MapBytes[state_section]))
  /\ pc' = "write"
  /\ UNCHANGED <<stateVars, inputVars, ms, ms_audio, target, retries, ret, skipped, faults>>

BeginFetchInit ==
  /\ pc = "begin"
  /\ InitFetched(Seg)
  /\ pc' = "fetch" /\ target' = "map"
  /\ UNCHANGED <<outputVars, stateVars, inputVars, ms, ms_audio, retries, ret, skipped, faults>>

WriteInit ==
  /\ pc = "write_init"
  /\ ~InitRefused(Seg)
  /\ IF InitNotRepeated(Seg)
     THEN UNCHANGED outputVars
     ELSE WriteDone(Name, InitChunk(MapBytes[Seg.map]))
  /\ RememberInit(Seg)
  /\ pc' = "write"
  /\ UNCHANGED <<inputVars, ms, ms_audio, target, retries, ret, skipped, faults>>

WriteInitFails ==
  /\ pc = "write_init"
  /\ \/ InitRefused(Seg) /\ UNCHANGED outputVars
     \/ ~InitRefused(Seg) /\ ~InitNotRepeated(Seg) /\ WriteFails(Name)
  /\ faults' = faults \cup {"init"}
  /\ ret' = 1
  /\ pc' = "abort"
  /\ UNCHANGED <<stateVars, inputVars, ms, ms_audio, target, retries, skipped>>

\* end_segment(false) after a failure before the media.
Abort ==
  /\ pc = "abort"
  /\ FinishSegment(FALSE)
  /\ pc' = "end"
  /\ UNCHANGED <<stateVars, inputVars, ms, ms_audio, target, retries, ret, skipped, faults>>

\* Three MPEG-TS packets in a row, somewhere in the segment.
StartsWithTs(kind) == kind = "ts"

\* A segment with a separate audio rendition is MPEG-TS; if its audio is too,
\* they are merged.  Packed audio is left out of what is written.
Merged == ms_audio # NULL /\ StartsWithTs(audio_kind)

WriteMedia ==
  /\ pc = "write"
  /\ WriteDone(Name, MediaChunk(ms, IF Merged THEN ms_audio ELSE 0))
  /\ pc' = "finish"
  /\ UNCHANGED <<stateVars, inputVars, ms, ms_audio, target, retries, ret, skipped, faults>>

WriteMediaFails ==
  /\ pc = "write"
  /\ WriteFails(Name)
  /\ faults' = faults \cup {"write"}
  /\ ret' \in IF Merged THEN {0, 1} ELSE {1}  \* some of the packets may be out
  /\ pc' = "finish"
  /\ UNCHANGED <<stateVars, inputVars, ms, ms_audio, target, retries, skipped>>

\* The two streams' program maps cannot be combined; nothing is written.
MergeFails ==
  /\ pc = "write" /\ Merged
  /\ faults' = faults \cup {"merge"}
  /\ ret' = 1
  /\ pc' = "finish"
  /\ UNCHANGED <<outputVars, stateVars, inputVars, ms, ms_audio, target, retries, skipped>>

Finish ==
  /\ pc = "finish"
  /\ FinishSegment(ret = 0)
  /\ ret' = IF out_failed' THEN 1 ELSE ret
  /\ faults' = IF out_failed' THEN faults \cup {"write"} ELSE faults
  /\ IF ret' = 0
     THEN wrote_media' = TRUE /\ Advance
     ELSE pc' = "end" /\ UNCHANGED <<wrote_media, ms, ms_audio, target>>
  /\ UNCHANGED <<state_section, state_discontinuity, inputVars, retries, skipped>>

\* Fault: a run that wrote nothing is not an error.
End_EmptyIsFine ==
  /\ pc = "end"
  /\ pc' = "close"
  /\ UNCHANGED <<outputVars, stateVars, inputVars, ms, ms_audio, target, retries, ret,
                 skipped, faults>>

\* "No media segments were written."
End ==
  /\ pc = "end"
  /\ ret' = IF wrote_media THEN ret ELSE 1
  /\ pc' = "close"
  /\ UNCHANGED <<outputVars, stateVars, inputVars, ms, ms_audio, target, retries,
                 skipped, faults>>

\* main closes the one file and turns any output failure into exit status 1.
Close ==
  /\ pc = "close"
  /\ \E closed \in BOOLEAN :
       LET torn == out_file # NULL /\ ~closed
       IN /\ ret' = IF torn \/ out_failed THEN 1 ELSE ret
          /\ faults' = IF torn THEN faults \cup {"write"} ELSE faults
          /\ disk' = IF torn THEN [disk EXCEPT ![out_file] = Append(@, Torn)] ELSE disk
  /\ out_file' = NULL
  /\ pc' = "exit"
  /\ UNCHANGED <<out_failed, left, stateVars, inputVars, ms, ms_audio, target, retries,
                 skipped>>

Terminating == pc = "exit" /\ UNCHANGED vars

Step ==
  \/ FetchOk \/ FetchRetry \/ FetchUnusable \/ FetchSkip \/ FetchGivesUp
  \/ BeginFails \/ BeginInitFails \/ Begin \/ BeginFetchInit
  \/ WriteInit \/ WriteInitFails \/ Abort
  \/ WriteMedia \/ WriteMediaFails \/ MergeFails
  \/ Finish \/ End \/ Close

Next == Step \/ Terminating

Spec == Init /\ [][Next]_vars /\ WF_vars(Step)

-----------------------------------------------------------------------------
(* Properties *)

Chunks == UNION {{[kind |-> "init", of |-> c, audio |-> 0] : c \in Contents},
                 {[kind |-> "media", of |-> i, audio |-> a] :
                    i \in Positions, a \in 0..NumSegments},
                 {Torn}}

TypeOK ==
  /\ out_file \in Names \cup {NULL} /\ out_failed \in BOOLEAN
  /\ \A n \in Names : disk[n] = NULL \/ disk[n] \in Seq(Chunks)
  /\ state_section \in Maps \cup {NULL} /\ wrote_media \in BOOLEAN
  /\ pc \in {"fetch", "begin", "write_init", "write", "finish", "abort", "end",
             "close", "exit"}
  /\ ms \in 1..(NumSegments + 1)
  /\ ms_audio \in Positions \cup {NULL}
  /\ target \in {"video", "audio", "map"}
  /\ retries \in 0..SegmentDownloadRetries /\ ret \in {0, 1}
  /\ skipped \subseteq Positions

Kept == {n \in Names : disk[n] # NULL}
Bytes(i) == IF playlist[i].map = NULL THEN NULL ELSE MapBytes[playlist[i].map]

\* The last section in f ahead of its k-th chunk has these bytes, or there is none.
InForce(f, k, bytes) ==
  IF bytes = NULL
  THEN \A j \in 1..(k - 1) : f[j].kind # "init"
  ELSE \E j \in 1..(k - 1) : /\ f[j] = InitChunk(bytes)
                             /\ \A i \in (j + 1)..(k - 1) : f[i].kind # "init"

\* A player that reads a file from its start meets, ahead of every segment,
\* exactly the initialization data the playlist assigns to it (README.md:
\* "Each fragmented MP4 file includes its initialization data").
Decodable ==
  \A n \in Kept : \A k \in DOMAIN disk[n] :
    disk[n][k].kind = "media" => InForce(disk[n], k, Bytes(disk[n][k].of))

\* In one file, sections other than MPEG-TS ones appear once, at the start,
\* and all segments they serve share a discontinuity (README.md: combining
\* "across discontinuities or initialization data changes is not supported").
OneInitialization ==
  ~separate_segments =>
    \A j, k \in DOMAIN disk[0] :
      LET a == disk[0][j]
          b == disk[0][k]
      IN /\ a.kind = "init" /\ a.of \notin TsContents => j = 1
         /\ a.kind = "media" /\ b.kind = "media" /\ j < k
              /\ Bytes(a.of) # NULL /\ Bytes(a.of) \notin TsContents
            => playlist[a.of].discontinuity = playlist[b.of].discontinuity

\* The segments whose media a file holds.
SegmentsIn(f) == {f[k].of : k \in {j \in DOMAIN f : f[j].kind = "media"}}

\* Exit status 0: what is on disk are the segments that were not skipped, at
\* least one, in playlist order over all files and once; no file is torn.
SuccessComplete ==
  pc = "exit" /\ ret = 0 =>
    /\ UNION {SegmentsIn(disk[n]) : n \in Kept} = Positions \ skipped
    /\ Positions \ skipped # {}
    /\ \A n, m \in Kept : \A k \in DOMAIN disk[n], l \in DOMAIN disk[m] :
         LET a == disk[n][k]
             b == disk[m][l]
         IN a.kind = "media" /\ b.kind = "media" /\ (n < m \/ (n = m /\ k < l)) => a.of < b.of
    /\ \A n \in Kept : \A k \in DOMAIN disk[n] : disk[n][k] # Torn

\* hlsdl.1 on -I: "Key, decryption, initialization section, and output errors
\* remain fatal"; without it so are failed downloads.
FaultsAreFatal == pc = "exit" /\ faults # {} => ret = 1

\* A segment is never merged with the audio of another one, also after skips.
AudioAligned ==
  \A n \in Kept : \A k \in DOMAIN disk[n] :
    disk[n][k].kind = "media" => disk[n][k].audio \in {0, disk[n][k].of}

\* With -m a file that is no longer open is one whole segment behind its
\* initialization data, whatever failed, unless it could not be removed.
SeparateFilesWhole ==
  separate_segments =>
    \A n \in Kept \ ({out_file} \cup left) :
      disk[n] = (IF Bytes(n) = NULL THEN <<>> ELSE <<InitChunk(Bytes(n))>>)
                  \o <<MediaChunk(n, Last(disk[n]).audio)>>

\* Every run comes to an end.
Terminates == <>(pc = "exit")

\* README.md on -a: "Set additional url to the audio media playlist".  A run
\* that succeeds has merged every audio segment it fetched with its segment.
AudioIsRecorded ==
  pc = "exit" /\ ret = 0 =>
    \A n \in Kept : \A k \in DOMAIN disk[n] :
      LET c == disk[n][k] IN c.kind = "media" /\ c.of <= audio_count => c.audio = c.of

=============================================================================
