-------------------------- MODULE VodDownload_proofs --------------------------
(***************************************************************************)
(* Proofs about VodDownload: for every playlist of any length, every set   *)
(* of initialization sections and every number of retries.                 *)
(***************************************************************************)
EXTENDS VodDownload, SequenceTheorems, TLAPS

\* Inside the loop of download_hls.
Working == {"fetch", "begin", "write_init", "write", "finish", "abort"}

\* Chunks whose audio, if there is any, is that of the segment.
Aligned == {c \in Chunks : c.kind = "media" => c.audio \in {0, c.of}}

Files == Seq(Aligned) \cup {NULL}

Typed ==
  /\ separate_segments \in BOOLEAN
  /\ playlist \in [Positions -> [map : Maps \cup {NULL}, discontinuity : 0..1]]
  /\ audio_count \in 0..NumSegments
  /\ out_file \in Names \cup {NULL} /\ out_failed \in BOOLEAN
  /\ disk \in [Names -> Files]
  /\ state_section \in Maps \cup {NULL} /\ wrote_media \in BOOLEAN
  /\ pc \in Working \cup {"end", "close", "exit"}
  /\ ms \in 1..(NumSegments + 1)
  /\ pc \in Working => ms \in Positions
  /\ ms_audio # NULL => ms_audio = ms /\ ms_audio <= audio_count
  /\ target \in {"video", "audio", "map"}
  /\ retries \in 0..SegmentDownloadRetries /\ ret \in {0, 1}
  /\ skipped \subseteq Positions

\* Which file is open, and that it is one.
OpenFile ==
  /\ out_file # NULL => disk[out_file] \in Seq(Aligned)
  /\ ~separate_segments => disk[0] \in Seq(Aligned)
  /\ ~separate_segments /\ pc # "exit" => out_file = 0
  /\ separate_segments /\ pc \notin {"write", "finish", "abort"} => out_file = NULL
  /\ separate_segments /\ out_file # NULL => out_file = ms

\* A section is fetched for a segment that has one.
SectionWanted ==
  pc = "write_init" \/ (pc = "fetch" /\ target = "map") => playlist[ms].map # NULL

BaseInv == Typed /\ OpenFile /\ SectionWanted

-----------------------------------------------------------------------------

LEMMA NullIsNoName == NULL \notin Positions /\ NULL # 0 /\ NULL \notin Maps \cup Contents
  BY MapsAssumption, NumSegmentsAssumption DEF Positions

LEMMA ChunksAligned ==
  /\ \A c \in Contents : InitChunk(c) \in Aligned
  /\ \A i \in Positions : \A a \in {0, i} : MediaChunk(i, a) \in Aligned
  /\ Torn \in Aligned
<1>1. Torn \in Aligned
  BY DEF Aligned, Chunks, Torn
<1>2. ASSUME NEW c \in Contents PROVE InitChunk(c) \in Aligned
  BY DEF Aligned, Chunks, InitChunk
<1>3. ASSUME NEW i \in Positions, NEW a \in {0, i} PROVE MediaChunk(i, a) \in Aligned
  <2>1. a \in 0..NumSegments
    BY NumSegmentsAssumption DEF Positions
  <2>2. MediaChunk(i, a) \in Chunks
    BY <2>1 DEF Chunks, MediaChunk
  <2> QED BY <2>2 DEF Aligned, MediaChunk
<1> QED BY <1>1, <1>2, <1>3

LEMMA BaseInit == Init => BaseInv
<1> SUFFICES ASSUME Init PROVE BaseInv
  OBVIOUS
<1>1. 1 \in Positions
  BY NumSegmentsAssumption DEF Positions
<1>2. <<>> \in Seq(Aligned)
  OBVIOUS
<1>3. /\ separate_segments \in BOOLEAN
      /\ disk = [n \in Names |-> IF separate_segments THEN NULL ELSE <<>>]
      /\ out_file = IF separate_segments THEN NULL ELSE 0
  BY DEF Init, OutputInit
<1>4. disk \in [Names -> Files] /\ out_file \in Names \cup {NULL}
  BY <1>2, <1>3 DEF Names, Files
<1>5. Typed
  <2>1. playlist \in [Positions -> [map : Maps \cup {NULL}, discontinuity : 0..1]]
    BY DEF Init, Playlists
  <2>2. 1 \in 1..(NumSegments + 1) /\ 0 \in 0..SegmentDownloadRetries
    BY NumSegmentsAssumption, RetriesAssumption
  <2>3. ms_audio # NULL => ms_audio = ms /\ ms_audio <= audio_count
    BY NumSegmentsAssumption DEF Init
  <2>4. state_section = NULL /\ wrote_media = FALSE /\ out_failed = FALSE
    BY DEF Init, OutputInit
  <2> QED BY <1>1, <1>3, <1>4, <2>1, <2>2, <2>3, <2>4 DEF Init, Typed, Working
<1>6. OpenFile
  BY <1>2, <1>3, NullIsNoName DEF Init, OpenFile, Names
<1> QED BY <1>5, <1>6 DEF BaseInv, SectionWanted, Init

\* What a successful write does to the files.
LEMMA WriteDoneOk ==
  ASSUME Typed, OpenFile, pc \in Working, NEW c \in Aligned, WriteDone(Name, c)
  PROVE  /\ Name \in Names /\ Opened(Name) \in Seq(Aligned)
         /\ disk' = [disk EXCEPT ![Name] = Append(Opened(Name), c)]
         /\ disk'[Name] = Append(Opened(Name), c)
         /\ disk'[Name] \in Seq(Aligned)
         /\ disk' \in [Names -> Files]
         /\ out_file' = Name
         /\ ~out_failed /\ out_failed' = out_failed
<1>1. Name \in Names
  BY DEF Typed, Name, Names
<1>2. out_file \in {NULL, Name}
  BY DEF Typed, OpenFile, Name, Names, Working
<1>3. Opened(Name) \in Seq(Aligned)
  BY <1>2 DEF OpenFile, Opened
<1>4. Append(Opened(Name), c) \in Seq(Aligned)
  BY <1>3
<1>5. /\ disk' = [disk EXCEPT ![Name] = Append(Opened(Name), c)]
      /\ out_file' = Name /\ ~out_failed /\ out_failed' = out_failed
  BY DEF WriteDone
<1> QED BY <1>1, <1>3, <1>4, <1>5 DEF Typed, Files

\* What a failing write does to them.
LEMMA WriteFailsOk ==
  ASSUME Typed, OpenFile, pc \in Working, WriteFails(Name)
  PROVE  /\ Name \in Names /\ Opened(Name) \in Seq(Aligned)
         /\ out_failed'
         /\ \/ disk' = disk /\ out_file' = out_file
            \/ /\ disk' = [disk EXCEPT ![Name] = Append(Opened(Name), Torn)]
               /\ out_file' = Name
         /\ disk' \in [Names -> Files] /\ out_file' \in Names \cup {NULL}
         /\ out_file' # NULL => out_file' = Name /\ disk'[Name] \in Seq(Aligned)
         /\ ~separate_segments => out_file' = 0
<1>1. Name \in Names
  BY DEF Typed, Name, Names
<1>2. out_file \in {NULL, Name}
  BY DEF Typed, OpenFile, Name, Names, Working
<1>3. Opened(Name) \in Seq(Aligned)
  BY <1>2 DEF OpenFile, Opened
<1>4. Append(Opened(Name), Torn) \in Seq(Aligned)
  BY <1>3, ChunksAligned
<1>5. /\ out_failed'
      /\ \/ disk' = disk /\ out_file' = out_file
         \/ /\ disk' = [disk EXCEPT ![Name] = Append(Opened(Name), Torn)]
            /\ out_file' = Name
  BY DEF WriteFails, outputVars
<1>6. ~separate_segments => out_file = 0 /\ Name = 0
  BY DEF OpenFile, Working, Name
<1>7. CASE disk' = disk /\ out_file' = out_file
  BY <1>1, <1>2, <1>3, <1>5, <1>6, <1>7 DEF Typed, OpenFile
<1>8. CASE disk' = [disk EXCEPT ![Name] = Append(Opened(Name), Torn)] /\ out_file' = Name
  <2>1. disk' \in [Names -> Files] /\ disk'[Name] = Append(Opened(Name), Torn)
    BY <1>1, <1>4, <1>8 DEF Typed, Files
  <2> QED BY <1>1, <1>3, <1>4, <1>5, <1>6, <1>8, <2>1
<1> QED BY <1>5, <1>7, <1>8

\* What becomes of the file of a segment that is over.
LEMMA FinishOk ==
  ASSUME Typed, OpenFile, NEW success \in BOOLEAN, FinishSegment(success)
  PROVE  /\ disk' \in [Names -> Files] /\ out_file' \in Names \cup {NULL}
         /\ out_failed' \in BOOLEAN /\ (out_failed => out_failed')
         /\ ~separate_segments => UNCHANGED outputVars
         /\ separate_segments => out_file' = NULL
         /\ left \subseteq left'
         /\ \A n \in Names :
              \/ n # out_file /\ disk'[n] = disk[n]
              \/ n = out_file /\ disk'[n] \in {NULL, disk[n], Append(disk[n], Torn)}
         /\ separate_segments =>
              \A n \in Names :
                \/ n # out_file /\ disk'[n] = disk[n]
                \/ disk'[n] = NULL
                \/ n \in left'
                \/ n = out_file /\ success /\ ~out_failed /\ disk'[n] = disk[n]
<1>1. CASE separate_segments /\ out_file # NULL
  <2>1. PICK closed \in BOOLEAN, removed \in BOOLEAN :
          /\ out_failed' = (out_failed \/ ~closed)
          /\ out_file' = NULL
          /\ disk' = [disk EXCEPT ![out_file] =
                        IF ~(success /\ ~out_failed') /\ removed THEN NULL
                        ELSE Closed(disk[out_file], closed)]
          /\ left' = IF (success /\ ~out_failed') \/ removed THEN left ELSE left \cup {out_file}
    BY <1>1 DEF FinishSegment
  <2>2. out_file \in Names /\ disk[out_file] \in Seq(Aligned)
    BY <1>1 DEF Typed, OpenFile
  <2>3. /\ Append(disk[out_file], Torn) \in Seq(Aligned)
        /\ Closed(disk[out_file], closed) \in {disk[out_file], Append(disk[out_file], Torn)}
    BY <2>2, ChunksAligned DEF Closed
  <2>4. \A n \in Names : n # out_file => disk'[n] = disk[n]
    BY <2>1 DEF Typed
  <2>5. disk'[out_file] = IF ~(success /\ ~out_failed') /\ removed THEN NULL
                          ELSE Closed(disk[out_file], closed)
    BY <2>1, <2>2 DEF Typed
  <2>6. disk' \in [Names -> Files]
    BY <2>1, <2>2, <2>3 DEF Typed, Files
  <2>7. \/ disk'[out_file] = NULL
        \/ out_file \in left'
        \/ success /\ ~out_failed /\ disk'[out_file] = disk[out_file]
    BY <2>1, <2>5 DEF Closed
  <2>8. out_failed' \in BOOLEAN /\ (out_failed => out_failed') /\ left \subseteq left'
    BY <2>1 DEF Typed
  <2>9. disk'[out_file] \in {NULL, disk[out_file], Append(disk[out_file], Torn)}
    BY <2>3, <2>5
  <2> QED BY <1>1, <2>1, <2>4, <2>6, <2>7, <2>8, <2>9
<1>2. CASE ~(separate_segments /\ out_file # NULL)
  <2>1. UNCHANGED outputVars
    BY <1>2 DEF FinishSegment
  <2>2. separate_segments => out_file = NULL /\ out_file \notin Names
    BY <1>2, NullIsNoName DEF Names
  <2> QED BY <1>2, <2>1, <2>2 DEF Typed, outputVars
<1> QED BY <1>1, <1>2

-----------------------------------------------------------------------------
(* Types, the open file, and that audio stays beside its segment *)

\* The position moves on to a segment, or behind the last one.
LEMMA AdvanceOk ==
  ASSUME BaseInv, ms \in Positions, Advance
  PROVE  /\ ms' \in 1..(NumSegments + 1) /\ pc' \in {"fetch", "end"} /\ target' = "video"
         /\ pc' = "fetch" => ms' \in Positions
         /\ ms_audio' # NULL => ms_audio' = ms' /\ ms_audio' <= audio_count
<1>1. ms \in 1..NumSegments /\ NumSegments \in Nat /\ audio_count \in 0..NumSegments
  BY NumSegmentsAssumption DEF Positions, BaseInv, Typed
<1>2. ms' = ms + 1 /\ target' = "video" /\ pc' = IF ms = NumSegments THEN "end" ELSE "fetch"
  BY DEF Advance
<1>3. ms_audio' = NextAudio
  BY DEF Advance
<1>4. ms_audio' # NULL => ms_audio = ms /\ ms # audio_count /\ ms <= audio_count /\ ms_audio' = ms + 1
  BY <1>3 DEF NextAudio, BaseInv, Typed
<1> QED BY <1>1, <1>2, <1>4 DEF Positions

\* Steps that leave the files alone.
Quiet ==
  \/ FetchOk \/ FetchRetry \/ FetchUnusable \/ FetchSkip \/ FetchGivesUp
  \/ BeginFails \/ BeginFetchInit \/ MergeFails \/ End
  \/ Begin /\ UNCHANGED outputVars
  \/ BeginInitFails /\ UNCHANGED outputVars
  \/ WriteInitFails /\ UNCHANGED outputVars

LEMMA QuietOk ==
  ASSUME BaseInv, Quiet
  PROVE  BaseInv' /\ UNCHANGED <<outputVars, stateVars, inputVars>>
<1> USE DEF BaseInv, Working
<1>1. UNCHANGED <<outputVars, stateVars, inputVars>>
  BY DEF Quiet, FetchOk, FetchRetry, FetchUnusable, FetchSkip, FetchGivesUp, BeginFails,
     BeginFetchInit, MergeFails, End, Begin, BeginInitFails, WriteInitFails
<1>2. /\ UNCHANGED <<out_file, out_failed, disk, left, state_section, wrote_media,
                     separate_segments, playlist, audio_count>>
      /\ Names' = Names
  BY <1>1 DEF outputVars, stateVars, inputVars, Names
<1>3. CASE FetchOk
  <2>1. SectionWanted'
    BY <1>2, <1>3 DEF FetchOk, SectionWanted
  <2>2. OpenFile'
    BY <1>2, <1>3 DEF FetchOk, OpenFile
  <2>3. Typed'
    BY <1>2, <1>3, RetriesAssumption DEF FetchOk, Typed
  <2> QED BY <1>1, <2>1, <2>2, <2>3
<1>4. CASE FetchRetry
  <2>1. retries' \in 0..SegmentDownloadRetries
    BY <1>4, RetriesAssumption DEF FetchRetry, Typed
  <2> QED BY <1>1, <1>2, <1>4, <2>1 DEF FetchRetry, Typed, OpenFile, SectionWanted
<1>5. CASE FetchUnusable \/ FetchGivesUp
  BY <1>1, <1>2, <1>5, RetriesAssumption
  DEF FetchUnusable, FetchGivesUp, Typed, OpenFile, SectionWanted
<1>6. CASE FetchSkip
  <2>1. ms \in Positions /\ pc = "fetch" /\ Advance /\ retries' = 0 /\ UNCHANGED ret
        /\ skipped' = skipped \cup {ms}
    BY <1>6 DEF FetchSkip, Typed
  <2>2. /\ ms' \in 1..(NumSegments + 1) /\ pc' \in {"fetch", "end"} /\ target' = "video"
        /\ pc' = "fetch" => ms' \in Positions
        /\ ms_audio' # NULL => ms_audio' = ms' /\ ms_audio' <= audio_count
    BY <2>1, AdvanceOk
  <2>3. Typed'
    BY <1>2, <2>1, <2>2, RetriesAssumption DEF Typed
  <2>4. OpenFile' /\ SectionWanted'
    BY <1>2, <2>1, <2>2 DEF OpenFile, SectionWanted
  <2> QED BY <1>1, <2>3, <2>4
<1>7. CASE BeginFails \/ BeginInitFails \/ Begin \/ WriteInitFails
  BY <1>1, <1>2, <1>7
  DEF BeginFails, BeginInitFails, Begin, WriteInitFails, Typed, OpenFile, SectionWanted
<1>8. CASE BeginFetchInit
  <2>1. playlist[ms].map # NULL
    BY <1>8 DEF BeginFetchInit, InitFetched, Seg
  <2> QED BY <1>1, <1>2, <1>8, <2>1 DEF BeginFetchInit, Typed, OpenFile, SectionWanted
<1>9. CASE MergeFails \/ End
  BY <1>1, <1>2, <1>9 DEF MergeFails, End, Typed, OpenFile, SectionWanted
<1> QED BY <1>3, <1>4, <1>5, <1>6, <1>7, <1>8, <1>9 DEF Quiet

\* The bytes written are those of a section, the media has its own audio.
LEMMA WrittenAligned ==
  ASSUME BaseInv, pc \in Working
  PROVE  /\ InitCopied(Seg) => InitChunk(MapBytes[state_section]) \in Aligned
         /\ pc = "write_init" => InitChunk(MapBytes[Seg.map]) \in Aligned
         /\ MediaChunk(ms, IF Merged THEN ms_audio ELSE 0) \in Aligned
<1>1. ms \in Positions /\ Seg.map \in Maps \cup {NULL}
  BY DEF BaseInv, Typed, Seg
<1>2. InitCopied(Seg) => state_section \in Maps
  BY <1>1 DEF InitCopied, InitIsCurrent, BaseInv, Typed
<1>3. pc = "write_init" => Seg.map \in Maps
  BY <1>1 DEF BaseInv, SectionWanted, Seg
<1>4. (IF Merged THEN ms_audio ELSE 0) \in {0, ms}
  BY DEF BaseInv, Typed, Merged
<1> QED BY <1>1, <1>2, <1>3, <1>4, MapsAssumption, ChunksAligned

\* Steps that touch them.
LEMMA BeginStep ==
  ASSUME BaseInv, Begin, InitCopied(Seg), WriteDone(Name, InitChunk(MapBytes[state_section]))
  PROVE  BaseInv'
<1> USE DEF BaseInv, Working
<1> DEFINE c == InitChunk(MapBytes[state_section])
<1>1. /\ pc = "begin" /\ pc' = "write"
      /\ UNCHANGED <<stateVars, inputVars, ms, ms_audio, target, retries, ret, skipped>>
  BY DEF Begin
<1>2. UNCHANGED <<state_section, wrote_media, separate_segments, playlist, audio_count>>
      /\ Names' = Names
  BY <1>1 DEF stateVars, inputVars, Names
<1>3. c \in Aligned
  BY <1>1, WrittenAligned
<1> HIDE DEF c
<1>4. WriteDone(Name, c)
  BY DEF c
<1>5. /\ Name \in Names /\ disk'[Name] \in Seq(Aligned) /\ disk' \in [Names -> Files]
      /\ out_file' = Name /\ out_failed' = out_failed
  BY <1>1, <1>3, <1>4, WriteDoneOk
<1>6. Typed'
  BY <1>1, <1>2, <1>5 DEF Typed
<1>7. OpenFile' /\ SectionWanted'
  BY <1>1, <1>2, <1>5, NullIsNoName DEF OpenFile, SectionWanted, Name
<1> QED BY <1>6, <1>7

LEMMA WriteInitStep ==
  ASSUME BaseInv, WriteInit
  PROVE  BaseInv'
<1> USE DEF BaseInv, Working
<1> DEFINE c == InitChunk(MapBytes[Seg.map])
<1>1. /\ pc = "write_init" /\ pc' = "write"
      /\ UNCHANGED <<inputVars, ms, ms_audio, target, retries, ret, skipped, wrote_media>>
      /\ state_section' = Seg.map
      /\ UNCHANGED outputVars \/ WriteDone(Name, c)
  BY DEF WriteInit, RememberInit
<1>2. UNCHANGED <<separate_segments, playlist, audio_count>> /\ Names' = Names
  BY <1>1 DEF inputVars, Names
<1>3. c \in Aligned
  BY <1>1, WrittenAligned
<1>4. state_section' \in Maps \cup {NULL}
  BY <1>1 DEF Typed, Seg
<1> HIDE DEF c
<1>5. CASE UNCHANGED outputVars
  <2>1. UNCHANGED <<disk, out_file, out_failed>>
    BY <1>5 DEF outputVars
  <2>2. Typed'
    BY <1>1, <1>2, <1>4, <2>1 DEF Typed
  <2> QED BY <1>1, <1>2, <2>1, <2>2 DEF OpenFile, SectionWanted
<1>6. CASE WriteDone(Name, c)
  <2>1. /\ Name \in Names /\ disk'[Name] \in Seq(Aligned) /\ disk' \in [Names -> Files]
        /\ out_file' = Name /\ out_failed' = out_failed
    BY <1>1, <1>3, <1>6, WriteDoneOk
  <2>2. Typed'
    BY <1>1, <1>2, <1>4, <2>1 DEF Typed
  <2>3. OpenFile' /\ SectionWanted'
    BY <1>1, <1>2, <2>1, NullIsNoName DEF OpenFile, SectionWanted, Name
  <2> QED BY <2>2, <2>3
<1> QED BY <1>1, <1>5, <1>6

LEMMA WriteMediaStep ==
  ASSUME BaseInv, WriteMedia
  PROVE  BaseInv'
<1> USE DEF BaseInv, Working
<1> DEFINE c == MediaChunk(ms, IF Merged THEN ms_audio ELSE 0)
<1>1. /\ pc = "write" /\ pc' = "finish" /\ WriteDone(Name, c)
      /\ UNCHANGED <<stateVars, inputVars, ms, ms_audio, target, retries, ret, skipped>>
  BY DEF WriteMedia
<1>2. UNCHANGED <<state_section, wrote_media, separate_segments, playlist, audio_count>>
      /\ Names' = Names
  BY <1>1 DEF stateVars, inputVars, Names
<1>3. c \in Aligned
  BY <1>1, WrittenAligned
<1> HIDE DEF c
<1>4. /\ Name \in Names /\ disk'[Name] \in Seq(Aligned) /\ disk' \in [Names -> Files]
      /\ out_file' = Name /\ out_failed' = out_failed
  BY <1>1, <1>3, WriteDoneOk
<1>5. Typed'
  BY <1>1, <1>2, <1>4 DEF Typed
<1>6. OpenFile' /\ SectionWanted'
  BY <1>1, <1>2, <1>4, NullIsNoName DEF OpenFile, SectionWanted, Name
<1> QED BY <1>5, <1>6

\* BeginInitFails, WriteInitFails or WriteMediaFails at a write
FailedWrite ==
  /\ BeginInitFails \/ WriteInitFails \/ WriteMediaFails
  /\ WriteFails(Name)

LEMMA FailedWriteStep ==
  ASSUME BaseInv, FailedWrite
  PROVE  BaseInv'
<1> USE DEF BaseInv, Working
<1>1. /\ pc \in Working /\ pc' \in {"abort", "finish"} /\ ret' \in {0, 1}
      /\ UNCHANGED <<stateVars, inputVars, ms, ms_audio, target, retries, skipped>>
  BY DEF FailedWrite, BeginInitFails, WriteInitFails, WriteMediaFails
<1>2. UNCHANGED <<state_section, wrote_media, separate_segments, playlist, audio_count>>
      /\ Names' = Names
  BY <1>1 DEF stateVars, inputVars, Names
<1>3. /\ out_failed'
      /\ disk' \in [Names -> Files] /\ out_file' \in Names \cup {NULL}
      /\ out_file' # NULL => out_file' = Name /\ disk'[Name] \in Seq(Aligned)
      /\ ~separate_segments => out_file' = 0
  BY <1>1, WriteFailsOk DEF FailedWrite
<1>4. out_failed' = TRUE
  <2>1. out_failed => out_failed = TRUE
    BY DEF Typed
  <2> QED BY <1>3, <2>1 DEF FailedWrite, WriteFails, outputVars
<1>5. Typed'
  BY <1>1, <1>2, <1>3, <1>4 DEF Typed
<1>6. OpenFile' /\ SectionWanted'
  BY <1>1, <1>2, <1>3, NullIsNoName DEF OpenFile, SectionWanted, Name
<1> QED BY <1>5, <1>6

LEMMA AbortStep ==
  ASSUME BaseInv, Abort
  PROVE  BaseInv'
<1> USE DEF BaseInv, Working
<1>1. /\ pc = "abort" /\ pc' = "end" /\ FinishSegment(FALSE)
      /\ UNCHANGED <<stateVars, inputVars, ms, ms_audio, target, retries, ret, skipped>>
  BY DEF Abort
<1>2. UNCHANGED <<state_section, wrote_media, separate_segments, playlist, audio_count>>
      /\ Names' = Names
  BY <1>1 DEF stateVars, inputVars, Names
<1>3. /\ disk' \in [Names -> Files] /\ out_file' \in Names \cup {NULL} /\ out_failed' \in BOOLEAN
      /\ ~separate_segments => UNCHANGED outputVars
      /\ separate_segments => out_file' = NULL
  BY <1>1, FinishOk
<1>4. Typed'
  BY <1>1, <1>2, <1>3 DEF Typed
<1>5. ~separate_segments => UNCHANGED <<disk, out_file>>
  BY <1>3 DEF outputVars
<1>6. OpenFile' /\ SectionWanted'
  BY <1>1, <1>2, <1>3, <1>5 DEF OpenFile, SectionWanted
<1> QED BY <1>4, <1>6

LEMMA FinishStep ==
  ASSUME BaseInv, Finish
  PROVE  BaseInv'
<1> USE DEF BaseInv, Working
<1>1. /\ pc = "finish" /\ FinishSegment(ret = 0) /\ (ret = 0) \in BOOLEAN
      /\ ret' = IF out_failed' THEN 1 ELSE ret
      /\ UNCHANGED <<state_section, inputVars, retries, skipped>>
      /\ IF ret' = 0
         THEN wrote_media' = TRUE /\ Advance
         ELSE pc' = "end" /\ UNCHANGED <<wrote_media, ms, ms_audio, target>>
  BY DEF Finish
<1>2. UNCHANGED <<separate_segments, playlist, audio_count>> /\ Names' = Names
  BY <1>1 DEF inputVars, Names
<1>3. /\ disk' \in [Names -> Files] /\ out_file' \in Names \cup {NULL} /\ out_failed' \in BOOLEAN
      /\ ~separate_segments => UNCHANGED outputVars
      /\ separate_segments => out_file' = NULL
  BY <1>1, FinishOk
<1>4. /\ ms' \in 1..(NumSegments + 1) /\ pc' \in {"fetch", "end"}
      /\ target' \in {"video", "audio", "map"} /\ wrote_media' \in BOOLEAN
      /\ pc' = "fetch" => ms' \in Positions /\ target' = "video"
      /\ ms_audio' # NULL => ms_audio' = ms' /\ ms_audio' <= audio_count
  BY <1>1, AdvanceOk DEF Typed
<1>5. Typed'
  BY <1>1, <1>2, <1>3, <1>4 DEF Typed
<1>6. ~separate_segments => UNCHANGED <<disk, out_file>>
  BY <1>3 DEF outputVars
<1>7. OpenFile' /\ SectionWanted'
  BY <1>1, <1>2, <1>3, <1>4, <1>6 DEF OpenFile, SectionWanted
<1> QED BY <1>5, <1>7

\* After the one file was closed, or not without loss.
LEMMA CloseFile ==
  ASSUME BaseInv, Close
  PROVE  /\ \/ disk' = disk
            \/ /\ out_file \in Names
               /\ disk' = [disk EXCEPT ![out_file] = Append(disk[out_file], Torn)]
               /\ Append(disk[out_file], Torn) \in Seq(Aligned)
         /\ disk' \in [Names -> Files]
         /\ ret' \in {0, 1} /\ (out_failed => ret' = 1) /\ (ret = 1 => ret' = 1)
<1>1. PICK closed \in BOOLEAN :
        LET torn == out_file # NULL /\ ~closed
        IN /\ ret' = IF torn \/ out_failed THEN 1 ELSE ret
           /\ disk' = IF torn THEN [disk EXCEPT ![out_file] = Append(@, Torn)] ELSE disk
  BY DEF Close
<1>2. CASE out_file # NULL /\ ~closed
  <2>1. out_file \in Names /\ disk[out_file] \in Seq(Aligned)
    BY <1>2 DEF BaseInv, Typed, OpenFile
  <2>2. Append(disk[out_file], Torn) \in Seq(Aligned)
    BY <2>1, ChunksAligned
  <2> QED BY <1>1, <1>2, <2>1, <2>2 DEF BaseInv, Typed, Files
<1>3. CASE ~(out_file # NULL /\ ~closed)
  BY <1>1, <1>3 DEF BaseInv, Typed
<1> QED BY <1>2, <1>3

LEMMA CloseStep ==
  ASSUME BaseInv, Close
  PROVE  BaseInv'
<1> USE DEF BaseInv, Working
<1>1. /\ pc = "close" /\ pc' = "exit" /\ out_file' = NULL /\ UNCHANGED out_failed
      /\ UNCHANGED <<stateVars, inputVars, ms, ms_audio, target, retries, skipped>>
  BY DEF Close
<1>2. UNCHANGED <<state_section, wrote_media, separate_segments, playlist, audio_count>>
      /\ Names' = Names
  BY <1>1 DEF stateVars, inputVars, Names
<1>3. disk' \in [Names -> Files] /\ ret' \in {0, 1}
  BY CloseFile
<1>4. ~separate_segments => disk'[0] \in Seq(Aligned)
  BY CloseFile, <1>1 DEF OpenFile, Typed, Names
<1>5. Typed'
  BY <1>1, <1>2, <1>3 DEF Typed
<1>6. OpenFile' /\ SectionWanted'
  BY <1>1, <1>2, <1>3, <1>4 DEF OpenFile, SectionWanted
<1> QED BY <1>5, <1>6

\* Every step is one of these.
LEMMA Steps ==
  ASSUME Step
  PROVE  \/ Quiet \/ FailedWrite \/ WriteInit \/ WriteMedia \/ Abort \/ Finish \/ Close
         \/ Begin /\ InitCopied(Seg) /\ WriteDone(Name, InitChunk(MapBytes[state_section]))
<1>1. Begin => \/ UNCHANGED outputVars
               \/ InitCopied(Seg) /\ WriteDone(Name, InitChunk(MapBytes[state_section]))
  BY DEF Begin
<1>2. BeginInitFails => UNCHANGED outputVars \/ WriteFails(Name)
  BY DEF BeginInitFails
<1>3. WriteInitFails => UNCHANGED outputVars \/ WriteFails(Name)
  BY DEF WriteInitFails
<1>4. WriteMediaFails => WriteFails(Name)
  BY DEF WriteMediaFails
<1> QED BY <1>1, <1>2, <1>3, <1>4 DEF Step, Quiet, FailedWrite

LEMMA BaseStep == BaseInv /\ [Next]_vars => BaseInv'
<1> SUFFICES ASSUME BaseInv, [Next]_vars PROVE BaseInv'
  OBVIOUS
<1>1. CASE Step
  BY <1>1, Steps, QuietOk, FailedWriteStep, BeginStep, WriteInitStep, WriteMediaStep,
     AbortStep, FinishStep, CloseStep
<1>2. CASE UNCHANGED vars
  <2>1. UNCHANGED <<out_file, out_failed, disk, state_section, wrote_media, separate_segments,
                    playlist, audio_count, pc, ms, ms_audio, target, retries, ret, skipped>>
        /\ Names' = Names
    BY <1>2 DEF vars, outputVars, stateVars, inputVars, loopVars, Names
  <2>2. Typed'
    BY <2>1 DEF BaseInv, Typed
  <2> QED BY <2>1, <2>2 DEF BaseInv, OpenFile, SectionWanted
<1> QED BY <1>1, <1>2 DEF Next, Terminating

\* Types, and how the segment in hand and its audio, the file that is open and
\* the place in the loop belong together.
THEOREM BaseInvariant == Spec => []BaseInv
<1> QED BY BaseInit, BaseStep, PTL DEF Spec

\* Types, and that the file that is open exists.
THEOREM TypeCorrect == Spec => []TypeOK
<1>1. BaseInv => TypeOK
  <2> SUFFICES ASSUME BaseInv PROVE TypeOK
    OBVIOUS
  <2>1. Aligned \subseteq Chunks /\ Seq(Aligned) \subseteq Seq(Chunks)
    BY DEF Aligned
  <2>2. ms_audio \in Positions \cup {NULL}
    BY NumSegmentsAssumption DEF BaseInv, Typed, Positions
  <2> QED BY <2>1, <2>2 DEF BaseInv, Typed, TypeOK, Working, Files
<1> QED BY <1>1, BaseInvariant, PTL

\* A segment is never written with the audio of another one, whatever is
\* skipped, for playlists of any two lengths.
THEOREM AudioAlwaysAligned == Spec => []AudioAligned
<1>1. BaseInv => AudioAligned
  <2> SUFFICES ASSUME BaseInv, NEW n \in Kept, NEW k \in DOMAIN disk[n]
               PROVE  disk[n][k].kind = "media" => disk[n][k].audio \in {0, disk[n][k].of}
    BY DEF AudioAligned
  <2>1. disk[n] \in Seq(Aligned)
    BY DEF BaseInv, Typed, Files, Kept
  <2>2. disk[n][k] \in Aligned
    BY <2>1
  <2> QED BY <2>2 DEF Aligned
<1> QED BY <1>1, BaseInvariant, PTL

-----------------------------------------------------------------------------
(* The exit status *)

\* A failure is remembered, in the result of the download or in the output.
FaultsKept == /\ faults # {} => ret = 1 \/ out_failed
              /\ pc = "exit" /\ faults # {} => ret = 1

LEMMA FaultsStep ==
  ASSUME BaseInv, FaultsKept, Step
  PROVE  FaultsKept'
<1> USE DEF FaultsKept
<1>1. CASE FetchOk \/ FetchRetry \/ FetchSkip \/ BeginFetchInit \/ Begin \/ WriteInit \/ WriteMedia
  <2>1. UNCHANGED <<faults, ret, out_failed>> /\ pc # "exit" /\ pc' # "exit"
    BY <1>1 DEF FetchOk, FetchRetry, FetchSkip, BeginFetchInit, Begin, WriteInit, WriteMedia,
       Advance, WriteDone, outputVars
  <2> QED BY <2>1
<1>2. CASE FetchUnusable \/ FetchGivesUp \/ BeginFails \/ BeginInitFails \/ WriteInitFails \/ MergeFails
  <2>1. ret' = 1
    BY <1>2 DEF FetchUnusable, FetchGivesUp, BeginFails, BeginInitFails, WriteInitFails, MergeFails
  <2> QED BY <2>1
<1>3. CASE WriteMediaFails
  <2>1. out_failed' /\ pc' # "exit"
    BY <1>3, WriteFailsOk DEF WriteMediaFails, BaseInv, Working
  <2> QED BY <2>1
<1>4. CASE Abort
  <2>1. (out_failed => out_failed') /\ UNCHANGED <<ret, faults>> /\ pc' # "exit"
    BY <1>4, FinishOk DEF Abort, BaseInv
  <2> QED BY <2>1
<1>5. CASE Finish
  <2>1. /\ FinishSegment(ret = 0) /\ (ret = 0) \in BOOLEAN
        /\ ret' = IF out_failed' THEN 1 ELSE ret
        /\ faults' = IF out_failed' THEN faults \cup {"write"} ELSE faults
        /\ pc' # "exit"
    BY <1>5 DEF Finish, Advance
  <2>2. out_failed => out_failed'
    BY <2>1, FinishOk DEF BaseInv
  <2> QED BY <2>1, <2>2
<1>6. CASE End
  <2>1. /\ ret' = (IF wrote_media THEN ret ELSE 1) /\ UNCHANGED <<faults, out_failed>>
        /\ pc' # "exit"
    BY <1>6 DEF End, outputVars
  <2> QED BY <2>1
<1>7. CASE Close
  <2>1. PICK closed \in BOOLEAN :
          LET torn == out_file # NULL /\ ~closed
          IN /\ ret' = IF torn \/ out_failed THEN 1 ELSE ret
             /\ faults' = IF torn THEN faults \cup {"write"} ELSE faults
    BY <1>7 DEF Close
  <2> QED BY <2>1
<1> QED BY <1>1, <1>2, <1>3, <1>4, <1>5, <1>6, <1>7 DEF Step

\* Whatever fails apart from a download under -I, even if the same failure is
\* met as partial output of a merge, the run's exit status is 1.
THEOREM FaultsAlwaysFatal == Spec => []FaultsAreFatal
<1>1. Init => FaultsKept
  BY DEF Init, FaultsKept
<1>2. BaseInv /\ FaultsKept /\ [Next]_vars => FaultsKept'
  <2>1. UNCHANGED vars /\ FaultsKept => FaultsKept'
    BY DEF vars, outputVars, loopVars, FaultsKept
  <2> QED BY <2>1, FaultsStep DEF Next, Terminating
<1>3. FaultsKept => FaultsAreFatal
  BY DEF FaultsKept, FaultsAreFatal
<1> QED BY <1>1, <1>2, <1>3, BaseInvariant, PTL DEF Spec

-----------------------------------------------------------------------------
(* With -m: files are whole *)

Prefix(i) == IF Bytes(i) = NULL THEN <<>> ELSE <<InitChunk(Bytes(i))>>
SegmentFile(i, a) == Append(Prefix(i), MediaChunk(i, a))
Whole(n) == \E a \in 0..NumSegments : disk[n] = SegmentFile(n, a)

\* Before the media is written the file holds what goes ahead of it, and what
\* is finished without an error is the file of the segment.
FilesWhole ==
  separate_segments =>
    /\ \A n \in Kept \ ({out_file} \cup left) : Whole(n)
    /\ pc = "write" => Opened(ms) = Prefix(ms)
    /\ pc = "finish" /\ ret = 0 /\ ~out_failed => out_file = ms /\ Whole(ms)

\* Bytes behind the sections of segments.
LEMMA BytesOf ==
  ASSUME BaseInv, ms \in Positions
  PROVE  /\ playlist[ms].map = NULL => Bytes(ms) = NULL
         /\ playlist[ms].map # NULL => Bytes(ms) = MapBytes[playlist[ms].map] /\ Bytes(ms) # NULL
<1>1. playlist[ms].map \in Maps \cup {NULL}
  BY DEF BaseInv, Typed
<1> QED BY <1>1, MapsAssumption DEF Bytes

LEMMA WholeUnchanged ==
  ASSUME NEW n, disk'[n] = disk[n], UNCHANGED inputVars
  PROVE  Whole(n)' <=> Whole(n)
<1>1. playlist' = playlist
  BY DEF inputVars
<1> QED BY <1>1 DEF Whole, SegmentFile, Prefix, Bytes

\* A step that only writes to the file of the segment keeps the others whole.
LEMMA OthersWhole ==
  ASSUME BaseInv, FilesWhole, separate_segments, UNCHANGED inputVars, pc \in Working,
         left \subseteq left',
         \/ disk' = disk /\ out_file' = out_file
         \/ \E f : disk' = [disk EXCEPT ![Name] = f] /\ out_file' = Name
  PROVE  \A n \in Kept' \ ({out_file'} \cup left') : Whole(n)'
<1> SUFFICES ASSUME NEW n \in Kept', n # out_file', n \notin left'
             PROVE  Whole(n)'
  OBVIOUS
<1>1. n \in Names /\ n \notin left
  BY DEF Kept, Names, inputVars
<1>2. CASE disk' = disk /\ out_file' = out_file
  <2>1. n \in Kept /\ disk'[n] = disk[n]
    BY <1>1, <1>2 DEF Kept
  <2> QED BY <1>1, <1>2, <2>1, WholeUnchanged DEF FilesWhole
<1>3. CASE \E f : disk' = [disk EXCEPT ![Name] = f] /\ out_file' = Name
  <2>1. disk'[n] = disk[n] /\ n # Name
    BY <1>1, <1>3 DEF BaseInv, Typed
  <2>2. out_file \in {NULL, Name}
    BY DEF BaseInv, OpenFile, Name
  <2>3. n \in Kept /\ n # out_file
    BY <1>1, <2>1, <2>2, NullIsNoName DEF Kept, Names
  <2> QED BY <1>1, <2>1, <2>3, WholeUnchanged DEF FilesWhole
<1> QED BY <1>2, <1>3

LEMMA WholeStep ==
  ASSUME BaseInv, FilesWhole, Step
  PROVE  FilesWhole'
<1>1. UNCHANGED inputVars
  BY DEF Step, FetchOk, FetchRetry, FetchUnusable, FetchSkip, FetchGivesUp, BeginFails,
     BeginFetchInit, MergeFails, End, Begin, BeginInitFails, WriteInitFails, WriteInit,
     WriteMedia, WriteMediaFails, Abort, Finish, Close
<1>2. UNCHANGED <<separate_segments, playlist>> /\ Names' = Names
  BY <1>1 DEF inputVars, Names
<1> SUFFICES ASSUME separate_segments PROVE FilesWhole'
  BY <1>2 DEF FilesWhole
<1>3. Name = ms
  BY DEF Name
<1>4. CASE Quiet
  <2>1. UNCHANGED <<disk, out_file, left, out_failed>>
    BY <1>4, QuietOk DEF outputVars
  <2>2. \A n \in Kept' \ ({out_file'} \cup left') : Whole(n)'
    <3> SUFFICES ASSUME NEW n \in Kept', n # out_file', n \notin left' PROVE Whole(n)'
      OBVIOUS
    <3>1. n \in Kept
      BY <1>2, <2>1 DEF Kept
    <3>2. Whole(n)
      BY <2>1, <3>1 DEF FilesWhole
    <3> QED BY <1>1, <2>1, <3>2, WholeUnchanged
  <2>3. CASE pc' # "write"
    <3>1. pc' = "finish" => ret' = 1
      BY <1>4, <2>3 DEF Quiet, FetchOk, FetchRetry, FetchUnusable, FetchSkip, FetchGivesUp,
         BeginFails, BeginFetchInit, MergeFails, End, Begin, BeginInitFails, WriteInitFails, Advance
    <3> QED BY <2>2, <2>3, <3>1 DEF FilesWhole
  <2>4. CASE pc' = "write"
    <3>1. pc = "begin" /\ ms' = ms /\ Begin
      BY <1>4, <2>4 DEF Quiet, FetchOk, FetchRetry, FetchUnusable, FetchSkip, FetchGivesUp,
         BeginFails, BeginFetchInit, MergeFails, End, Begin, BeginInitFails, WriteInitFails, Advance
    <3>2. out_file = NULL /\ out_file' = NULL /\ ms \in Positions
      BY <2>1, <3>1 DEF BaseInv, OpenFile, Typed, Working
    <3>3. InitUnneeded(Seg)
      BY <1>3, <3>1, <3>2, NullIsNoName DEF Begin, WriteDone
    <3>4. playlist[ms].map = NULL
      BY <3>3 DEF InitUnneeded, Seg
    <3>5. Prefix(ms) = <<>> /\ Prefix(ms)' = Prefix(ms)
      BY <1>2, <3>1, <3>2, <3>4, BytesOf DEF Prefix, Bytes
    <3>6. Opened(ms)' = <<>>
      BY <3>2 DEF Opened
    <3> QED BY <2>2, <2>4, <3>1, <3>5, <3>6 DEF FilesWhole
  <2> QED BY <2>3, <2>4
<1>5. CASE Begin /\ InitCopied(Seg) /\ WriteDone(Name, InitChunk(MapBytes[state_section]))
  <2> DEFINE c == InitChunk(MapBytes[state_section])
  <2>1. /\ pc = "begin" /\ pc' = "write" /\ UNCHANGED ms /\ ms \in Positions
        /\ c \in Aligned /\ left' = left
    BY <1>5, WrittenAligned DEF Begin, BaseInv, Typed, Working, WriteDone
  <2>2. c = InitChunk(Bytes(ms)) /\ Bytes(ms) # NULL
    BY <1>5, <2>1, BytesOf DEF InitCopied, InitIsCurrent, Seg
  <2> HIDE DEF c
  <2>3. /\ disk' = [disk EXCEPT ![ms] = Append(Opened(ms), c)]
        /\ disk'[ms] = Append(Opened(ms), c) /\ out_file' = ms
    BY <1>3, <1>5, <2>1, WriteDoneOk DEF c, BaseInv, Working
  <2>4. out_file = NULL
    BY <2>1 DEF BaseInv, OpenFile
  <2>5. disk'[ms] = Prefix(ms)
    BY <2>2, <2>3, <2>4 DEF Opened, Prefix
  <2>6. Opened(ms)' = Prefix(ms)'
    BY <1>2, <2>1, <2>3, <2>5, NullIsNoName DEF Opened, Prefix, Bytes
  <2>7. \A n \in Kept' \ ({out_file'} \cup left') : Whole(n)'
    BY <1>1, <1>3, <2>1, <2>3, OthersWhole DEF Working
  <2> QED BY <2>1, <2>6, <2>7 DEF FilesWhole
<1>6. CASE WriteInit
  <2> DEFINE c == InitChunk(MapBytes[Seg.map])
  <2>1. /\ pc = "write_init" /\ pc' = "write" /\ UNCHANGED ms /\ ms \in Positions
        /\ c \in Aligned
    BY <1>6, WrittenAligned DEF WriteInit, BaseInv, Typed, Working
  <2>2. c = InitChunk(Bytes(ms)) /\ Bytes(ms) # NULL
    BY <2>1, BytesOf DEF BaseInv, SectionWanted, Seg
  <2> HIDE DEF c
  <2>3. WriteDone(Name, c)
    BY <1>6 DEF WriteInit, InitNotRepeated, c
  <2>4. /\ disk' = [disk EXCEPT ![ms] = Append(Opened(ms), c)]
        /\ disk'[ms] = Append(Opened(ms), c) /\ out_file' = ms /\ left' = left
    BY <1>3, <2>1, <2>3, WriteDoneOk DEF BaseInv, Working, WriteDone
  <2>5. out_file = NULL
    BY <2>1 DEF BaseInv, OpenFile
  <2>6. disk'[ms] = Prefix(ms)
    BY <2>2, <2>4, <2>5 DEF Opened, Prefix
  <2>7. Opened(ms)' = Prefix(ms)'
    BY <1>2, <2>1, <2>4, <2>6, NullIsNoName DEF Opened, Prefix, Bytes
  <2>8. \A n \in Kept' \ ({out_file'} \cup left') : Whole(n)'
    BY <1>1, <1>3, <2>1, <2>4, OthersWhole DEF Working
  <2> QED BY <2>1, <2>7, <2>8 DEF FilesWhole
<1>7. CASE WriteMedia
  <2> DEFINE a == IF Merged THEN ms_audio ELSE 0
  <2>1. /\ pc = "write" /\ pc' = "finish" /\ UNCHANGED ms /\ ms \in Positions
        /\ MediaChunk(ms, a) \in Aligned /\ a \in 0..NumSegments /\ WriteDone(Name, MediaChunk(ms, a))
    BY <1>7, WrittenAligned, NumSegmentsAssumption
    DEF WriteMedia, BaseInv, Typed, Working, Merged, Positions
  <2> HIDE DEF a
  <2>2. /\ disk' = [disk EXCEPT ![ms] = Append(Opened(ms), MediaChunk(ms, a))]
        /\ disk'[ms] = Append(Opened(ms), MediaChunk(ms, a)) /\ out_file' = ms /\ left' = left
    BY <1>3, <2>1, WriteDoneOk DEF BaseInv, Working, WriteDone
  <2>3. disk'[ms] = SegmentFile(ms, a)
    BY <2>1, <2>2 DEF FilesWhole, SegmentFile
  <2>4. Whole(ms)'
    BY <1>2, <2>1, <2>3 DEF Whole, SegmentFile, Prefix, Bytes
  <2>5. \A n \in Kept' \ ({out_file'} \cup left') : Whole(n)'
    BY <1>1, <1>3, <2>1, <2>2, OthersWhole DEF Working
  <2> QED BY <2>1, <2>2, <2>4, <2>5 DEF FilesWhole
<1>8. CASE FailedWrite
  <2>1. pc \in Working /\ pc' \in {"abort", "finish"}
    BY <1>8 DEF FailedWrite, BeginInitFails, WriteInitFails, WriteMediaFails, Working
  <2>2. /\ out_failed' /\ left' = left
        /\ \/ disk' = disk /\ out_file' = out_file
           \/ /\ disk' = [disk EXCEPT ![Name] = Append(Opened(Name), Torn)]
              /\ out_file' = Name
    BY <1>8, <2>1, WriteFailsOk DEF BaseInv, FailedWrite, WriteFails, outputVars
  <2>3. \A n \in Kept' \ ({out_file'} \cup left') : Whole(n)'
    BY <1>1, <2>1, <2>2, OthersWhole
  <2> QED BY <2>1, <2>2, <2>3 DEF FilesWhole
<1>9. CASE Abort \/ Finish
  <2> DEFINE success == IF Abort THEN FALSE ELSE ret = 0
  <2>1. /\ \/ FinishSegment(FALSE) /\ pc = "abort"
           \/ FinishSegment(ret = 0) /\ pc = "finish" /\ (ret = 0) \in BOOLEAN
        /\ pc' \in {"end", "fetch"}
    BY <1>9 DEF Abort, Finish, Advance
  <2>2. /\ out_file' = NULL /\ left \subseteq left'
        /\ \A n \in Names :
             \/ n # out_file /\ disk'[n] = disk[n]
             \/ disk'[n] = NULL
             \/ n \in left'
             \/ /\ n = out_file /\ pc = "finish" /\ ret = 0 /\ ~out_failed
                /\ disk'[n] = disk[n]
    BY <2>1, FinishOk DEF BaseInv
  <2>3. \A n \in Kept' \ ({out_file'} \cup left') : Whole(n)'
    <3> SUFFICES ASSUME NEW n \in Kept', n \notin left' PROVE Whole(n)'
      OBVIOUS
    <3>1. n \in Names /\ disk'[n] # NULL
      BY <1>2 DEF Kept
    <3>2. CASE n # out_file /\ disk'[n] = disk[n]
      BY <1>1, <2>2, <3>1, <3>2, WholeUnchanged DEF FilesWhole, Kept
    <3>3. CASE n = out_file /\ pc = "finish" /\ ret = 0 /\ ~out_failed /\ disk'[n] = disk[n]
      <4>1. Whole(n)
        BY <3>3 DEF FilesWhole
      <4> QED BY <1>1, <3>3, <4>1, WholeUnchanged
    <3> QED BY <2>2, <3>1, <3>2, <3>3
  <2> QED BY <2>1, <2>3 DEF FilesWhole
<1>10. CASE Close
  <2>1. pc = "close" /\ pc' = "exit" /\ out_file' = NULL /\ UNCHANGED left
    BY <1>10 DEF Close
  <2>2. out_file = NULL
    BY <2>1 DEF BaseInv, OpenFile
  <2>3. disk' = disk
    BY <1>10, <2>2 DEF Close
  <2>4. \A n \in Kept' \ ({out_file'} \cup left') : Whole(n)'
    <3> SUFFICES ASSUME NEW n \in Kept', n \notin left' PROVE Whole(n)'
      OBVIOUS
    <3>1. n \in Kept \ ({out_file} \cup left)
      BY <1>2, <2>1, <2>2, <2>3, NullIsNoName DEF Kept, Names
    <3> QED BY <1>1, <2>3, <3>1, WholeUnchanged DEF FilesWhole
  <2> QED BY <2>1, <2>4 DEF FilesWhole
<1> QED BY <1>4, <1>5, <1>6, <1>7, <1>8, <1>9, <1>10, Steps

\* A segment file in the form of the property.
LEMMA SegmentFileIs ==
  ASSUME NEW i \in Positions, NEW a
  PROVE  /\ SegmentFile(i, a) = (IF Bytes(i) = NULL THEN <<>> ELSE <<InitChunk(Bytes(i))>>)
                                   \o <<MediaChunk(i, a)>>
         /\ Last(SegmentFile(i, a)).audio = a
<1> DEFINE d == MediaChunk(i, a)
           c == InitChunk(Bytes(i))
           S == {d, c}
<1>1. Prefix(i) \in Seq(S) /\ d \in S
  <2>1. Prefix(i) \in {<<>>, <<c>>}
    BY DEF Prefix
  <2> HIDE DEF c, d
  <2>2. <<c>> \in Seq(S) /\ <<>> \in Seq(S)
    OBVIOUS
  <2> QED BY <2>1, <2>2
<1>2. d.audio = a
  BY DEF MediaChunk
<1>3. SegmentFile(i, a) = Append(Prefix(i), d)
  BY DEF SegmentFile
<1> HIDE DEF d, S
<1>4. SegmentFile(i, a) = Prefix(i) \o <<d>>
  BY <1>1, <1>3, AppendIsConcat
<1>5. Last(Append(Prefix(i), d)) = d
  BY <1>1, AppendProperties DEF Last
<1> QED BY <1>2, <1>3, <1>4, <1>5 DEF Prefix, d

LEMMA WholeInit == Init => FilesWhole
<1> SUFFICES ASSUME Init, separate_segments PROVE FilesWhole
  BY DEF FilesWhole
<1>1. Kept = {} /\ pc = "fetch"
  BY DEF Init, OutputInit, Kept
<1> QED BY <1>1 DEF FilesWhole

LEMMA WholeStutter == FilesWhole /\ UNCHANGED vars => FilesWhole'
  BY DEF FilesWhole, Whole, SegmentFile, Prefix, Bytes, Kept, Names, Opened,
     vars, outputVars, stateVars, inputVars, loopVars

\* With -m a closed file is a whole segment behind its initialization data,
\* whichever writes, closings and removals fail.
THEOREM SeparateFilesAlwaysWhole == Spec => []SeparateFilesWhole
<1>1. BaseInv /\ FilesWhole /\ [Next]_vars => FilesWhole'
  BY WholeStep, WholeStutter DEF Next, Terminating
<1>2. FilesWhole => SeparateFilesWhole
  <2> SUFFICES ASSUME FilesWhole, separate_segments, NEW n \in Kept \ ({out_file} \cup left)
               PROVE  disk[n] = (IF Bytes(n) = NULL THEN <<>> ELSE <<InitChunk(Bytes(n))>>)
                                  \o <<MediaChunk(n, Last(disk[n]).audio)>>
    BY DEF SeparateFilesWhole
  <2>1. n \in Positions
    BY DEF Kept, Names
  <2>2. PICK a \in 0..NumSegments : disk[n] = SegmentFile(n, a)
    BY DEF FilesWhole, Whole
  <2>3. Last(disk[n]).audio = a
    BY <2>1, <2>2, SegmentFileIs
  <2>4. disk[n] = (IF Bytes(n) = NULL THEN <<>> ELSE <<InitChunk(Bytes(n))>>)
                    \o <<MediaChunk(n, a)>>
    BY <2>1, <2>2, SegmentFileIs
  <2> QED BY <2>3, <2>4
<1> QED BY <1>1, <1>2, WholeInit, BaseInvariant, PTL DEF Spec

-----------------------------------------------------------------------------
(* One file *)

StateBytes == IF state_section = NULL THEN NULL ELSE MapBytes[state_section]

\* What may be the k-th chunk of the file, given the section in force: without
\* one, plain segments; with one of MPEG-TS, such sections only; with any other,
\* nothing but segments of its discontinuity behind it.
ChunkFits(c, k, bytes, d) ==
  /\ bytes = NULL =>
       /\ c.kind # "init"
       /\ c.kind = "media" => Bytes(c.of) = NULL
  /\ bytes # NULL /\ bytes \in TsContents =>
       /\ c.kind = "init" => c.of \in TsContents
       /\ c.kind = "media" => Bytes(c.of) \in TsContents \cup {NULL}
  /\ bytes # NULL /\ bytes \notin TsContents =>
       /\ c.kind = "init" /\ c.of \notin TsContents => k = 1
       /\ c.kind = "media" => playlist[c.of].discontinuity = d

FileFits(f, bytes, d) == \A k \in DOMAIN f : ChunkFits(f[k], k, bytes, d)

OneFile ==
  ~separate_segments =>
    /\ FileFits(disk[0], StateBytes, state_discontinuity)
    /\ /\ pc \in {"fetch", "begin", "write_init", "write"}
       /\ state_section = NULL /\ ~wrote_media
       => disk[0] = <<>>
    /\ pc = "write" =>
         /\ state_section = playlist[ms].map
         /\ state_section # NULL => state_discontinuity = playlist[ms].discontinuity

LEMMA FileFitsNext ==
  ASSUME UNCHANGED playlist
  PROVE  FileFits(disk[0], StateBytes, state_discontinuity)'
           <=> FileFits(disk'[0], StateBytes', state_discontinuity')
  BY DEF FileFits, ChunkFits, Bytes

\* A chunk that fits is appended.
LEMMA AppendFits ==
  ASSUME NEW f \in Seq(Aligned), NEW c \in Aligned, NEW b, NEW d,
         FileFits(f, b, d), ChunkFits(c, Len(f) + 1, b, d)
  PROVE  FileFits(Append(f, c), b, d)
<1> SUFFICES ASSUME NEW k \in DOMAIN Append(f, c) PROVE ChunkFits(Append(f, c)[k], k, b, d)
  BY DEF FileFits
<1>1. CASE k \in DOMAIN f
  <2>1. Append(f, c)[k] = f[k]
    BY <1>1
  <2> QED BY <1>1, <2>1 DEF FileFits
<1>2. CASE k = Len(f) + 1
  <2>1. Append(f, c)[k] = c
    BY <1>2
  <2> QED BY <1>2, <2>1
<1> QED BY <1>1, <1>2

LEMMA TornFits == \A k, b, d : ChunkFits(Torn, k, b, d)
  BY DEF ChunkFits, Torn

\* The one file is open until the end.
LEMMA OneFileOpen ==
  ASSUME BaseInv, ~separate_segments, pc \in Working
  PROVE  /\ out_file = 0 /\ Name = 0 /\ Opened(Name) = disk[0] /\ disk[0] \in Seq(Aligned)
         /\ 0 \in Names
<1>1. out_file = 0 /\ Name = 0
  BY DEF BaseInv, OpenFile, Working, Name
<1> QED BY <1>1, NullIsNoName DEF BaseInv, OpenFile, Opened, Names

\* What writing a section does to the one file: it is appended, unless the one
\* in force says the same.
LEMMA WriteInitIs ==
  ASSUME BaseInv, ~separate_segments, WriteInit
  PROVE  /\ Seg.map \in Maps /\ ms \in Positions /\ MapBytes[Seg.map] \in Contents
         /\ MapBytes[Seg.map] # NULL /\ InitChunk(MapBytes[Seg.map]) \in Aligned
         /\ StateBytes' = MapBytes[Seg.map] /\ state_discontinuity' = Seg.discontinuity
         /\ UNCHANGED playlist
         /\ disk[0] \in Seq(Aligned)
         /\ \/ /\ ~InitNotRepeated(Seg)
               /\ disk'[0] = Append(disk[0], InitChunk(MapBytes[Seg.map]))
            \/ /\ InitNotRepeated(Seg) /\ InitUnchanged(Seg)
               /\ disk'[0] = disk[0]
<1> DEFINE b == MapBytes[Seg.map]
           c == InitChunk(b)
<1>1. /\ pc = "write_init" /\ ~InitRefused(Seg) /\ UNCHANGED inputVars
      /\ IF InitNotRepeated(Seg) THEN UNCHANGED outputVars ELSE WriteDone(Name, c)
      /\ state_section' = Seg.map /\ state_discontinuity' = Seg.discontinuity
  BY DEF WriteInit, RememberInit
<1>2. ms \in Positions /\ Seg.map \in Maps
  BY <1>1 DEF BaseInv, SectionWanted, Typed, Seg, Working
<1>3. b \in Contents /\ c \in Aligned /\ b # NULL
  BY <1>2, MapsAssumption, ChunksAligned
<1> HIDE DEF c
<1>4. StateBytes' = b
  BY <1>1, <1>2, NullIsNoName DEF StateBytes
<1>5. disk[0] \in Seq(Aligned) /\ Opened(Name) = disk[0] /\ Name = 0
  BY <1>1, OneFileOpen DEF Working
<1>6. ~InitNotRepeated(Seg) => disk'[0] = Append(disk[0], c)
  BY <1>1, <1>3, <1>5, WriteDoneOk DEF BaseInv, Working
<1>7. InitNotRepeated(Seg) => disk'[0] = disk[0] /\ InitUnchanged(Seg)
  BY <1>1 DEF outputVars, InitNotRepeated, InitRefused
<1> QED BY <1>1, <1>2, <1>3, <1>4, <1>5, <1>6, <1>7 DEF inputVars, c

LEMMA WriteInitFits ==
  ASSUME BaseInv, OneFile, ~separate_segments, WriteInit
  PROVE  FileFits(disk'[0], StateBytes', state_discontinuity')
<1> DEFINE b == MapBytes[Seg.map]
           c == InitChunk(b)
           e == Seg.discontinuity
<1>1. /\ b # NULL /\ c \in Aligned /\ StateBytes' = b /\ state_discontinuity' = e
      /\ disk[0] \in Seq(Aligned)
      /\ \/ ~InitNotRepeated(Seg) /\ disk'[0] = Append(disk[0], c)
         \/ InitNotRepeated(Seg) /\ InitUnchanged(Seg) /\ disk'[0] = disk[0]
  BY WriteInitIs
<1>2. FileFits(disk[0], StateBytes, state_discontinuity) /\ pc = "write_init" /\ ~InitRefused(Seg)
  BY DEF OneFile, WriteInit
<1>3. c.kind = "init" /\ c.of = b
  BY DEF InitChunk
<1> HIDE DEF c
<1>4. CASE state_section = NULL /\ b \in TsContents
  <2>1. FileFits(disk[0], b, e)
    BY <1>1, <1>2, <1>4 DEF FileFits, ChunkFits, StateBytes
  <2>2. ChunkFits(c, Len(disk[0]) + 1, b, e)
    BY <1>1, <1>3, <1>4 DEF ChunkFits
  <2>3. ~InitNotRepeated(Seg)
    BY <1>4 DEF InitNotRepeated
  <2> QED BY <1>1, <2>1, <2>2, <2>3, AppendFits
<1>5. CASE state_section = NULL /\ b \notin TsContents
  <2>1. ~wrote_media /\ ~InitNotRepeated(Seg)
    BY <1>2, <1>5 DEF InitRefused, InitNotRepeated
  <2>2. disk[0] = <<>>
    BY <1>2, <1>5, <2>1 DEF OneFile
  <2>3. FileFits(disk[0], b, e)
    BY <2>2 DEF FileFits
  <2>4. ChunkFits(c, Len(disk[0]) + 1, b, e)
    BY <1>1, <1>3, <1>5, <2>2 DEF ChunkFits
  <2> QED BY <1>1, <2>1, <2>3, <2>4, AppendFits
<1>6. CASE state_section # NULL /\ BothTs(Seg)
  <2>1. b \in TsContents /\ StateBytes \in TsContents /\ ~InitNotRepeated(Seg)
        /\ StateBytes # NULL
    BY <1>6, MapsAssumption DEF BothTs, StateBytes, InitNotRepeated
  <2>2. FileFits(disk[0], b, e)
    BY <1>1, <1>2, <2>1 DEF FileFits, ChunkFits
  <2>3. ChunkFits(c, Len(disk[0]) + 1, b, e)
    BY <1>1, <1>3, <2>1 DEF ChunkFits
  <2> QED BY <1>1, <2>1, <2>2, <2>3, AppendFits
<1>7. CASE state_section # NULL /\ ~BothTs(Seg)
  <2>1. InitNotRepeated(Seg)
    BY <1>7 DEF InitNotRepeated
  <2>2. StateBytes = b /\ e = state_discontinuity
    BY <1>1, <1>7, <2>1 DEF InitUnchanged, StateBytes
  <2> QED BY <1>1, <1>2, <2>1, <2>2
<1> QED BY <1>4, <1>5, <1>6, <1>7

LEMMA WriteMediaFits ==
  ASSUME BaseInv, OneFile, ~separate_segments, WriteMedia
  PROVE  FileFits(disk'[0], StateBytes, state_discontinuity)
<1> DEFINE a == IF Merged THEN ms_audio ELSE 0
           c == MediaChunk(ms, a)
<1>1. pc = "write" /\ WriteDone(Name, c) /\ c \in Aligned /\ ms \in Positions
  BY WrittenAligned DEF WriteMedia, Working, BaseInv, Typed
<1>2. c.kind = "media" /\ c.of = ms
  BY DEF MediaChunk
<1> HIDE DEF c
<1>3. /\ disk'[0] = Append(disk[0], c) /\ disk[0] \in Seq(Aligned)
  BY <1>1, OneFileOpen, WriteDoneOk DEF BaseInv, Working
<1>4. /\ state_section = playlist[ms].map
      /\ state_section # NULL => state_discontinuity = playlist[ms].discontinuity
      /\ FileFits(disk[0], StateBytes, state_discontinuity)
  BY <1>1 DEF OneFile
<1>5. Bytes(ms) = StateBytes
  BY <1>4 DEF Bytes, StateBytes
<1>6. StateBytes # NULL => state_section # NULL
  BY DEF StateBytes
<1>7. ChunkFits(c, Len(disk[0]) + 1, StateBytes, state_discontinuity)
  BY <1>2, <1>4, <1>5, <1>6 DEF ChunkFits
<1> QED BY <1>1, <1>3, <1>4, <1>7, AppendFits

LEMMA OneFileStep ==
  ASSUME BaseInv, OneFile, Step
  PROVE  OneFile'
<1>1. UNCHANGED inputVars
  BY DEF Step, FetchOk, FetchRetry, FetchUnusable, FetchSkip, FetchGivesUp, BeginFails,
     BeginFetchInit, MergeFails, End, Begin, BeginInitFails, WriteInitFails, WriteInit,
     WriteMedia, WriteMediaFails, Abort, Finish, Close
<1>2. UNCHANGED <<separate_segments, playlist>>
  BY <1>1 DEF inputVars
<1> SUFFICES ASSUME ~separate_segments PROVE OneFile'
  BY <1>2 DEF OneFile
<1>3. FileFits(disk[0], StateBytes, state_discontinuity)
  BY DEF OneFile
<1> DEFINE Fits == FileFits(disk'[0], StateBytes', state_discontinuity')
<1>4. CASE Quiet
  <2>1. UNCHANGED <<disk, state_section, state_discontinuity, wrote_media>>
    BY <1>4, QuietOk DEF outputVars, stateVars
  <2>2. Fits
    BY <1>3, <2>1 DEF StateBytes
  <2>3. pc' \in {"fetch", "begin", "write_init", "write"} => pc \in {"fetch", "begin"}
    BY <1>4 DEF Quiet, FetchOk, FetchRetry, FetchUnusable, FetchSkip, FetchGivesUp,
       BeginFails, BeginFetchInit, MergeFails, End, Begin, BeginInitFails, WriteInitFails, Advance
  <2>4. ASSUME pc' = "write"
        PROVE  /\ state_section' = playlist'[ms'].map
               /\ state_section' # NULL => state_discontinuity' = playlist'[ms'].discontinuity
    <3>1. Begin /\ ms' = ms
      BY <1>4, <2>4 DEF Quiet, FetchOk, FetchRetry, FetchUnusable, FetchSkip, FetchGivesUp,
         BeginFails, BeginFetchInit, MergeFails, End, Begin, BeginInitFails, WriteInitFails, Advance
    <3>2. InitUnneeded(Seg)
      BY <3>1 DEF Begin, InitCopied
    <3> QED BY <1>2, <2>1, <3>1, <3>2 DEF InitUnneeded, InitMissing, InitIsCurrent, Seg
  <2> QED BY <1>2, <2>1, <2>2, <2>3, <2>4, FileFitsNext DEF OneFile
<1>5. CASE FailedWrite
  <2>1. /\ pc \in Working /\ pc' \in {"abort", "finish"}
        /\ UNCHANGED <<state_section, state_discontinuity>>
    BY <1>5 DEF FailedWrite, BeginInitFails, WriteInitFails, WriteMediaFails, Working, stateVars
  <2>2. /\ Name = 0 /\ Opened(Name) = disk[0] /\ disk[0] \in Seq(Aligned) /\ 0 \in Names
    BY <2>1, OneFileOpen
  <2>3. disk'[0] \in {disk[0], Append(disk[0], Torn)}
    BY <1>5, <2>1, <2>2, WriteFailsOk DEF BaseInv, FailedWrite, Typed
  <2>4. Fits
    BY <1>3, <2>1, <2>2, <2>3, AppendFits, TornFits, ChunksAligned DEF StateBytes
  <2> QED BY <1>2, <2>1, <2>4, FileFitsNext DEF OneFile
<1>6. CASE WriteInit
  <2>1. /\ pc' = "write" /\ state_section' # NULL /\ ms' = ms
        /\ state_section' = playlist[ms].map
        /\ state_discontinuity' = playlist[ms].discontinuity
    BY <1>6, WriteInitIs, NullIsNoName DEF WriteInit, RememberInit, Seg
  <2>2. Fits
    BY <1>6, WriteInitFits
  <2> QED BY <1>2, <2>1, <2>2, FileFitsNext DEF OneFile
<1>7. CASE WriteMedia
  <2>1. pc' = "finish" /\ UNCHANGED <<state_section, state_discontinuity>>
    BY <1>7 DEF WriteMedia, stateVars
  <2>2. Fits
    BY <1>7, <2>1, WriteMediaFits DEF StateBytes
  <2> QED BY <1>2, <2>1, <2>2, FileFitsNext DEF OneFile
<1>8. CASE Abort \/ Finish
  <2>1. /\ UNCHANGED <<state_section, state_discontinuity>>
        /\ pc' # "write" /\ (pc' = "fetch" => wrote_media') /\ pc' \in {"fetch", "end"}
        /\ FinishSegment(FALSE) \/ (FinishSegment(ret = 0) /\ (ret = 0) \in BOOLEAN)
    BY <1>8 DEF Abort, Finish, stateVars, Advance
  <2>2. disk' = disk
    BY <2>1, FinishOk DEF BaseInv, outputVars
  <2>3. Fits
    BY <1>3, <2>1, <2>2 DEF StateBytes
  <2> QED BY <1>2, <2>1, <2>3, FileFitsNext DEF OneFile
<1>9. CASE Close
  <2>1. /\ pc = "close" /\ pc' = "exit" /\ UNCHANGED <<state_section, state_discontinuity>>
    BY <1>9 DEF Close, stateVars
  <2>2. /\ out_file = 0 /\ disk[0] \in Seq(Aligned)
    BY <2>1 DEF BaseInv, OpenFile
  <2>3. disk'[0] \in {disk[0], Append(disk[0], Torn)}
    BY <1>9, <2>2, CloseFile DEF BaseInv, Typed
  <2>4. Fits
    BY <1>3, <2>1, <2>2, <2>3, AppendFits, TornFits, ChunksAligned DEF StateBytes
  <2> QED BY <1>2, <2>1, <2>4, FileFitsNext DEF OneFile
<1> QED BY <1>4, <1>5, <1>6, <1>7, <1>8, <1>9, Steps DEF InitCopied

LEMMA OneFileInit == Init => OneFile
<1> SUFFICES ASSUME Init, ~separate_segments PROVE OneFile
  BY DEF OneFile
<1>1. disk[0] = <<>> /\ pc = "fetch"
  BY DEF Init, OutputInit, Names
<1> QED BY <1>1 DEF OneFile, FileFits

LEMMA OneFileStutter == OneFile /\ UNCHANGED vars => OneFile'
<1> SUFFICES ASSUME OneFile, UNCHANGED vars PROVE OneFile'
  OBVIOUS
<1>1. UNCHANGED <<separate_segments, playlist, disk, pc, state_section, wrote_media, ms,
                  state_discontinuity>>
  BY DEF vars, outputVars, stateVars, inputVars, loopVars
<1> QED BY <1>1, FileFitsNext DEF OneFile, StateBytes

\* What the one output file holds of sections follows from the section the
\* recorder has cached.
THEOREM OneFileInvariant == Spec => []OneFile
<1>1. BaseInv /\ OneFile /\ [Next]_vars => OneFile'
  BY OneFileStep, OneFileStutter DEF Next, Terminating
<1> QED BY <1>1, OneFileInit, BaseInvariant, PTL DEF Spec

\* One file has at most one section that is not MPEG-TS, ahead of everything,
\* and only segments of one discontinuity with it, however many sections the
\* playlist names and whatever their bytes are.
THEOREM OneInitializationAlways == Spec => []OneInitialization
<1>1. OneFile => OneInitialization
  <2> SUFFICES ASSUME OneFile, ~separate_segments, NEW j \in DOMAIN disk[0], NEW k \in DOMAIN disk[0]
               PROVE  LET a == disk[0][j]
                          b == disk[0][k]
                      IN /\ a.kind = "init" /\ a.of \notin TsContents => j = 1
                         /\ a.kind = "media" /\ b.kind = "media" /\ j < k
                              /\ Bytes(a.of) # NULL /\ Bytes(a.of) \notin TsContents
                            => playlist[a.of].discontinuity = playlist[b.of].discontinuity
    BY DEF OneInitialization
  <2>1. /\ ChunkFits(disk[0][j], j, StateBytes, state_discontinuity)
        /\ ChunkFits(disk[0][k], k, StateBytes, state_discontinuity)
    BY DEF OneFile, FileFits
  <2> QED BY <2>1 DEF ChunkFits
<1> QED BY <1>1, OneFileInvariant, PTL

-----------------------------------------------------------------------------
(* What a player meets *)

\* Every segment of a file has its section ahead of it; in one file the last
\* section is the one in force.
Decoded(f) == \A k \in DOMAIN f : f[k].kind = "media" => InForce(f, k, Bytes(f[k].of))

Held == {n \in Names : disk[n] # NULL \/ n = out_file}

AllDecoded ==
  /\ \A n \in Held : Decoded(disk[n])
  /\ ~separate_segments => InForce(disk[0], Len(disk[0]) + 1, StateBytes)

\* What is in force at a place does not depend on what comes behind it.
LEMMA InForceAhead ==
  ASSUME NEW f \in Seq(Aligned), NEW c \in Aligned, NEW b, NEW k \in 1..(Len(f) + 1),
         InForce(f, k, b)
  PROVE  InForce(Append(f, c), k, b)
<1>1. \A j \in 1..(k - 1) : Append(f, c)[j] = f[j]
  OBVIOUS
<1>2. CASE b = NULL
  BY <1>1, <1>2 DEF InForce
<1>3. CASE b # NULL
  <2>1. PICK j \in 1..(k - 1) : /\ f[j] = InitChunk(b)
                                /\ \A i \in (j + 1)..(k - 1) : f[i].kind # "init"
    BY <1>3 DEF InForce
  <2>2. \A i \in (j + 1)..(k - 1) : Append(f, c)[i].kind # "init"
    BY <1>1, <2>1
  <2> QED BY <1>1, <1>3, <2>1, <2>2 DEF InForce
<1> QED BY <1>2, <1>3

LEMMA InForceBehind ==
  ASSUME NEW f \in Seq(Aligned), NEW c \in Aligned, NEW b
  PROVE  /\ c.kind # "init" /\ InForce(f, Len(f) + 1, b)
              => InForce(Append(f, c), Len(f) + 2, b)
         /\ c = InitChunk(b) /\ b # NULL => InForce(Append(f, c), Len(f) + 2, b)
<1> DEFINE g == Append(f, c)
<1>1. Len(f) \in Nat /\ g[Len(f) + 1] = c /\ \A j \in 1..Len(f) : g[j] = f[j]
  OBVIOUS
<1> HIDE DEF g
<1>2. ASSUME c.kind # "init", InForce(f, Len(f) + 1, b) PROVE InForce(g, Len(f) + 2, b)
  <2>1. CASE b = NULL
    BY <1>1, <1>2, <2>1 DEF InForce
  <2>2. CASE b # NULL
    <3>1. PICK j \in 1..Len(f) : /\ f[j] = InitChunk(b)
                                 /\ \A i \in (j + 1)..Len(f) : f[i].kind # "init"
      BY <1>1, <1>2, <2>2 DEF InForce
    <3>2. \A i \in (j + 1)..(Len(f) + 1) : g[i].kind # "init"
      BY <1>1, <1>2, <3>1
    <3>3. j \in 1..(Len(f) + 1) /\ g[j] = InitChunk(b)
      BY <1>1, <3>1
    <3> QED BY <1>1, <2>2, <3>2, <3>3 DEF InForce
  <2> QED BY <2>1, <2>2
<1>3. ASSUME c = InitChunk(b), b # NULL PROVE InForce(g, Len(f) + 2, b)
  <2>1. Len(f) + 1 \in 1..(Len(f) + 1) /\ \A i \in (Len(f) + 2)..(Len(f) + 1) : g[i].kind # "init"
    BY <1>1
  <2> QED BY <1>1, <1>3, <2>1 DEF InForce
<1> QED BY <1>2, <1>3 DEF g

LEMMA AppendDecoded ==
  ASSUME NEW f \in Seq(Aligned), NEW c \in Aligned, Decoded(f),
         c.kind = "media" => InForce(f, Len(f) + 1, Bytes(c.of))
  PROVE  Decoded(Append(f, c))
<1> SUFFICES ASSUME NEW k \in DOMAIN Append(f, c), Append(f, c)[k].kind = "media"
             PROVE  InForce(Append(f, c), k, Bytes(Append(f, c)[k].of))
  BY DEF Decoded
<1>1. CASE k \in DOMAIN f
  <2>1. Append(f, c)[k] = f[k] /\ k \in 1..(Len(f) + 1)
    BY <1>1
  <2>2. InForce(f, k, Bytes(f[k].of))
    BY <1>1, <2>1 DEF Decoded
  <2> QED BY <2>1, <2>2, InForceAhead
<1>2. CASE k = Len(f) + 1
  <2>1. Append(f, c)[k] = c /\ k \in 1..(Len(f) + 1)
    BY <1>2
  <2> QED BY <1>2, <2>1, InForceAhead
<1> QED BY <1>1, <1>2

LEMMA AllDecodedNext ==
  ASSUME UNCHANGED <<playlist, separate_segments>>,
         \A n \in Names : disk'[n] # NULL \/ n = out_file' => Decoded(disk'[n]),
         ~separate_segments => InForce(disk'[0], Len(disk'[0]) + 1, StateBytes')
  PROVE  AllDecoded'
  BY DEF AllDecoded, Held, Names, Decoded, Bytes, InForce

LEMMA OpenedDecoded ==
  ASSUME BaseInv, AllDecoded, pc \in Working
  PROVE  /\ Name \in Names /\ Opened(Name) \in Seq(Aligned) /\ Decoded(Opened(Name))
         /\ ~separate_segments => Opened(Name) = disk[0] /\ Name = 0
<1>1. Name \in Names /\ out_file \in {NULL, Name}
  BY DEF BaseInv, Typed, OpenFile, Name, Names, Working
<1>2. CASE out_file = NULL
  <2>1. separate_segments
    BY <1>2, NullIsNoName DEF BaseInv, OpenFile, Working
  <2>2. Opened(Name) = <<>>
    BY <1>2 DEF Opened
  <2>3. Decoded(<<>>)
    BY DEF Decoded
  <2> QED BY <1>1, <2>1, <2>2, <2>3
<1>3. CASE out_file # NULL
  <2>1. out_file = Name /\ Opened(Name) = disk[Name] /\ disk[Name] \in Seq(Aligned)
    BY <1>1, <1>3 DEF Opened, BaseInv, OpenFile
  <2>2. Decoded(disk[Name])
    BY <1>1, <2>1 DEF AllDecoded, Held
  <2> QED BY <1>1, <2>1, <2>2 DEF Name
<1> QED BY <1>2, <1>3

\* A write to the open file, or to a new one.
LEMMA WriteDecoded ==
  ASSUME BaseInv, AllDecoded, pc \in Working, UNCHANGED inputVars, NEW c \in Aligned,
         disk' = [disk EXCEPT ![Name] = Append(Opened(Name), c)], out_file' = Name,
         c.kind = "media" => InForce(Opened(Name), Len(Opened(Name)) + 1, Bytes(c.of)),
         ~separate_segments => InForce(disk'[0], Len(disk'[0]) + 1, StateBytes')
  PROVE  AllDecoded'
<1>1. /\ Name \in Names /\ Opened(Name) \in Seq(Aligned) /\ Decoded(Opened(Name))
  BY OpenedDecoded
<1>2. Decoded(Append(Opened(Name), c))
  BY <1>1, AppendDecoded
<1>3. disk'[Name] = Append(Opened(Name), c) /\ \A n \in Names : n # Name => disk'[n] = disk[n]
  BY <1>1 DEF BaseInv, Typed
<1>4. \A n \in Names : disk'[n] # NULL \/ n = out_file' => Decoded(disk'[n])
  BY <1>2, <1>3 DEF AllDecoded, Held
<1> QED BY <1>4, AllDecodedNext DEF inputVars

\* A file that is torn, removed or left alone.
LEMMA NoWriteDecoded ==
  ASSUME BaseInv, AllDecoded, UNCHANGED inputVars, UNCHANGED state_section,
         out_file' \in {NULL, out_file},
         \A n \in Names : \/ disk'[n] = disk[n]
                          \/ /\ n = out_file /\ disk[n] \in Seq(Aligned)
                             /\ disk'[n] \in {NULL, Append(disk[n], Torn)} /\ out_file' = NULL,
         ~separate_segments => disk'[0] \in {disk[0], Append(disk[0], Torn)}
  PROVE  AllDecoded'
<1>1. Torn \in Aligned /\ Torn.kind = "torn"
  BY ChunksAligned DEF Torn
<1>2. ASSUME NEW n \in Names, disk'[n] # NULL \/ n = out_file' PROVE Decoded(disk'[n])
  <2>1. CASE disk'[n] = disk[n] /\ n \in Held
    BY <2>1 DEF AllDecoded
  <2>2. CASE n = out_file /\ disk[n] \in Seq(Aligned) /\ disk'[n] = Append(disk[n], Torn)
    <3>1. Decoded(disk[n])
      BY <2>2 DEF AllDecoded, Held
    <3> QED BY <1>1, <2>2, <3>1, AppendDecoded
  <2>3. out_file' = NULL => n # out_file'
    BY NullIsNoName DEF Names
  <2> QED BY <1>2, <2>1, <2>2, <2>3 DEF Held
<1>3. ASSUME ~separate_segments PROVE InForce(disk'[0], Len(disk'[0]) + 1, StateBytes')
  <2>1. InForce(disk[0], Len(disk[0]) + 1, StateBytes) /\ StateBytes' = StateBytes
        /\ disk[0] \in Seq(Aligned)
    BY <1>3 DEF AllDecoded, StateBytes, BaseInv, OpenFile
  <2>2. CASE disk'[0] = disk[0]
    BY <2>1, <2>2
  <2>3. CASE disk'[0] = Append(disk[0], Torn)
    <3>1. Len(disk'[0]) + 1 = Len(disk[0]) + 2
      BY <2>1, <2>3
    <3> QED BY <1>1, <2>1, <2>3, <3>1, InForceBehind
  <2> QED BY <1>3, <2>2, <2>3
<1> QED BY <1>2, <1>3, AllDecodedNext DEF inputVars

LEMMA PrefixInForce ==
  ASSUME NEW i \in Positions
  PROVE  InForce(Prefix(i), Len(Prefix(i)) + 1, Bytes(i))
<1>1. CASE Bytes(i) = NULL
  BY <1>1 DEF Prefix, InForce
<1>2. CASE Bytes(i) # NULL
  <2> DEFINE c == InitChunk(Bytes(i))
  <2>1. Prefix(i) = <<c>>
    BY <1>2 DEF Prefix
  <2> HIDE DEF c
  <2>2. Len(<<c>>) = 1 /\ <<c>>[1] = c
    OBVIOUS
  <2>3. Prefix(i)[1] = InitChunk(Bytes(i)) /\ Len(Prefix(i)) + 1 = 2 /\ 1 \in 1..(2 - 1)
        /\ \A j \in 2..(2 - 1) : Prefix(i)[j].kind # "init"
    BY <2>1, <2>2 DEF c
  <2> QED BY <1>2, <2>3 DEF InForce
<1> QED BY <1>1, <1>2

LEMMA DecodedStep ==
  ASSUME BaseInv, FilesWhole, OneFile, AllDecoded, Step
  PROVE  AllDecoded'
<1>1. UNCHANGED inputVars
  BY DEF Step, FetchOk, FetchRetry, FetchUnusable, FetchSkip, FetchGivesUp, BeginFails,
     BeginFetchInit, MergeFails, End, Begin, BeginInitFails, WriteInitFails, WriteInit,
     WriteMedia, WriteMediaFails, Abort, Finish, Close
<1>2. UNCHANGED <<separate_segments, playlist>> /\ Names' = Names
  BY <1>1 DEF inputVars, Names
<1>3. ~separate_segments /\ pc \in Working =>
        /\ InForce(disk[0], Len(disk[0]) + 1, StateBytes) /\ disk[0] \in Seq(Aligned)
        /\ Opened(Name) = disk[0] /\ Name = 0 /\ 0 \in Names
  BY OneFileOpen DEF AllDecoded
<1>4. CASE Quiet
  <2>1. UNCHANGED <<disk, out_file, state_section>>
    BY <1>4, QuietOk DEF outputVars, stateVars
  <2> QED BY <1>1, <2>1, NoWriteDecoded
<1>5. CASE FailedWrite
  <2>1. /\ pc \in Working /\ UNCHANGED state_section
    BY <1>5 DEF FailedWrite, BeginInitFails, WriteInitFails, WriteMediaFails, Working, stateVars
  <2>2. \/ disk' = disk /\ out_file' = out_file
        \/ /\ disk' = [disk EXCEPT ![Name] = Append(Opened(Name), Torn)]
           /\ out_file' = Name
    BY <1>5, <2>1, WriteFailsOk DEF BaseInv, FailedWrite
  <2>3. CASE disk' = disk /\ out_file' = out_file
    BY <1>1, <2>1, <2>3, NoWriteDecoded
  <2>4. CASE disk' = [disk EXCEPT ![Name] = Append(Opened(Name), Torn)] /\ out_file' = Name
    <3>1. Torn \in Aligned /\ Torn.kind = "torn"
      BY ChunksAligned DEF Torn
    <3>2. ASSUME ~separate_segments PROVE InForce(disk'[0], Len(disk'[0]) + 1, StateBytes')
      <4>1. disk'[0] = Append(disk[0], Torn) /\ StateBytes' = StateBytes
        BY <1>3, <2>1, <2>4, <3>2 DEF BaseInv, Typed, StateBytes
      <4>2. Len(disk'[0]) + 1 = Len(disk[0]) + 2
        BY <1>3, <2>1, <3>2, <4>1
      <4> QED BY <1>3, <2>1, <3>1, <3>2, <4>1, <4>2, InForceBehind
    <3> QED BY <1>1, <2>1, <2>4, <3>1, <3>2, WriteDecoded
  <2> QED BY <2>2, <2>3, <2>4
<1>6. CASE Begin /\ InitCopied(Seg) /\ WriteDone(Name, InitChunk(MapBytes[state_section]))
  <2> DEFINE c == InitChunk(MapBytes[state_section])
  <2>1. pc \in Working /\ separate_segments /\ c \in Aligned /\ c.kind = "init"
    BY <1>6, WrittenAligned DEF Begin, Working, InitCopied, InitChunk
  <2> HIDE DEF c
  <2>2. disk' = [disk EXCEPT ![Name] = Append(Opened(Name), c)] /\ out_file' = Name
    BY <1>6 DEF WriteDone, c
  <2> QED BY <1>1, <2>1, <2>2, WriteDecoded
<1>7. CASE WriteInit
  <2> DEFINE b == MapBytes[Seg.map]
             c == InitChunk(b)
  <2>1. pc \in Working /\ c \in Aligned /\ c.kind = "init" /\ pc = "write_init"
    BY <1>7, WrittenAligned DEF WriteInit, Working, InitChunk
  <2>2. IF InitNotRepeated(Seg) THEN UNCHANGED outputVars ELSE WriteDone(Name, c)
    BY <1>7 DEF WriteInit
  <2>3. ASSUME ~separate_segments
        PROVE  /\ b # NULL /\ StateBytes' = b /\ disk[0] \in Seq(Aligned)
               /\ \/ ~InitNotRepeated(Seg) /\ disk'[0] = Append(disk[0], c)
                  \/ InitNotRepeated(Seg) /\ InitUnchanged(Seg) /\ disk'[0] = disk[0]
    BY <1>7, <2>3, WriteInitIs
  <2>4. CASE InitNotRepeated(Seg)
    <3>1. ~separate_segments /\ StateBytes = b /\ UNCHANGED <<disk, out_file>>
      BY <2>2, <2>3, <2>4 DEF InitNotRepeated, InitUnchanged, StateBytes, outputVars
    <3>2. InForce(disk'[0], Len(disk'[0]) + 1, StateBytes')
      BY <1>3, <2>1, <2>3, <3>1
    <3>3. \A n \in Names : disk'[n] # NULL \/ n = out_file' => Decoded(disk'[n])
      BY <3>1 DEF AllDecoded, Held
    <3> QED BY <1>2, <3>2, <3>3, AllDecodedNext
  <2>5. CASE ~InitNotRepeated(Seg)
    <3>1. disk' = [disk EXCEPT ![Name] = Append(Opened(Name), c)] /\ out_file' = Name
      BY <2>2, <2>5 DEF WriteDone
    <3>2. ASSUME ~separate_segments PROVE InForce(disk'[0], Len(disk'[0]) + 1, StateBytes')
      <4>1. b # NULL /\ StateBytes' = b /\ disk[0] \in Seq(Aligned) /\ disk'[0] = Append(disk[0], c)
        BY <2>3, <2>5, <3>2
      <4>2. Len(disk'[0]) + 1 = Len(disk[0]) + 2
        BY <4>1
      <4> QED BY <2>1, <4>1, <4>2, InForceBehind
    <3> QED BY <1>1, <2>1, <3>1, <3>2, WriteDecoded
  <2> QED BY <2>4, <2>5
<1>8. CASE WriteMedia
  <2> DEFINE c == MediaChunk(ms, IF Merged THEN ms_audio ELSE 0)
  <2>1. /\ pc \in Working /\ pc = "write" /\ ms \in Positions /\ c \in Aligned
        /\ c.kind = "media" /\ c.of = ms /\ UNCHANGED state_section
    BY <1>8, WrittenAligned DEF WriteMedia, Working, MediaChunk, BaseInv, Typed, stateVars
  <2>2. WriteDone(Name, c)
    BY <1>8 DEF WriteMedia
  <2> HIDE DEF c
  <2>3. disk' = [disk EXCEPT ![Name] = Append(Opened(Name), c)] /\ out_file' = Name
    BY <2>2 DEF WriteDone
  <2>4. InForce(Opened(Name), Len(Opened(Name)) + 1, Bytes(ms))
    <3>1. CASE separate_segments
      <4>1. Opened(Name) = Prefix(ms)
        BY <2>1, <3>1 DEF FilesWhole, Name
      <4> QED BY <2>1, <4>1, PrefixInForce
    <3>2. CASE ~separate_segments
      <4>1. Bytes(ms) = StateBytes
        BY <2>1, <3>2 DEF OneFile, Bytes, StateBytes
      <4> QED BY <1>3, <2>1, <3>2, <4>1
    <3> QED BY <3>1, <3>2
  <2>5. ASSUME ~separate_segments PROVE InForce(disk'[0], Len(disk'[0]) + 1, StateBytes')
    <3>1. disk'[0] = Append(disk[0], c) /\ StateBytes' = StateBytes
      BY <1>3, <2>1, <2>3, <2>5 DEF BaseInv, Typed, StateBytes
    <3>2. Len(disk'[0]) + 1 = Len(disk[0]) + 2
      BY <1>3, <2>1, <2>5, <3>1
    <3> QED BY <1>3, <2>1, <2>5, <3>1, <3>2, InForceBehind
  <2> QED BY <1>1, <2>1, <2>3, <2>4, <2>5, WriteDecoded
<1>9. CASE Abort \/ Finish
  <2>1. /\ UNCHANGED state_section
        /\ FinishSegment(FALSE) \/ (FinishSegment(ret = 0) /\ (ret = 0) \in BOOLEAN)
    BY <1>9 DEF Abort, Finish, stateVars
  <2>2. CASE ~separate_segments
    <3>1. UNCHANGED <<disk, out_file>>
      BY <2>1, <2>2, FinishOk DEF BaseInv, outputVars
    <3> QED BY <1>1, <2>1, <3>1, NoWriteDecoded
  <2>3. CASE separate_segments
    <3>1. /\ out_file' = NULL
          /\ \A n \in Names :
               \/ n # out_file /\ disk'[n] = disk[n]
               \/ n = out_file /\ disk'[n] \in {NULL, disk[n], Append(disk[n], Torn)}
      BY <2>1, <2>3, FinishOk DEF BaseInv
    <3>2. \A n \in Names : n = out_file => disk[n] \in Seq(Aligned)
      BY NullIsNoName DEF BaseInv, OpenFile, Names
    <3> QED BY <1>1, <2>1, <2>3, <3>1, <3>2, NoWriteDecoded
  <2> QED BY <2>2, <2>3
<1>10. CASE Close
  <2>1. out_file' = NULL /\ UNCHANGED state_section /\ pc = "close"
    BY <1>10 DEF Close, stateVars
  <2>2. \/ disk' = disk
        \/ /\ out_file \in Names
           /\ disk' = [disk EXCEPT ![out_file] = Append(disk[out_file], Torn)]
    BY <1>10, CloseFile
  <2>3. \A n \in Names : n = out_file => disk[n] \in Seq(Aligned)
    BY NullIsNoName DEF BaseInv, OpenFile, Names
  <2>4. ~separate_segments => out_file = 0 /\ 0 \in Names
    BY <2>1 DEF BaseInv, OpenFile, Names
  <2>5. \A n \in Names : \/ disk'[n] = disk[n]
                         \/ n = out_file /\ disk'[n] = Append(disk[n], Torn)
    BY <2>2 DEF BaseInv, Typed
  <2> QED BY <1>1, <2>1, <2>3, <2>4, <2>5, NoWriteDecoded
<1> QED BY <1>4, <1>5, <1>6, <1>7, <1>8, <1>9, <1>10, Steps

LEMMA DecodedInit == Init => AllDecoded
<1> SUFFICES ASSUME Init PROVE AllDecoded
  OBVIOUS
<1>1. \A n \in Names : disk[n] # NULL \/ n = out_file => disk[n] = <<>>
  BY NullIsNoName DEF Init, OutputInit, Names
<1>2. ~separate_segments => disk[0] = <<>> /\ StateBytes = NULL
  BY DEF Init, OutputInit, Names, StateBytes
<1>3. Decoded(<<>>) /\ InForce(<<>>, Len(<<>>) + 1, NULL)
  BY DEF Decoded, InForce
<1> QED BY <1>1, <1>2, <1>3 DEF AllDecoded, Held

LEMMA DecodedStutter == AllDecoded /\ UNCHANGED vars => AllDecoded'
<1> SUFFICES ASSUME AllDecoded, UNCHANGED vars PROVE AllDecoded'
  OBVIOUS
<1>1. UNCHANGED <<separate_segments, playlist, disk, out_file, state_section>>
  BY DEF vars, outputVars, stateVars, inputVars
<1> QED BY <1>1, AllDecodedNext DEF AllDecoded, Held, StateBytes

\* A player of any file meets the section that the playlist assigns to a segment
\* ahead of it, and no other in between: for any playlist, in one file and in
\* many, and after writes that failed.
THEOREM AlwaysDecodable == Spec => []Decodable
<1> DEFINE Inv == BaseInv /\ FilesWhole /\ OneFile /\ AllDecoded
<1>1. Init => Inv
  BY BaseInit, WholeInit, OneFileInit, DecodedInit
<1>2. Inv /\ [Next]_vars => Inv'
  BY BaseStep, WholeStep, WholeStutter, OneFileStep, OneFileStutter, DecodedStep, DecodedStutter
  DEF Next, Terminating
<1>3. Inv => Decodable
  BY DEF AllDecoded, Held, Decoded, Decodable, Kept
<1> HIDE DEF Inv
<1> QED BY <1>1, <1>2, <1>3, PTL DEF Spec

-----------------------------------------------------------------------------
(* What exit status 0 promises *)

\* Where the loop is, and what it returns.
Course ==
  /\ pc = "abort" => ret = 1
  /\ pc \in Working \ {"finish", "abort"} => ret = 0
  /\ pc \in {"end", "close", "exit"} /\ ret = 0 => ms = NumSegments + 1
  /\ wrote_media => (1..(ms - 1)) \ skipped # {}
  /\ pc \in {"close", "exit"} /\ ret = 0 => wrote_media
  /\ pc = "exit" /\ ret = 0 => ~out_failed
  /\ skipped \subseteq 1..(ms - 1)

\* The segments that may be on disk, and those that must be if nothing failed.
MayBe  == (1..(IF pc \in Working \ {"finish"} THEN ms - 1 ELSE ms)) \ skipped
MustBe == (1..(IF pc = "finish" THEN ms ELSE ms - 1)) \ skipped

Ascending(f) ==
  \A j, k \in DOMAIN f :
    j < k /\ f[j].kind = "media" /\ f[k].kind = "media" => f[j].of < f[k].of

Intact(f) == \A k \in DOMAIN f : f[k] # Torn

Clean == ret = 0 /\ ~out_failed

Recording ==
  /\ \A n \in Kept :
       /\ Ascending(disk[n])
       /\ SegmentsIn(disk[n]) \subseteq MayBe
       /\ separate_segments => SegmentsIn(disk[n]) \subseteq {n}
  /\ Clean =>
       /\ \A n \in Kept : Intact(disk[n])
       /\ MustBe \subseteq UNION {SegmentsIn(disk[n]) : n \in Kept}

\* What a chunk adds to a file.
LEMMA AppendSegments ==
  ASSUME NEW f \in Seq(Aligned), NEW c \in Aligned
  PROVE  /\ SegmentsIn(Append(f, c)) =
              SegmentsIn(f) \cup (IF c.kind = "media" THEN {c.of} ELSE {})
         /\ Intact(f) /\ c # Torn => Intact(Append(f, c))
         /\ Ascending(f) /\ (c.kind = "media" => \A i \in SegmentsIn(f) : i < c.of)
              => Ascending(Append(f, c))
<1> DEFINE g == Append(f, c)
<1>1. /\ Len(f) \in Nat /\ DOMAIN f = 1..Len(f) /\ DOMAIN g = 1..(Len(f) + 1)
      /\ g[Len(f) + 1] = c /\ \A j \in 1..Len(f) : g[j] = f[j]
  OBVIOUS
<1> HIDE DEF g
<1>2. SegmentsIn(g) = SegmentsIn(f) \cup (IF c.kind = "media" THEN {c.of} ELSE {})
  <2>1. ASSUME NEW i \in SegmentsIn(g)
        PROVE  i \in SegmentsIn(f) \cup (IF c.kind = "media" THEN {c.of} ELSE {})
    <3>1. PICK j \in 1..(Len(f) + 1) : g[j].kind = "media" /\ g[j].of = i
      BY <1>1 DEF SegmentsIn
    <3>2. CASE j = Len(f) + 1
      BY <1>1, <3>1, <3>2
    <3>3. CASE j \in 1..Len(f)
      BY <1>1, <3>1, <3>3 DEF SegmentsIn
    <3> QED BY <1>1, <3>2, <3>3
  <2>2. ASSUME NEW i \in SegmentsIn(f) PROVE i \in SegmentsIn(g)
    <3>1. PICK j \in 1..Len(f) : f[j].kind = "media" /\ f[j].of = i
      BY <1>1 DEF SegmentsIn
    <3>2. j \in 1..(Len(f) + 1) /\ g[j] = f[j]
      BY <1>1
    <3> QED BY <1>1, <3>1, <3>2 DEF SegmentsIn
  <2>3. c.kind = "media" => c.of \in SegmentsIn(g)
    <3>1. Len(f) + 1 \in DOMAIN g
      BY <1>1
    <3> QED BY <1>1, <3>1 DEF SegmentsIn
  <2> QED BY <2>1, <2>2, <2>3
<1>3. Intact(f) /\ c # Torn => Intact(g)
  <2> SUFFICES ASSUME Intact(f), c # Torn, NEW k \in 1..(Len(f) + 1) PROVE g[k] # Torn
    BY <1>1 DEF Intact
  <2> QED BY <1>1 DEF Intact
<1>4. ASSUME Ascending(f), c.kind = "media" => \A i \in SegmentsIn(f) : i < c.of
      PROVE  Ascending(g)
  <2> SUFFICES ASSUME NEW j \in 1..(Len(f) + 1), NEW k \in 1..(Len(f) + 1),
                      j < k, g[j].kind = "media", g[k].kind = "media"
               PROVE  g[j].of < g[k].of
    BY <1>1 DEF Ascending
  <2>1. j \in 1..Len(f) /\ g[j] = f[j]
    BY <1>1
  <2>2. CASE k \in 1..Len(f)
    BY <1>1, <1>4, <2>1, <2>2 DEF Ascending
  <2>3. CASE k = Len(f) + 1
    <3>1. f[j].of \in SegmentsIn(f)
      BY <1>1, <2>1 DEF SegmentsIn
    <3> QED BY <1>1, <1>4, <2>1, <2>3, <3>1
  <2> QED BY <1>1, <2>2, <2>3
<1> QED BY <1>2, <1>3, <1>4 DEF g

LEMMA CourseStep ==
  ASSUME BaseInv, Course, Step
  PROVE  Course'
<1>1. /\ ms \in 1..(NumSegments + 1) /\ (pc \in Working => ms \in 1..NumSegments)
      /\ NumSegments \in Nat \ {0} /\ ret \in {0, 1} /\ out_failed \in BOOLEAN
  BY NumSegmentsAssumption DEF BaseInv, Typed, Positions
<1>2. CASE FetchOk \/ FetchRetry \/ BeginFetchInit \/ Begin
  <2>1. /\ UNCHANGED <<ms, ret, skipped, wrote_media>> /\ ret = 0
        /\ pc' \in Working \ {"finish", "abort"}
    BY <1>2 DEF FetchOk, FetchRetry, BeginFetchInit, Begin, Course, Working, stateVars
  <2> QED BY <1>1, <2>1 DEF Course, Working
<1>3. CASE FetchUnusable \/ FetchGivesUp \/ BeginFails \/ BeginInitFails \/ WriteInitFails \/ MergeFails
  <2>1. /\ UNCHANGED <<ms, skipped, wrote_media>> /\ ret' = 1
        /\ pc' \in {"abort", "finish", "end"}
    BY <1>3 DEF FetchUnusable, FetchGivesUp, BeginFails, BeginInitFails, WriteInitFails,
       MergeFails, stateVars
  <2> QED BY <1>1, <2>1 DEF Course, Working
<1>4. CASE FetchSkip
  <2>1. /\ ms' = ms + 1 /\ skipped' = skipped \cup {ms} /\ UNCHANGED <<ret, wrote_media>>
        /\ pc = "fetch" /\ pc' = IF ms = NumSegments THEN "end" ELSE "fetch"
    BY <1>4 DEF FetchSkip, Advance, stateVars
  <2>2. ret = 0 /\ ms \in 1..NumSegments
    BY <1>1, <2>1 DEF Course, Working
  <2>3. wrote_media' => (1..(ms' - 1)) \ skipped' # {}
    <3>1. SUFFICES ASSUME wrote_media PROVE (1..ms) \ (skipped \cup {ms}) # {}
      BY <1>1, <2>1
    <3>2. PICK i \in 1..(ms - 1) : i \notin skipped
      BY <3>1 DEF Course
    <3> QED BY <1>1, <3>2
  <2>4. skipped' \subseteq 1..(ms' - 1)
    BY <1>1, <2>1, <2>2 DEF Course
  <2> QED BY <1>1, <2>1, <2>2, <2>3, <2>4 DEF Course, Working
<1>5. CASE WriteInit \/ WriteMedia \/ WriteMediaFails
  <2>1. /\ UNCHANGED <<ms, skipped, wrote_media>> /\ pc \in {"write", "write_init"}
        /\ pc' \in {"write", "finish"} /\ (pc' = "write" => ret' = ret)
    BY <1>5 DEF WriteInit, WriteMedia, WriteMediaFails, RememberInit, stateVars
  <2> QED BY <1>1, <2>1 DEF Course, Working
<1>6. CASE Abort
  <2>1. UNCHANGED <<ms, skipped, wrote_media, ret>> /\ pc = "abort" /\ pc' = "end"
    BY <1>6 DEF Abort, stateVars
  <2> QED BY <1>1, <2>1 DEF Course, Working
<1>7. CASE Finish
  <2>1. /\ pc = "finish" /\ UNCHANGED skipped
        /\ ret' = IF out_failed' THEN 1 ELSE ret
        /\ \/ /\ ret' = 0 /\ wrote_media' = TRUE /\ ms' = ms + 1
              /\ pc' = IF ms = NumSegments THEN "end" ELSE "fetch"
           \/ ret' # 0 /\ pc' = "end" /\ UNCHANGED <<wrote_media, ms>>
    BY <1>7 DEF Finish, Advance
  <2>2. ms \in (1..ms) \ skipped
    BY <1>1 DEF Course
  <2>3. ms \in 1..NumSegments
    BY <1>1, <2>1 DEF Working
  <2>4. CASE ret' = 0 /\ wrote_media' = TRUE /\ ms' = ms + 1
    <3>1. ms' - 1 = ms
      BY <1>1, <2>4
    <3>2. (1..(ms' - 1)) \ skipped' # {} /\ skipped' \subseteq 1..(ms' - 1)
      BY <1>1, <2>1, <2>2, <3>1 DEF Course
    <3> QED BY <1>1, <2>1, <2>3, <2>4, <3>2 DEF Course, Working
  <2>5. CASE ret' # 0 /\ pc' = "end" /\ UNCHANGED <<wrote_media, ms>>
    BY <1>1, <2>1, <2>5 DEF Course, Working
  <2> QED BY <2>1, <2>4, <2>5
<1>8. CASE End
  <2>1. /\ pc = "end" /\ pc' = "close" /\ ret' = (IF wrote_media THEN ret ELSE 1)
        /\ UNCHANGED <<ms, skipped, wrote_media>>
    BY <1>8 DEF End, stateVars
  <2> QED BY <1>1, <2>1 DEF Course, Working
<1>9. CASE Close
  <2>1. /\ pc = "close" /\ pc' = "exit" /\ UNCHANGED <<ms, skipped, wrote_media, out_failed>>
        /\ ret' = 1 \/ (ret' = ret /\ ~out_failed)
    BY <1>9 DEF Close, stateVars
  <2> QED BY <1>1, <2>1 DEF Course, Working
<1> QED BY <1>2, <1>3, <1>4, <1>5, <1>6, <1>7, <1>8, <1>9 DEF Step

LEMMA NoFileIsNull == \A f \in Seq(Aligned) : f # NULL
<1> DEFINE Forms == [kind : {"init", "media", "torn"}, of : Contents \cup Nat, audio : Nat]
<1>1. Aligned \subseteq Forms
  <2> SUFFICES ASSUME NEW c \in Chunks PROVE c \in Forms
    BY DEF Aligned
  <2>1. CASE c \in {[kind |-> "init", of |-> b, audio |-> 0] : b \in Contents}
    BY <2>1
  <2>2. CASE c \in {[kind |-> "media", of |-> i, audio |-> a] :
                      i \in Positions, a \in 0..NumSegments}
    BY <2>2, NumSegmentsAssumption DEF Positions
  <2>3. CASE c = Torn
    BY <2>3 DEF Torn
  <2> QED BY <2>1, <2>2, <2>3 DEF Chunks
<1> HIDE DEF Forms
<1>2. \A f \in Seq(Aligned) : f \in Seq(Forms)
  BY <1>1
<1> QED BY <1>2, NullAssumption DEF Forms

\* No file gets more, one may be torn or gone.
LEMMA NoWriteRecorded ==
  ASSUME BaseInv, Recording, UNCHANGED separate_segments,
         \A n \in Names : \/ disk'[n] \in {disk[n], NULL}
                          \/ disk[n] \in Seq(Aligned) /\ disk'[n] = Append(disk[n], Torn),
         MayBe \subseteq MayBe',
         Clean' => disk' = disk /\ Clean /\ MustBe' \subseteq MustBe
  PROVE  Recording'
<1>1. Names' = Names /\ Kept' = {n \in Names : disk'[n] # NULL}
  BY DEF Names, Kept
<1>2. ASSUME NEW n \in Kept'
      PROVE  /\ Ascending(disk'[n]) /\ SegmentsIn(disk'[n]) \subseteq MayBe
             /\ separate_segments => SegmentsIn(disk'[n]) \subseteq {n}
  <2>1. CASE disk'[n] = disk[n]
    BY <1>1, <2>1 DEF Recording, Kept
  <2>2. CASE disk[n] \in Seq(Aligned) /\ disk'[n] = Append(disk[n], Torn)
    <3>1. n \in Kept
      BY <1>1, <2>2, NoFileIsNull DEF Kept
    <3>2. Torn \in Aligned /\ Torn.kind # "media"
      BY ChunksAligned DEF Torn
    <3>3. Ascending(disk[n])
      BY <3>1 DEF Recording
    <3>4. SegmentsIn(disk'[n]) = SegmentsIn(disk[n]) /\ Ascending(disk'[n])
      BY <2>2, <3>2, <3>3, AppendSegments
    <3> QED BY <3>1, <3>4 DEF Recording
  <2> QED BY <1>1, <2>1, <2>2
<1>3. ASSUME Clean'
      PROVE  /\ \A n \in Kept' : Intact(disk'[n])
             /\ MustBe' \subseteq UNION {SegmentsIn(disk'[n]) : n \in Kept'}
  BY <1>1, <1>3 DEF Recording, Kept
<1> QED BY <1>2, <1>3 DEF Recording

\* A file is begun or gets more.
LEMMA WriteRecorded ==
  ASSUME BaseInv, Recording, pc \in Working \ {"finish", "abort"}, UNCHANGED separate_segments,
         NEW c \in Aligned, disk' = [disk EXCEPT ![Name] = Append(Opened(Name), c)],
         c.kind = "media" => c.of = ms /\ ms \in MayBe',
         MayBe \subseteq MayBe',
         Clean' => /\ c # Torn /\ Clean
                   /\ MustBe' \subseteq MustBe \cup (IF c.kind = "media" THEN {c.of} ELSE {})
  PROVE  Recording'
<1> DEFINE f == Opened(Name)
<1>1. /\ Name \in Names /\ out_file \in {NULL, Name}
      /\ separate_segments => Name = ms
      /\ ~separate_segments => Names = {0}
  BY DEF BaseInv, Typed, OpenFile, Name, Names, Working
<1>2. /\ f \in Seq(Aligned)
      /\ (f = <<>> /\ separate_segments) \/ (f = disk[Name] /\ Name \in Kept)
  <2>1. CASE out_file = NULL
    BY <2>1, NullIsNoName DEF Opened, BaseInv, OpenFile, Working
  <2>2. CASE out_file # NULL
    BY <1>1, <2>2, NoFileIsNull DEF Opened, BaseInv, OpenFile, Kept
  <2> QED BY <2>1, <2>2
<1>3. /\ Ascending(f) /\ SegmentsIn(f) \subseteq MayBe
      /\ separate_segments => SegmentsIn(f) \subseteq {Name}
      /\ Clean => Intact(f)
  <2>1. CASE f = <<>>
    BY <2>1 DEF Ascending, SegmentsIn, Intact
  <2>2. CASE f = disk[Name] /\ Name \in Kept
    BY <2>2 DEF Recording
  <2> HIDE DEF f
  <2> QED BY <1>2, <2>1, <2>2
<1>4. disk'[Name] = Append(f, c) /\ \A n \in Names : n # Name => disk'[n] = disk[n]
  BY <1>1 DEF BaseInv, Typed
<1> HIDE DEF f
<1>5. \A i \in SegmentsIn(f) : i < ms
  BY <1>3, NumSegmentsAssumption DEF MayBe, BaseInv, Typed
<1>6. /\ SegmentsIn(Append(f, c)) =
           SegmentsIn(f) \cup (IF c.kind = "media" THEN {c.of} ELSE {})
      /\ Ascending(Append(f, c))
      /\ Clean' => Intact(Append(f, c))
  BY <1>2, <1>3, <1>5, AppendSegments
<1>7. /\ Names' = Names /\ Kept' = {n \in Names : disk'[n] # NULL} /\ Name \in Kept'
      /\ \A n \in Kept' : n = Name \/ (n \in Kept /\ disk'[n] = disk[n])
  <2>1. Append(f, c) # NULL
    BY <1>2, NoFileIsNull
  <2> QED BY <1>1, <1>4, <2>1 DEF Names, Kept
<1>8. ASSUME NEW n \in Kept'
      PROVE  /\ Ascending(disk'[n]) /\ SegmentsIn(disk'[n]) \subseteq MayBe'
             /\ separate_segments => SegmentsIn(disk'[n]) \subseteq {n}
             /\ Clean' => Intact(disk'[n])
  <2>1. CASE n = Name
    BY <1>1, <1>3, <1>4, <1>6, <2>1
  <2>2. CASE n \in Kept /\ disk'[n] = disk[n]
    BY <2>2 DEF Recording
  <2> QED BY <1>7, <2>1, <2>2
<1>9. ASSUME Clean', NEW i \in MustBe'
      PROVE  i \in UNION {SegmentsIn(disk'[n]) : n \in Kept'}
  <2>1. CASE c.kind = "media" /\ i = c.of
    <3>1. i \in SegmentsIn(disk'[Name])
      BY <1>4, <1>6, <2>1
    <3> QED BY <1>7, <3>1
  <2>2. CASE i \in MustBe
    <3>1. PICK n \in Kept : i \in SegmentsIn(disk[n])
      BY <1>9, <2>2 DEF Recording
    <3>2. CASE n # Name
      BY <1>4, <1>7, <3>1, <3>2 DEF Kept
    <3>3. CASE n = Name /\ f = disk[Name]
      BY <1>4, <1>6, <1>7, <3>1, <3>3
    <3>4. CASE n = Name /\ separate_segments
      <4>1. i = ms /\ i \in MayBe
        BY <1>1, <3>1, <3>4 DEF Recording
      <4>2. MayBe \subseteq 1..(ms - 1) /\ ms \in Nat
        BY NumSegmentsAssumption DEF MayBe, BaseInv, Typed
      <4> QED BY <4>1, <4>2
    <3> QED BY <1>2, <3>2, <3>3, <3>4
  <2> QED BY <1>9, <2>1, <2>2
<1> QED BY <1>7, <1>8, <1>9 DEF Recording

LEMMA QuietRecorded ==
  ASSUME BaseInv, Course, Recording, Quiet
  PROVE  Recording'
<1>1. UNCHANGED <<outputVars, stateVars, inputVars>>
  BY QuietOk
<1>2. /\ ms \in 1..(NumSegments + 1) /\ (pc \in Working => ms \in 1..NumSegments)
      /\ NumSegments \in Nat \ {0}
  BY NumSegmentsAssumption DEF BaseInv, Typed, Positions
<1>3. MayBe \subseteq MayBe' /\ (Clean' => Clean /\ MustBe' \subseteq MustBe)
  <2>1. CASE FetchOk \/ FetchRetry \/ BeginFetchInit \/ Begin
    <3>1. /\ UNCHANGED <<ms, ret, skipped, out_failed>>
          /\ pc \in Working \ {"finish"} /\ pc' \in Working \ {"finish"}
      BY <1>1, <2>1 DEF FetchOk, FetchRetry, BeginFetchInit, Begin, Working, outputVars
    <3> QED BY <3>1 DEF MayBe, MustBe, Clean
  <2>2. CASE FetchUnusable \/ FetchGivesUp \/ BeginFails \/ BeginInitFails \/ WriteInitFails \/ MergeFails
    <3>1. /\ UNCHANGED <<ms, skipped>> /\ ret' = 1 /\ pc \in Working \ {"finish"}
      BY <2>2 DEF FetchUnusable, FetchGivesUp, BeginFails, BeginInitFails, WriteInitFails,
         MergeFails, Working
    <3> QED BY <1>2, <3>1 DEF MayBe, Clean
  <2>3. CASE FetchSkip
    <3>1. /\ ms' = ms + 1 /\ skipped' = skipped \cup {ms} /\ UNCHANGED <<ret, out_failed>>
          /\ pc = "fetch" /\ pc' \in {"end", "fetch"}
      BY <1>1, <2>3 DEF FetchSkip, Advance, outputVars
    <3> QED BY <1>2, <3>1 DEF MayBe, MustBe, Clean, Working
  <2>4. CASE End
    <3>1. /\ UNCHANGED <<ms, skipped, out_failed>> /\ pc = "end" /\ pc' = "close"
          /\ ret' \in {ret, 1}
      BY <1>1, <2>4 DEF End, outputVars
    <3> QED BY <3>1 DEF MayBe, MustBe, Clean, Working
  <2> QED BY <2>1, <2>2, <2>3, <2>4 DEF Quiet
<1> QED BY <1>1, <1>3, NoWriteRecorded DEF outputVars, inputVars

LEMMA RecordingStep ==
  ASSUME BaseInv, Course, Recording, Step
  PROVE  Recording'
<1>1. UNCHANGED separate_segments
  BY DEF Step, FetchOk, FetchRetry, FetchUnusable, FetchSkip, FetchGivesUp, BeginFails,
     BeginFetchInit, MergeFails, End, Begin, BeginInitFails, WriteInitFails, WriteInit,
     WriteMedia, WriteMediaFails, Abort, Finish, Close, inputVars
<1>2. /\ ms \in 1..(NumSegments + 1) /\ (pc \in Working => ms \in 1..NumSegments)
      /\ NumSegments \in Nat \ {0}
  BY NumSegmentsAssumption DEF BaseInv, Typed, Positions
<1>3. CASE Quiet
  BY <1>3, QuietRecorded
<1>4. CASE FailedWrite
  <2>1. /\ pc \in Working \ {"finish", "abort"} /\ UNCHANGED <<ms, skipped>>
        /\ pc' \in {"abort", "finish"} /\ WriteFails(Name)
    BY <1>4 DEF FailedWrite, BeginInitFails, WriteInitFails, WriteMediaFails, Working
  <2>2. /\ out_failed'
        /\ \/ disk' = disk
           \/ disk' = [disk EXCEPT ![Name] = Append(Opened(Name), Torn)]
    BY <2>1, WriteFailsOk DEF BaseInv
  <2>3. ~Clean' /\ MayBe \subseteq MayBe'
    BY <1>2, <2>1, <2>2 DEF Clean, MayBe, Working
  <2>4. CASE disk' = disk
    BY <1>1, <2>3, <2>4, NoWriteRecorded
  <2>5. CASE disk' = [disk EXCEPT ![Name] = Append(Opened(Name), Torn)]
    <3>1. Torn \in Aligned /\ Torn.kind # "media"
      BY ChunksAligned DEF Torn
    <3> QED BY <1>1, <2>1, <2>3, <2>5, <3>1, WriteRecorded
  <2> QED BY <2>2, <2>4, <2>5
<1>5. CASE \/ Begin /\ InitCopied(Seg) /\ WriteDone(Name, InitChunk(MapBytes[state_section]))
           \/ WriteInit
  <2>1. /\ pc \in {"begin", "write_init"} /\ pc' = "write" /\ UNCHANGED <<ms, skipped, ret>>
        /\ pc = "begin" => /\ InitCopied(Seg)
                           /\ WriteDone(Name, InitChunk(MapBytes[state_section]))
        /\ pc = "write_init" => IF InitNotRepeated(Seg) THEN UNCHANGED outputVars
                                ELSE WriteDone(Name, InitChunk(MapBytes[Seg.map]))
    BY <1>5 DEF Begin, WriteInit
  <2>2. MayBe' = MayBe /\ MustBe' = MustBe
    BY <2>1 DEF MayBe, MustBe, Working
  <2>3. CASE UNCHANGED outputVars
    BY <1>1, <2>1, <2>2, <2>3, NoWriteRecorded DEF outputVars, Clean
  <2>4. ASSUME NEW b, InitChunk(b) \in Aligned, WriteDone(Name, InitChunk(b)) PROVE Recording'
    <3> DEFINE c == InitChunk(b)
    <3>1. c.kind # "media" /\ c # Torn
      BY DEF InitChunk, Torn
    <3>2. disk' = [disk EXCEPT ![Name] = Append(Opened(Name), c)] /\ UNCHANGED out_failed
      BY <2>4 DEF WriteDone
    <3>3. c \in Aligned
      BY <2>4
    <3> HIDE DEF c
    <3>4. pc \in Working \ {"finish", "abort"} /\ (Clean' => Clean)
      BY <2>1, <3>2 DEF Working, Clean
    <3> QED BY <1>1, <2>2, <3>1, <3>2, <3>3, <3>4, WriteRecorded
  <2> QED BY <2>1, <2>3, <2>4, WrittenAligned DEF Working
<1>6. CASE WriteMedia
  <2> DEFINE c == MediaChunk(ms, IF Merged THEN ms_audio ELSE 0)
  <2>1. /\ pc = "write" /\ pc' = "finish" /\ UNCHANGED <<ms, skipped, ret>>
        /\ WriteDone(Name, c) /\ c.kind = "media" /\ c.of = ms /\ c # Torn
    BY <1>6 DEF WriteMedia, MediaChunk, Torn
  <2>2. c \in Aligned
    BY <2>1, WrittenAligned DEF Working
  <2> HIDE DEF c
  <2>3. disk' = [disk EXCEPT ![Name] = Append(Opened(Name), c)] /\ UNCHANGED out_failed
    BY <2>1 DEF WriteDone
  <2>4. ms \notin skipped
    BY <1>2 DEF Course
  <2>5. MayBe \subseteq MayBe' /\ ms \in MayBe' /\ MustBe' \subseteq MustBe \cup {ms}
    BY <1>2, <2>1, <2>4 DEF MayBe, MustBe, Working
  <2> QED BY <1>1, <2>1, <2>2, <2>3, <2>5, WriteRecorded DEF Working, Clean
<1>7. CASE Abort \/ Finish
  <2>1. PICK success \in BOOLEAN : FinishSegment(success) /\ success = (Finish /\ ret = 0)
    BY <1>7 DEF Abort, Finish
  <2>2. \A n \in Names : disk'[n] \in {NULL, disk[n], Append(disk[n], Torn)}
    <3>1. CASE separate_segments
      BY <2>1, <3>1, FinishOk DEF BaseInv
    <3>2. CASE ~separate_segments
      BY <2>1, <3>2, FinishOk DEF BaseInv, outputVars
    <3> QED BY <3>1, <3>2
  <2>3. \A n \in Names : disk'[n] # disk[n] => disk[n] \in Seq(Aligned)
    <3>1. CASE separate_segments
      BY <2>1, <3>1, FinishOk, NullIsNoName DEF BaseInv, OpenFile, Names
    <3>2. CASE ~separate_segments
      BY <2>1, <3>2, FinishOk DEF BaseInv, outputVars
    <3> QED BY <3>1, <3>2
  <2>4. success /\ ~out_failed' => disk' = disk /\ ~out_failed
    BY <2>1 DEF FinishSegment, Closed, outputVars, BaseInv, Typed
  <2>5. MayBe \subseteq MayBe'
    <3>1. /\ UNCHANGED skipped /\ pc \in {"abort", "finish"} /\ pc' \in {"end", "fetch"}
          /\ (ms' = ms /\ pc' = "end") \/ ms' = ms + 1
      BY <1>7 DEF Abort, Finish, Advance
    <3> QED BY <1>2, <3>1 DEF MayBe, Working
  <2>6. ASSUME Clean' PROVE Finish /\ ret = 0 /\ ret' = 0 /\ ~out_failed'
    <3>1. ret' = 0 /\ ~out_failed'
      BY <2>6 DEF Clean
    <3>2. CASE Abort
      BY <3>1, <3>2 DEF Abort, Course
    <3>3. CASE Finish
      BY <3>1, <3>3 DEF Finish
    <3> QED BY <1>7, <3>1, <3>2, <3>3
  <2>7. ASSUME Clean' PROVE disk' = disk /\ Clean /\ MustBe' \subseteq MustBe
    <3>1. disk' = disk /\ Clean
      BY <2>1, <2>4, <2>6, <2>7 DEF Clean
    <3>2. pc = "finish" /\ pc' \in {"end", "fetch"} /\ ms' = ms + 1 /\ UNCHANGED skipped
      BY <2>6, <2>7 DEF Finish, Advance
    <3> QED BY <1>2, <3>1, <3>2 DEF MustBe
  <2> QED BY <1>1, <2>2, <2>3, <2>5, <2>7, NoWriteRecorded
<1>8. CASE Close
  <2>1. /\ pc = "close" /\ pc' = "exit" /\ UNCHANGED <<ms, skipped, out_failed>>
        /\ ret' = 1 \/ (ret' = ret /\ disk' = disk /\ ~out_failed)
    BY <1>8 DEF Close
  <2>2. \/ disk' = disk
        \/ /\ out_file \in Names
           /\ disk' = [disk EXCEPT ![out_file] = Append(disk[out_file], Torn)]
    BY <1>8, CloseFile
  <2>3. \A n \in Names : n = out_file => disk[n] \in Seq(Aligned)
    BY NullIsNoName DEF BaseInv, OpenFile, Names
  <2>4. \A n \in Names : \/ disk'[n] = disk[n]
                         \/ disk[n] \in Seq(Aligned) /\ disk'[n] = Append(disk[n], Torn)
    BY <2>2, <2>3 DEF BaseInv, Typed
  <2>5. MayBe' = MayBe /\ (Clean' => disk' = disk /\ Clean /\ MustBe' = MustBe)
    BY <2>1 DEF MayBe, MustBe, Clean, Working
  <2> QED BY <1>1, <2>4, <2>5, NoWriteRecorded
<1> QED BY <1>3, <1>4, <1>5, <1>6, <1>7, <1>8, Steps

LEMMA RecordingInit == Init => Course /\ Recording
<1> SUFFICES ASSUME Init PROVE Course /\ Recording
  OBVIOUS
<1>1. /\ pc = "fetch" /\ ms = 1 /\ ret = 0 /\ skipped = {} /\ wrote_media = FALSE
      /\ \A n \in Names : disk[n] \in {NULL, <<>>}
  BY DEF Init, OutputInit
<1>2. \A n \in Kept : disk[n] = <<>>
  BY <1>1 DEF Kept
<1>3. Ascending(<<>>) /\ SegmentsIn(<<>>) = {} /\ Intact(<<>>)
  BY DEF Ascending, SegmentsIn, Intact
<1>4. MustBe = {}
  BY <1>1 DEF MustBe
<1> QED BY <1>1, <1>2, <1>3, <1>4 DEF Course, Recording, Working

LEMMA RecordingStutter == Course /\ Recording /\ UNCHANGED vars => Course' /\ Recording'
<1> SUFFICES ASSUME Course, Recording, UNCHANGED vars PROVE Course' /\ Recording'
  OBVIOUS
<1>1. UNCHANGED <<separate_segments, disk, out_failed, pc, ms, ret, skipped, wrote_media>>
  BY DEF vars, outputVars, stateVars, inputVars, loopVars
<1> QED BY <1>1 DEF Course, Recording, Kept, Names, MayBe, MustBe, Clean

\* Where the download is in its loop and what it returns say which segments are
\* on disk: those it has passed and not skipped, in order, as long as nothing failed.
THEOREM RecordingInvariant == Spec => [](Course /\ Recording)
<1>1. BaseInv /\ Course /\ Recording /\ [Next]_vars => Course' /\ Recording'
  BY CourseStep, RecordingStep, RecordingStutter DEF Next, Terminating
<1> QED BY <1>1, RecordingInit, BaseInvariant, PTL DEF Spec

\* A run that ends with status 0 has every segment on disk that it did not skip,
\* at least one, each once and in the order of the playlist, in files that are
\* not torn: for playlists of any length, in one file and in many.
THEOREM SuccessAlwaysComplete == Spec => []SuccessComplete
<1>1. BaseInv /\ Course /\ Recording => SuccessComplete
  <2> SUFFICES ASSUME BaseInv, Course, Recording, pc = "exit", ret = 0
               PROVE  SuccessComplete
    BY DEF SuccessComplete
  <2>1. /\ NumSegments \in Nat \ {0} /\ ms = NumSegments + 1 /\ ~out_failed /\ Clean
        /\ wrote_media
    BY NumSegmentsAssumption DEF Course, Clean
  <2>2. MustBe = Positions \ skipped /\ Positions \ skipped # {}
    BY <2>1 DEF MustBe, Positions, Course
  <2>3. \A n \in Kept : SegmentsIn(disk[n]) \subseteq Positions \ skipped
    <3> SUFFICES ASSUME NEW n \in Kept, NEW i \in SegmentsIn(disk[n])
                 PROVE  i \in Positions \ skipped
      OBVIOUS
    <3>1. i \notin skipped
      BY DEF Recording, MayBe
    <3>2. PICK k \in DOMAIN disk[n] : disk[n][k].kind = "media" /\ i = disk[n][k].of
      BY DEF SegmentsIn
    <3>3. disk[n] \in Seq(Aligned)
      BY DEF Kept, BaseInv, Typed, Files
    <3>4. disk[n][k] \in Chunks
      BY <3>3 DEF Aligned
    <3>5. i \in Positions
      BY <3>2, <3>4 DEF Chunks, Torn
    <3> QED BY <3>1, <3>5
  <2>4. UNION {SegmentsIn(disk[n]) : n \in Kept} = Positions \ skipped
    BY <2>1, <2>2, <2>3 DEF Recording
  <2>5. ASSUME NEW n \in Kept, NEW m \in Kept, NEW k \in DOMAIN disk[n], NEW l \in DOMAIN disk[m],
               disk[n][k].kind = "media", disk[m][l].kind = "media",
               n < m \/ (n = m /\ k < l)
        PROVE  disk[n][k].of < disk[m][l].of
    <3>1. CASE n = m
      <4>1. k < l
        BY <2>5, <3>1, NumSegmentsAssumption DEF Kept, Names, Positions
      <4> QED BY <2>5, <3>1, <4>1 DEF Recording, Ascending
    <3>2. CASE n # m
      <4>1. separate_segments
        BY <3>2 DEF Kept, Names
      <4>2. disk[n][k].of = n /\ disk[m][l].of = m
        <5>1. disk[n][k].of \in SegmentsIn(disk[n]) /\ disk[m][l].of \in SegmentsIn(disk[m])
          BY <2>5 DEF SegmentsIn
        <5> QED BY <4>1, <5>1 DEF Recording
      <4> QED BY <2>5, <3>2, <4>2
    <3> QED BY <3>1, <3>2
  <2>6. \A n \in Kept : \A k \in DOMAIN disk[n] : disk[n][k] # Torn
    BY <2>1 DEF Recording, Intact
  <2> QED BY <2>2, <2>4, <2>5, <2>6 DEF SuccessComplete
<1> QED BY <1>1, RecordingInvariant, BaseInvariant, PTL

=============================================================================
