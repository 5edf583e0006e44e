--------------------------- MODULE SegmentOutput ---------------------------
(***************************************************************************)
(* Where a recording goes: the output_file of main.c with its sticky       *)
(* failure flag, either one file or, with option -m, one per segment; and  *)
(* init_section_state_t, which decides what initialization data (EXT-X-MAP)*)
(* is fetched and written ahead of a segment.                              *)
(*                                                                         *)
(* A file is the sequence of chunks written to it.  The bytes of an        *)
(* initialization section are a member of Contents.                        *)
(***************************************************************************)
EXTENDS Naturals, SequencesExt

CONSTANTS NULL,
          NumSegments,       \* length of the playlists considered
          Maps,              \* the EXT-X-MAP sections (URL, range and key)
          Contents,          \* what an initialization section can hold
          MapBytes,          \* the content behind each section
          TsContents         \* contents made of MPEG-TS packets

Positions == 1..NumSegments

ASSUME NumSegmentsAssumption == NumSegments \in Nat \ {0}
ASSUME MapsAssumption == /\ MapBytes \in [Maps -> Contents]
                         /\ TsContents \subseteq Contents
                         /\ NULL \notin Maps \cup Contents \cup Nat

InitChunk(c)     == [kind |-> "init", of |-> c, audio |-> 0]
MediaChunk(i, a) == [kind |-> "media", of |-> i, audio |-> a]
Torn             == [kind |-> "torn", of |-> 0, audio |-> 0]

\* The absence of a file is not a file.
ASSUME NullAssumption ==
  NULL \notin Seq([kind : {"init", "media", "torn"}, of : Contents \cup Nat, audio : Nat])

VARIABLES separate_segments,  \* option -m, chosen once
          out_file,      \* name of the open file, or NULL
          out_failed,    \* output_file.failed
          disk,          \* for each name the chunks of the file, or NULL
          left,          \* observation: incomplete files that could not be removed
          state_section, state_discontinuity, wrote_media

outputVars == <<out_file, out_failed, disk, left>>
stateVars  == <<state_section, state_discontinuity, wrote_media>>

\* A segment file is named after the segment's index; 0 names the one file of
\* a combined recording.
Names == IF separate_segments THEN Positions ELSE {0}

\* main opens the one file before the download; segment files open on demand.
OutputInit ==
  /\ separate_segments \in BOOLEAN
  /\ out_file = IF separate_segments THEN NULL ELSE 0
  /\ out_failed = FALSE /\ left = {}
  /\ disk = [n \in Names |-> IF separate_segments THEN NULL ELSE <<>>]
  /\ state_section = NULL /\ state_discontinuity = 0 /\ wrote_media = FALSE

-----------------------------------------------------------------------------
(* priv_write *)

\* get_output_file replaces a file of the same name.
Opened(name) == IF out_file = NULL THEN <<>> ELSE disk[name]

WriteDone(name, chunk) ==
  /\ ~out_failed
  /\ out_file' = name
  /\ disk' = [disk EXCEPT ![name] = Append(Opened(name), chunk)]
  /\ UNCHANGED <<out_failed, left>>

\* Nothing or only a part is written: the file cannot be opened, the write is
\* short, or an earlier failure makes every later write fail.
WriteFails(name) ==
  \/ /\ out_failed
     /\ UNCHANGED outputVars
  \/ /\ ~out_failed /\ out_file = NULL
     /\ out_failed' = TRUE
     /\ UNCHANGED <<out_file, disk, left>>
  \/ /\ ~out_failed
     /\ out_failed' = TRUE
     /\ out_file' = name
     /\ disk' = [disk EXCEPT ![name] = Append(Opened(name), Torn)]
     /\ UNCHANGED left

(* finish_output_segment *)

Closed(file, closed) == IF closed THEN file ELSE Append(file, Torn)

\* Fault: the file is kept when the caller reports no failure.
FinishSegment_TrustsCaller(success) ==
  IF separate_segments /\ out_file # NULL
  THEN \E closed, removed \in BOOLEAN :
         LET gone == ~success /\ removed
         IN /\ out_failed' = (out_failed \/ ~closed)
            /\ out_file' = NULL
            /\ disk' = [disk EXCEPT ![out_file] = IF gone THEN NULL ELSE Closed(@, closed)]
            /\ left' = IF success \/ removed THEN left ELSE left \cup {out_file}
  ELSE UNCHANGED outputVars

\* Closing may fail for data that was buffered; the file of an unsuccessful
\* segment is removed, if that works.
FinishSegment(success) ==
  IF separate_segments /\ out_file # NULL
  THEN \E closed, removed \in BOOLEAN :
         LET keep == success /\ ~out_failed'
         IN /\ out_failed' = (out_failed \/ ~closed)
            /\ out_file' = NULL
            /\ disk' = [disk EXCEPT ![out_file] =
                          IF ~keep /\ removed THEN NULL ELSE Closed(@, closed)]
            /\ left' = IF keep \/ removed THEN left ELSE left \cup {out_file}
  ELSE UNCHANGED outputVars

-----------------------------------------------------------------------------
(* write_init_section *)

\* same_init_section, and in one file also the same discontinuity.
InitIsCurrent(ms) ==
  /\ state_section # NULL
  /\ ms.map = state_section
  /\ separate_segments \/ state_discontinuity = ms.discontinuity

\* A segment without a section cannot follow one with a section in one file.
InitMissing(ms) == ms.map = NULL /\ state_section # NULL /\ ~separate_segments

\* Nothing to fetch and nothing to write.
InitUnneeded(ms) ==
  \/ ms.map = NULL /\ ~InitMissing(ms)
  \/ ms.map # NULL /\ InitIsCurrent(ms) /\ ~separate_segments

\* Each segment file gets its own copy of the cached bytes.
InitCopied(ms) == ms.map # NULL /\ InitIsCurrent(ms) /\ separate_segments

InitFetched(ms) == ms.map # NULL /\ ~InitIsCurrent(ms)

BothTs(ms) == /\ MapBytes[ms.map] \in TsContents
              /\ MapBytes[state_section] \in TsContents

\* Fault: the bytes are not compared.
InitUnchanged_AnyBytes(ms) == state_discontinuity = ms.discontinuity

\* The fetched section says the same as the one in force.
InitUnchanged(ms) ==
  /\ state_discontinuity = ms.discontinuity
  /\ MapBytes[ms.map] = MapBytes[state_section]

\* Fault: a section may appear in the middle of a file of plain segments.
InitRefused_NotLate(ms) ==
  /\ ~separate_segments
  /\ state_section # NULL /\ ~BothTs(ms) /\ ~InitUnchanged(ms)

\* What one file cannot hold without remuxing.
InitRefused(ms) ==
  /\ ~separate_segments
  /\ \/ state_section # NULL /\ ~BothTs(ms) /\ ~InitUnchanged(ms)
     \/ state_section = NULL /\ wrote_media /\ MapBytes[ms.map] \notin TsContents

\* "A new URI or key can still describe the same initialization bytes."
InitNotRepeated(ms) ==
  /\ ~separate_segments
  /\ state_section # NULL /\ ~BothTs(ms)

RememberInit(ms) ==
  /\ state_section' = ms.map
  /\ state_discontinuity' = ms.discontinuity
  /\ UNCHANGED wrote_media

=============================================================================
