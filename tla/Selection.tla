----------------------------- MODULE Selection -----------------------------
(***************************************************************************)
(* The way from the command line to a recorder (main): the playlist that   *)
(* was opened, the variant and the audio rendition chosen from a master    *)
(* playlist, and what becomes of them.                                     *)
(*                                                                         *)
(* A master playlist is the lists its parser builds (MasterPlaylist); of a *)
(* media playlist only what main looks at is kept.                         *)
(***************************************************************************)
EXTENDS Integers, SequencesExt

CONSTANTS NULL,
          Variants,       \* [bitrate, width, height, audio_grp]; width NULL: unknown
          Renditions,     \* [grp_id, lang (NULL: none), is_default]
          Widths, Heights, Languages,  \* values of -W, -H (-1: not given) and -A
          MaxVariants, MaxRenditions   \* bounds on the two lists

\* A resolution that is known has both dimensions.
ASSUME VariantsAssumption ==
  \A v \in Variants : v.bitrate \in Nat /\ (v.width # NULL => v.width \in Int /\ v.height \in Int)
ASSUME OptionsAssumption == Widths \cup Heights \subseteq Int
ASSUME NullAssumption    == NULL \notin Nat
ASSUME BoundsAssumption  == MaxVariants \in Nat /\ MaxRenditions \in Nat

VARIABLES
  options,                  \* [use_best, maxwidth, maxheight, audiolang, audio_url]
  media_playlist, audio,    \* the lists of the master playlist, head first
  pc,
  selected,                 \* position of the chosen variant, or NULL
  selected_audio,           \* position of the chosen rendition, "url" for -a, or NULL
  recorder                  \* how main ends: a recorder and its audio, or an exit

vars == <<options, media_playlist, audio, pc, selected, selected_audio, recorder>>

Lists(S, n) == UNION {[1..m -> S] : m \in 0..n}

Init ==
  /\ options \in [use_best : BOOLEAN, maxwidth : Widths, maxheight : Heights,
                  audiolang : Languages \cup {NULL}, audio_url : BOOLEAN]
  /\ media_playlist \in Lists(Variants, MaxVariants)
  /\ audio \in Lists(Renditions, MaxRenditions)
  /\ pc = "open"
  /\ selected = NULL /\ selected_audio = NULL /\ recorder = NULL

Exit == /\ pc' = "end"
        /\ recorder' = [mode |-> "exit", audio |-> NULL]
        /\ UNCHANGED <<options, media_playlist, audio>>

Goto(where) == /\ pc' = where
               /\ UNCHANGED <<options, media_playlist, audio, recorder>>

-----------------------------------------------------------------------------

\* The playlist cannot be fetched, or is neither a master nor a usable media one.
OpenFails == pc = "open" /\ Exit /\ UNCHANGED <<selected, selected_audio>>

OpenMedia ==
  /\ pc = "open"
  /\ IF options.audio_url THEN selected_audio' = "url" /\ Goto("open_audio")
     ELSE UNCHANGED selected_audio /\ Goto("parse")
  /\ UNCHANGED selected

\* -a goes with a media playlist only; a master playlist needs a variant.
OpenMaster ==
  /\ pc = "open"
  /\ IF options.audio_url \/ media_playlist = <<>> THEN Exit ELSE Goto("choose")
  /\ UNCHANGED <<selected, selected_audio>>

(* The variant *)

BySize == options.maxwidth > -1 \/ options.maxheight > -1

\* The first variant of the greatest bitrate.
Best == FoldLeft(LAMBDA best, me : IF media_playlist[me].bitrate > media_playlist[best].bitrate
                                   THEN me ELSE best,
                 1, [i \in 1..Len(media_playlist) |-> i])

ChooseBest ==
  /\ pc = "choose" /\ options.use_best
  /\ selected' = Best
  /\ Goto("audio")
  /\ UNCHANGED selected_audio

Fits(v) == /\ v.width # NULL
           /\ options.maxwidth # -1 => v.width <= options.maxwidth
           /\ options.maxheight # -1 => v.height <= options.maxheight

\* Fault: the comparison of a dimension that was not given is not left out.
Larger_Always(v, than) ==
  \/ than = NULL
  \/ v.width > media_playlist[than].width /\ v.height > media_playlist[than].height

\* Of the dimensions that were given, each is larger than the choice so far.
Larger(v, than) ==
  \/ than = NULL
  \/ /\ options.maxwidth # -1 => v.width > media_playlist[than].width
     /\ options.maxheight # -1 => v.height > media_playlist[than].height

LargestFitting ==
  FoldLeft(LAMBDA largest, me : IF Fits(media_playlist[me]) /\ Larger(media_playlist[me], largest)
                                THEN me ELSE largest,
           NULL, [i \in 1..Len(media_playlist) |-> i])

ChooseBySize ==
  /\ pc = "choose" /\ ~options.use_best /\ BySize
  /\ selected' = LargestFitting
  /\ IF selected' = NULL THEN Exit ELSE Goto("audio")
  /\ UNCHANGED selected_audio

\* The user is asked; an answer that is no position ends the program.
ChooseAsked ==
  /\ pc = "choose" /\ ~options.use_best /\ ~BySize
  /\ \/ selected' \in DOMAIN media_playlist /\ Goto("audio")
     \/ selected' = NULL /\ Exit
  /\ UNCHANGED selected_audio

(* The audio rendition *)

Group == {i \in DOMAIN audio : /\ media_playlist[selected].audio_grp # NULL
                               /\ audio[i].grp_id = media_playlist[selected].audio_grp}

AudioNone ==
  /\ pc = "audio" /\ Group = {}
  /\ Goto("parse")
  /\ UNCHANGED <<selected, selected_audio>>

AudioOnly ==
  /\ pc = "audio" /\ Cardinality(Group) = 1
  /\ selected_audio' \in Group
  /\ Goto("open_audio")
  /\ UNCHANGED selected

\* Fault: the group is not looked at where the language is.
Suits_AnyGroup(i) ==
  \/ i \in Group /\ options.use_best /\ audio[i].is_default
  \/ options.audiolang # NULL /\ audio[i].lang = options.audiolang

\* What -b and -A accept of a group of several.
Suits(i) == /\ i \in Group
            /\ \/ options.use_best /\ audio[i].is_default
               \/ options.audiolang # NULL /\ audio[i].lang = options.audiolang

Suiting == {i \in DOMAIN audio : Suits(i)}

AudioSuiting ==
  /\ pc = "audio" /\ Cardinality(Group) > 1
  /\ Suiting # {}
  /\ selected_audio' = Min(Suiting)
  /\ Goto("open_audio")
  /\ UNCHANGED selected

\* The user is asked for a position in the whole list; it must be in the group.
AudioAsked ==
  /\ pc = "audio" /\ Cardinality(Group) > 1
  /\ Suiting = {}
  /\ \/ selected_audio' \in Group /\ Goto("open_audio")
     \/ selected_audio' = NULL /\ Exit
  /\ UNCHANGED selected

(* Both playlists are parsed; what can be recorded is. *)

OpenAudio ==
  /\ pc = "open_audio"
  /\ Exit \/ Goto("parse")
  /\ UNCHANGED <<selected, selected_audio>>

\* A playlist does not parse, EXT-X-MAP meets separate audio, the output cannot
\* be opened, or only links or keys are asked for (-t, -d).
ParseFails ==
  /\ pc = "parse"
  /\ Exit
  /\ UNCHANGED <<selected, selected_audio>>

\* Both recorders get the selected media playlist; only the one for ended
\* playlists gets the audio.
Record ==
  /\ pc = "parse"
  /\ recorder' \in {[mode |-> "vod", audio |-> selected_audio],
                    [mode |-> "live", audio |-> NULL]}
  /\ pc' = "end"
  /\ UNCHANGED <<options, media_playlist, audio, selected, selected_audio>>

Next ==
  \/ OpenFails \/ OpenMedia \/ OpenMaster
  \/ ChooseBest \/ ChooseBySize \/ ChooseAsked
  \/ AudioNone \/ AudioOnly \/ AudioSuiting \/ AudioAsked
  \/ OpenAudio \/ ParseFails \/ Record

Spec == Init /\ [][Next]_vars

-----------------------------------------------------------------------------
(* Properties *)

Fitting == {i \in DOMAIN media_playlist : Fits(media_playlist[i])}

\* README.md: "-b ... Automatically choose the best quality", and "-W ... Choose
\* largest width lower or equal than this", likewise -H: each of them alone
\* does, and fails only when no variant fits.
VariantIsLargest ==
  LET v == media_playlist[selected]
  IN /\ selected # NULL /\ options.use_best =>
          \A i \in DOMAIN media_playlist : media_playlist[i].bitrate <= v.bitrate
     /\ selected # NULL /\ ~options.use_best /\ BySize =>
          /\ selected \in Fitting
          /\ options.maxheight = -1 => \A i \in Fitting : media_playlist[i].width <= v.width
          /\ options.maxwidth = -1 => \A i \in Fitting : media_playlist[i].height <= v.height
     /\ pc = "choose" /\ ~options.use_best /\ BySize =>
          (LargestFitting = NULL <=> Fitting = {})

\* The audio is of the variant's group, and is chosen whenever the group has
\* any; where the group has a choice, -A alone decides by language and -b alone by
\* the DEFAULT attribute, as far as some rendition of the group has it.
AudioMatches ==
  selected # NULL /\ pc \in {"open_audio", "parse"} =>
    /\ Group # {} <=> selected_audio # NULL
    /\ selected_audio # NULL => selected_audio \in Group
    /\ /\ ~options.use_best /\ Cardinality(Group) > 1 /\ options.audiolang # NULL
       /\ \E i \in Group : audio[i].lang = options.audiolang
       => audio[selected_audio].lang = options.audiolang
    /\ /\ options.use_best /\ Cardinality(Group) > 1 /\ options.audiolang = NULL
       /\ \E i \in Group : audio[i].is_default
       => audio[selected_audio].is_default

\* README.md: "-a ... Set additional url to the audio media playlist": what was
\* selected and opened is recorded.
AudioReachesRecorder ==
  pc = "end" /\ recorder.mode # "exit" => recorder.audio = selected_audio

=============================================================================
