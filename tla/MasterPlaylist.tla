--------------------------- MODULE MasterPlaylist ---------------------------
(***************************************************************************)
(* The master playlist parser (handle_hls_master_playlist): the lists of   *)
(* variants and of audio renditions that the selection works on, with the  *)
(* element read last at the head of each.                                  *)
(*                                                                         *)
(* A line that is terminated by a newline is a record of its tag: a       *)
(* "STREAM-INF" or audio "MEDIA" tag with its attributes, any "OTHER" line *)
(* that starts with #, or a "TEXT" (a URL, or nothing at all).             *)
(***************************************************************************)
EXTENDS Integers, SequencesExt

CONSTANTS NULL,
          NoNumber,   \* a BANDWIDTH that sscanf finds no number in
          Lines,      \* the lines a playlist may have
          MaxLines    \* bound on the length of a playlist

VARIABLES
  lines,            \* the lines read so far
  status,           \* "parsing" or "done"
  url_expected,     \* the line before was a STREAM-INF
  pending,          \* bitrate, res, codecs and audio_grp, by the attribute's name
  media_playlist,   \* the variants, head first
  audio             \* the audio renditions, head first

vars == <<lines, status, url_expected, pending, media_playlist, audio>>

NoStream == [BANDWIDTH |-> 0, AUDIO |-> NULL, RESOLUTION |-> "unknown", CODECS |-> "unknown"]

Init ==
  /\ lines = <<>> /\ status = "parsing"
  /\ url_expected = FALSE /\ pending = NoStream
  /\ media_playlist = <<>> /\ audio = <<>>

-----------------------------------------------------------------------------
(* Attributes.  An empty value ends the list, whatever follows it. *)

Attribs(attribs) ==
  LET empty == SelectInSeq(attribs, LAMBDA a : a.value = NULL)
  IN IF empty = 0 THEN attribs ELSE SubSeq(attribs, 1, empty - 1)

\* A later attribute replaces an earlier one; a value without a number does not.
Assign(record, attribs) ==
  FoldLeft(LAMBDA r, a : IF a.name \in DOMAIN r /\ a.value # NoNumber
                         THEN [r EXCEPT ![a.name] = a.value] ELSE r,
           record, Attribs(attribs))

Stream(l) == Assign(NoStream, l.attribs)

Names(l) == Assign([n \in {"GROUP-ID", "NAME", "LANGUAGE", "URI"} |-> NULL], l.attribs)

IsDefault(l) == Contains(Attribs(l.attribs), [name |-> "DEFAULT", value |-> "YES"])

\* Without its own URL a rendition is part of the variant.
Recordable(l) == \A n \in {"GROUP-ID", "NAME", "URI"} : Names(l)[n] # NULL

Rendition(l) == [url |-> Names(l)["URI"], grp_id |-> Names(l)["GROUP-ID"],
                 name |-> Names(l)["NAME"], lang |-> Names(l)["LANGUAGE"],
                 is_default |-> IsDefault(l)]

Variant(l) == [url |-> l.url, bitrate |-> pending["BANDWIDTH"],
               audio_grp |-> pending["AUDIO"], resolution |-> pending["RESOLUTION"],
               codecs |-> pending["CODECS"]]

-----------------------------------------------------------------------------
(* One line at a time *)

Line(tag, l) == /\ status = "parsing" /\ Len(lines) < MaxLines
                 /\ l.tag = tag
                 /\ lines' = Append(lines, l)
                 /\ UNCHANGED status

\* Every line that starts with # forgets a STREAM-INF before it.
Forget == url_expected' = FALSE /\ pending' = NoStream

ReadStreamInf(l) ==
  /\ Line("STREAM-INF", l)
  /\ url_expected' = TRUE
  /\ pending' = Stream(l)
  /\ UNCHANGED <<media_playlist, audio>>

ReadMedia(l) ==
  /\ Line("MEDIA", l)
  /\ Forget
  /\ audio' = IF Recordable(l) THEN <<Rendition(l)>> \o audio ELSE audio
  /\ UNCHANGED media_playlist

\* Fault: a comment between a STREAM-INF and its URL changes nothing.
ReadOther_KeepsStream(l) ==
  /\ Line("OTHER", l)
  /\ UNCHANGED <<url_expected, pending, media_playlist, audio>>

ReadOther(l) ==
  /\ Line("OTHER", l)
  /\ Forget
  /\ UNCHANGED <<media_playlist, audio>>

\* What was read for this variant stays in the locals; only a # line clears it.
ReadUrl(l) ==
  /\ Line("TEXT", l) /\ url_expected
  /\ media_playlist' = <<Variant(l)>> \o media_playlist
  /\ url_expected' = FALSE
  /\ UNCHANGED <<pending, audio>>

IgnoreText(l) ==
  /\ Line("TEXT", l) /\ ~url_expected
  /\ UNCHANGED <<url_expected, pending, media_playlist, audio>>

\* What follows the last newline is not read.
EndOfSource ==
  /\ status = "parsing"
  /\ status' = "done"
  /\ UNCHANGED <<lines, url_expected, pending, media_playlist, audio>>

Next ==
  \/ \E l \in Lines : \/ ReadStreamInf(l) \/ ReadMedia(l) \/ ReadOther(l)
                      \/ ReadUrl(l) \/ IgnoreText(l)
  \/ EndOfSource

Spec == Init /\ [][Next]_vars

-----------------------------------------------------------------------------
(* What a master playlist means, read off its lines.                         *)

\* The position of an attribute's effective occurrence in a line, or 0.
Reached(l, i)  == \A j \in 1..i : l.attribs[j].value # NULL
Position(l, n) == LET at == {i \in DOMAIN l.attribs :
                                /\ l.attribs[i].name = n /\ l.attribs[i].value # NoNumber
                                /\ Reached(l, i)}
                  IN IF at = {} THEN 0 ELSE Max(at)
Value(l, n, otherwise) == IF Position(l, n) = 0 THEN otherwise
                          ELSE l.attribs[Position(l, n)].value

\* The lines that name a variant, and those that describe a rendition.
VariantLines == {k \in DOMAIN lines : /\ lines[k].tag = "TEXT" /\ k > 1
                                      /\ lines[k - 1].tag = "STREAM-INF"}
RenditionLines == {k \in DOMAIN lines :
                     /\ lines[k].tag = "MEDIA"
                     /\ \A n \in {"GROUP-ID", "NAME", "URI"} : Position(lines[k], n) # 0}

\* The line of the i-th element of a list that holds one element for each of ks.
LineOf(ks, i) == CHOOSE k \in ks : Cardinality({j \in ks : j > k}) = i - 1

\* A variant is made by each STREAM-INF that its URL follows at once, carries
\* the attributes of that tag and of no other, and stands in reverse order.
VariantsOfLines ==
  /\ Len(media_playlist) = Cardinality(VariantLines)
  /\ \A i \in DOMAIN media_playlist :
       LET k  == LineOf(VariantLines, i)
           me == media_playlist[i]
       IN /\ me.url = lines[k].url
          /\ me.bitrate    = Value(lines[k - 1], "BANDWIDTH", 0)
          /\ me.audio_grp  = Value(lines[k - 1], "AUDIO", NULL)
          /\ me.resolution = Value(lines[k - 1], "RESOLUTION", "unknown")
          /\ me.codecs     = Value(lines[k - 1], "CODECS", "unknown")

\* A rendition is made by each audio MEDIA tag that names its group, its name and
\* a URL, from the attributes ahead of the first empty one, in reverse order.
RenditionsOfLines ==
  /\ Len(audio) = Cardinality(RenditionLines)
  /\ \A i \in DOMAIN audio :
       LET l == lines[LineOf(RenditionLines, i)]
       IN /\ audio[i].url    = Value(l, "URI", NULL)
          /\ audio[i].grp_id = Value(l, "GROUP-ID", NULL)
          /\ audio[i].name   = Value(l, "NAME", NULL)
          /\ audio[i].lang   = Value(l, "LANGUAGE", NULL)
          /\ audio[i].is_default <=>
               \E j \in DOMAIN l.attribs :
                 /\ l.attribs[j] = [name |-> "DEFAULT", value |-> "YES"]
                 /\ Reached(l, j)

=============================================================================
