------------------------------ MODULE Playlist ------------------------------
(***************************************************************************)
(* A playlist that was fetched: get_playlist_type tells from its source    *)
(* whether it goes to the parser of media playlists, to the one of master  *)
(* playlists or to neither.  The two parsers (MediaPlaylist and            *)
(* MasterPlaylist) read the lines of the same source.                      *)
(***************************************************************************)
EXTENDS MediaPlaylist

CONSTANTS NoNumber, MasterLines, MaxMasterLines

\* The attributes of a tag are in sequence.
ASSUME MasterLinesAssumption ==
  \A l \in MasterLines : l.tag \in {"STREAM-INF", "MEDIA"} =>
    /\ Len(l.attribs) \in Nat
    /\ l.attribs = [i \in 1..Len(l.attribs) |-> l.attribs[i]]

VARIABLES playlist_type,  \* "master", "media" or "none"
          url_expected, pending, media_playlist, audio

Master == INSTANCE MasterPlaylist WITH Lines <- MasterLines, MaxLines <- MaxMasterLines

media_vars  == <<dialect, me, ahead>>
master_vars == <<url_expected, pending, media_playlist, audio>>
all_vars    == <<lines, status, playlist_type, media_vars, master_vars>>

\* What decides the type of a source, and the option -f.
Sources == [is_extm3u : BOOLEAN, has_stream_inf : BOOLEAN, is_fps : BOOLEAN,
            force_ignoredrm : BOOLEAN]

\* get_playlist_type
PlaylistType(source) ==
  CASE ~source.is_extm3u -> "none"
    [] source.is_extm3u /\ source.has_stream_inf -> "master"
    [] source.is_extm3u /\ ~source.has_stream_inf ->
         IF source.is_fps /\ ~source.force_ignoredrm THEN "none" ELSE "media"

PlaylistInit ==
  /\ Init /\ Master!Init
  /\ \E source \in Sources : /\ playlist_type = PlaylistType(source)
                             /\ dialect.fps = source.is_fps
  /\ playlist_type # "media" => dialect = CHOOSE d \in Dialects : TRUE  \* not used then

ParseMedia == playlist_type = "media" /\ Next /\ UNCHANGED <<playlist_type, master_vars>>

ParseMaster == playlist_type = "master" /\ Master!Next /\ UNCHANGED <<playlist_type, media_vars>>

PlaylistNext == ParseMedia \/ ParseMaster

PlaylistSpec == PlaylistInit /\ [][PlaylistNext]_all_vars

-----------------------------------------------------------------------------

\* The lists that the selection works on say what the lines of the playlist say,
\* whatever is repeated, empty or no number.  A variant's URL is the very next line,
\* even an empty one; if that begins with # there is no variant.
ListsOfLines == Master!VariantsOfLines /\ Master!RenditionsOfLines

=============================================================================
