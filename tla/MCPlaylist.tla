----------------------------- MODULE MCPlaylist -----------------------------
(* Instances of Playlist for TLC.  Media playlists are made of key, section    *)
(* and segment lines, or of counters, ranges and segment lines; the tags of    *)
(* master playlists are complete, lack an attribute, or have one repeated,     *)
(* empty or without a number.                                                  *)
EXTENDS Playlist

CONSTANTS a, b, k1, k2, s1

Key(m, u, i)   == [tag |-> "KEY", method |-> m, uri |-> u, iv |-> i]
Map(u, r)      == [tag |-> "MAP", uri |-> u, range |-> r]
Counter(t, v)  == [tag |-> t, value |-> v]
Bytes(s, o)    == [size |-> s, offset |-> o]
ByteRange(s, o) == [tag |-> "BYTERANGE", range |-> Bytes(s, o)]
Uri(u)         == [tag |-> "URI", uri |-> u]

MCKeyLines ==
  {Key("NONE", NULL, NULL), Key("NONE", NULL, 7), Key("AES-128", k1, NULL),
   Key("AES-128", k2, 7), Key("AES-128", NULL, 7), Key("SAMPLE-AES", k1, NULL),
   Key(NULL, k1, NULL),
   Map(s1, NULL), Map(NULL, NULL), Map(s1, Bytes(1, -1)), Map(s1, Bytes(2, 1)),
   Uri(a), [tag |-> "ENDLIST"]}

MCNumberLines ==
  {Counter("MEDIA-SEQUENCE", 1), Counter("MEDIA-SEQUENCE", MaxInt + 1),
   Counter("DISCONTINUITY-SEQUENCE", 1), Counter("DISCONTINUITY-SEQUENCE", MaxInt),
   Counter("EXTINF", 1), [tag |-> "DISCONTINUITY"],
   ByteRange(2, 0), ByteRange(1, -1), ByteRange(0, 0), ByteRange(2, MaxOffset - 1),
   Uri(a), Uri(b)}

MCDialects ==
  [fps : BOOLEAN, lines : {MCKeyLines}, max_lines : {5}]
    \cup [fps : {FALSE}, lines : {MCNumberLines}, max_lines : {6}]

Attr(n, v)   == [name |-> n, value |-> v]
StreamInf(s) == [tag |-> "STREAM-INF", attribs |-> s]
Media(s)     == [tag |-> "MEDIA", attribs |-> s]
Text(u)      == [tag |-> "TEXT", url |-> u]

MCMasterLines ==
  {StreamInf(<<Attr("BANDWIDTH", 1), Attr("AUDIO", "g"), Attr("RESOLUTION", "2x1")>>),
   StreamInf(<<Attr("BANDWIDTH", 2), Attr("CODECS", "avc"), Attr("BANDWIDTH", NoNumber)>>),
   StreamInf(<<Attr("CODECS", NULL), Attr("BANDWIDTH", 3)>>),
   Media(<<Attr("GROUP-ID", "g"), Attr("NAME", "n"), Attr("DEFAULT", "YES"), Attr("URI", "u")>>),
   Media(<<Attr("GROUP-ID", "g"), Attr("NAME", "n"), Attr("LANGUAGE", "en"), Attr("URI", "u"),
           Attr("LANGUAGE", "fr")>>),
   Media(<<Attr("GROUP-ID", "g"), Attr("NAME", "n"), Attr("URI", "v"), Attr("LANGUAGE", NULL),
           Attr("DEFAULT", "YES")>>),
   Media(<<Attr("GROUP-ID", "g"), Attr("NAME", "n")>>),
   Media(<<Attr("NAME", "n"), Attr("URI", "u")>>),
   [tag |-> "OTHER"], Text("u"), Text("")}
=============================================================================
