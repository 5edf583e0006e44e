--------------------------- MODULE UrlResolution ---------------------------
(***************************************************************************)
(* How an address in a playlist is completed by the address of the         *)
(* playlist (extend_url).  A text is spelled in pieces: a scheme with its  *)
(* "://", a name, and the characters the function looks for.  libcurl      *)
(* removes the dot segments of the result when it makes the request.       *)
(***************************************************************************)
EXTENDS Conversions

CONSTANTS Schemes,    \* pieces such as "http://"; the first two below are known
          Marker,     \* "englandproxy.co.uk"
          Bases       \* addresses a playlist may have been fetched from

Http == {"http://", "https://"}

\* Pieces are what their names say; an address in a playlist has one of the two
\* known schemes or none.
ASSUME PiecesAssumption ==
  /\ Http \subseteq Schemes /\ Schemes \cup {Marker, "/", "?", ".."} \subseteq STRING
  /\ {"/", "?"} \cap (Schemes \cup {Marker}) = {} /\ NULL \notin Seq(STRING)
  /\ \A a \in Alphabets : a.chars \cap Schemes \subseteq Http

IsAbsolute(s) == s # <<>> /\ s[1] \in Http

\* Up to the first c, and up to the last one; NULL without a c.
UpTo(s, c)     == SubSeq(s, 1, PrefixLen(s, LAMBDA x : x # c))
UpToLast(s, c) == LET last == SelectLastInSeq(s, LAMBDA x : x = c)
                  IN IF last = 0 THEN NULL ELSE SubSeq(s, 1, last - 1)

\* An address of another host is asked through the proxy that gave the playlist.
ViaProxy(url, base) ==
  IF Contains(base, Marker) /\ ~Contains(url, Marker)
  THEN <<"http://", Marker, "/">> \o Tail(url) ELSE url

\* The scheme and the host of the base, or nothing when it has none.
Host(base) == LET n == PrefixLen(Tail(base), LAMBDA x : x # "/")
              IN IF base[1] \in Schemes /\ n > 0 THEN SubSeq(base, 2, n + 1) ELSE <<>>

\* An address that starts with a slash.  A scheme is a piece with its "://",
\* which here goes ahead of the two slashes of the address.
Rooted(url, base) ==
  IF Host(base) = <<>> THEN url
  ELSE IF Len(url) > 1 /\ url[2] = "/" THEN <<base[1]>> \o SubSeq(url, 3, Len(url))
  ELSE <<base[1]>> \o Host(base) \o url

\* Fault: what a query says stays in the way of the dots.
Sibling_KeepsQuery(url, base) == base \o <<"/", "..", "/">> \o url

Sibling(url, base) == UpTo(base, "?") \o <<"/", "..", "/">> \o url

\* A base without a scheme is the path of a file, with either separator.
InFolder(url, base) ==
  LET c == IF Contains(base, "/") THEN "/" ELSE "\\"
  IN IF UpToLast(base, c) = NULL THEN url ELSE UpToLast(base, c) \o <<c>> \o url

Extended(url, base) ==
  IF IsAbsolute(url) THEN ViaProxy(url, base)
  ELSE IF url # <<>> /\ url[1] = "/" THEN Rooted(url, base)
  ELSE IF \E i \in DOMAIN base : base[i] \in Schemes THEN Sibling(url, base)
  ELSE InFolder(url, base)

-----------------------------------------------------------------------------
(* What is asked for: the scheme and host, the path with its dot segments      *)
(* removed, and the query.                                                     *)

Path(s)  == LET n == PrefixLen(s, LAMBDA x : x # "/") IN UpTo(SubSeq(s, n + 1, Len(s)), "?")
Query(s) == SubSeq(s, Len(UpTo(s, "?")) + 1, Len(s))
Authority(s) == UpTo(UpTo(s, "?"), "/")

\* The pieces of a text between the places of c.
Cutting(r, x, c) == IF x = c THEN Append(r, <<>>) ELSE Append(Front(r), Append(Last(r), x))
Split(s, c)      == FoldLeft(LAMBDA r, x : Cutting(r, x, c), <<<<>>>>, s)

\* The segments of a path, what follows each of its slashes.
Segments(p) == Tail(Split(p, "/"))

\* Two dots take away the segment ahead of them.
Keeping(r, s) == IF s # <<"..">> THEN Append(r, s) ELSE IF r = <<>> THEN r ELSE Front(r)

Dotless(p) ==
  LET segments == Segments(p)
      kept     == FoldLeft(Keeping, <<>>, segments)
  IN IF segments # <<>> /\ Last(segments) = <<"..">> THEN Append(kept, <<>>) ELSE kept

Asked(s) == <<Authority(s), Dotless(Path(s)), Query(s)>>

\* A playlist is a local file or has been fetched: with a host, with any query
\* behind a slash, and from a path that does not end in two dots.
IsFetched(base) ==
  /\ Len(base) > 1 /\ base[2] \notin {"/", "?"}
  /\ \A q \in DOMAIN base : base[q] = "?" => \E k \in 1..(q - 1) : base[k] = "/"
  /\ \A k \in 1..(Len(Path(base)) - 1) :
       Path(base)[k] = "/" /\ Path(base)[k + 1] = ".." => k + 1 < Len(Path(base))

ASSUME BasesAssumption ==
  \A base \in Bases : /\ base \in Seq(STRING) \ {<<>>}
                      /\ \A i \in 2..Len(base) : base[i] \notin Schemes
                      /\ base[1] \in Schemes => IsFetched(base)

\* RFC 3986, 5.2.2, for addresses that are not empty and no mere query, and
\* bases with a host: the directory of the base's path is what precedes its last slash.
Directory(base) == IF Contains(Path(base), "/") THEN UpToLast(Path(base), "/") ELSE <<>>
Reference(url, base) ==
  IF url[1] \in Schemes THEN url
  ELSE IF url[1] # "/" THEN Authority(base) \o Directory(base) \o <<"/">> \o url
  ELSE IF Len(url) > 1 /\ url[2] = "/" THEN <<base[1]>> \o SubSeq(url, 3, Len(url))
  ELSE Authority(base) \o url

\* An address that is no mere query, with its scheme, if any, at the start.
IsAddress(s) == /\ s # <<>> /\ s[1] # "?"
                /\ \A i \in DOMAIN s \ {1} : s[i] \notin Http

FolderOf(base) ==
  LET at == {i \in DOMAIN base : base[i] = IF Contains(base, "/") THEN "/" ELSE "\\"}
  IN IF at = {} THEN <<>> ELSE SubSeq(base, 1, Max(at))

\* An address in a playlist is asked for where the rules for relative references
\* put it, whatever dot segments it has and whatever path and query the playlist
\* has; beside the file if the playlist is one; through the proxy that gave the
\* playlist, unless it has a scheme and names the proxy itself, or a host but no scheme.
AddressResolved ==
  alphabet.chars \cap Http # {} /\ IsAddress(text) =>
    \A base \in Bases :
      /\ base[1] \in Schemes /\ (IsAbsolute(text) => ~Contains(base, Marker) \/ Contains(text, Marker))
         => Asked(Extended(text, base)) = Asked(Reference(text, base))
      /\ base[1] \notin Schemes /\ text[1] \notin Http \cup {"/"} =>
           Extended(text, base) = FolderOf(base) \o text
      /\ /\ base[1] \in Schemes /\ Contains(Authority(base), Marker)
         /\ IsAbsolute(text) => ~Contains(text, Marker)
         /\ ~(text[1] = "/" /\ Len(text) > 1 /\ text[2] = "/")
         => Contains(Authority(Extended(text, base)), Marker)

=============================================================================
