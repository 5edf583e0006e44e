# Verification of hlsdl

TLA+ modules, TLC configurations and TLAPS proofs about hlsdl, a command line
recorder for HTTP Live Streaming. The modules are translated from the C source
in `src/src`; line numbers below refer to `src/src/hls.c` unless a file is named.
`PROJECT.json` has, for every definition, the lines it models (`map`), and the
runs, seeded faults, findings, hazards and theorems as data.

## The system

| part | state | operations | modules |
|---|---|---|---|
| Startup and selection (`main.c`) | options, the lists of variants and audio renditions | open, choose a variant and a rendition, parse, choose the recorder | Selection |
| Type of a playlist (67-148) | none | look at the source, choose a parser or none | Playlist |
| Master playlist parser (664-829) | both lists, the attributes of the last STREAM-INF | one line at a time | MasterPlaylist, Playlist |
| Media playlist parser (271-662) | segments, key and section in force, counters, the range and duration announced | one line at a time; any unusable line rejects | MediaPlaylist, Playlist |
| Text conversions (29-65, 271-371, `misc.c` 206-259, 150-245) | none | durations, decimals, IVs, attributes, rewritten and completed addresses | Conversions, UrlResolution |
| Live recording (1650-1876) and refresh (1369-1517) | the shared list, its window, flags, one mutex, two condition variables | two threads | LiveDownload, LiveRecording |
| VOD recording (1878-2126) | the two playlists, retries, result | fetch, merge, write, finish | VodDownload |
| Initialization sections (1520-1648) | the section in force, its bytes, the discontinuity | fetch, write, repeat, refuse | SegmentOutput |
| Output files (`main.c` 52-167) | the open file and a sticky failure flag | open, write, close, remove | SegmentOutput |
| Keys (1340-1367, 2128-2147, 2211-2284) | a one-entry cache | fill from the cache, `-K` or the server; decrypt; print | KeyCache, Requests |
| HTTP sessions (`curl.c`, `misc.c` 24-133, the callers in `hls.c` and `main.c`) | a curl handle per session, the buffer of an answer, one cookie file | ask, collect the pieces, judge the code, ask again | Transfer, Requests |
| SAMPLE-AES (830-1339) | the units under reassembly, the packet counters, the last PCR | collect, decrypt, cut into packets; NAL units; audio frames | SampleAes, Samples, Transport |
| MPEG-TS merge (`mpegts.c`) | the program maps and new PIDs of a file | merge a video and an audio segment | TsMerge, Transport |
| Options and messages (`misc.c`, `msg.c`) | `hls_args` | parsed once, before anything else runs | constants of the other modules |

How they interact: `main` fetches the playlist of the command line. From a master
playlist it chooses one variant and perhaps an audio rendition. The media playlist
is parsed; if it is ended `download_hls` records it segment by segment, otherwise
`download_live_hls` starts a thread that fetches the playlist again and again and
appends new segments to the list the main thread takes from. Both recorders write
through callbacks of `main.c`, ask `fill_key_value` for keys, and keep one
initialization section state. On its way to the file a segment may be decrypted as a
whole (AES-128) or unit by unit (SAMPLE-AES), and the VOD recorder merges it with a
segment of the audio playlist. Every byte comes through one request function, with
its own idea of what is enough for each of its callers.

What is hard, and what correctness means there:

* **Two threads on one list.** Segments must be recorded in order, once, none
  forgotten; nodes are freed by the taker and linked by the refresh; an empty list
  makes the taker sleep without a timeout, so every reason to wake must signal.
* **Ends.** A recording ends by the end tag, a refresh that does not parse, the
  duration limit or an error, while the other thread sleeps, fetches or locks.
* **Several failures in one segment.** Download, key, section, merge, write and
  close can each fail; what is on disk and the exit status must agree.
* **State carried along a playlist.** Keys, IVs, sections, ranges, discontinuities
  and counters hold until changed, and interact (a section keeps the key of its
  own line; a missing IV comes from the segment's number).
* **Packets.** A unit that gets shorter by its decryption is cut into other packets
  than it came in; the flags of its first packet need an adaptation field, and so does
  a last packet that is not full. A unit must come out whole, in its place, in a buffer
  as large as the input. In a merge the PIDs of two streams collide.
* **Answers in pieces.** A transfer that breaks off, is announced with another length,
  is a range or the whole instead of the range, or is repeated: a caller must keep
  what it asked for or nothing.
* **Limits.** `INT_MAX` numbers, `INT64_MAX` offsets, retries, truncated durations.

The hazards, each at its line and with the properties that watch it, are in
`PROJECT.json`.

## Modules

**LiveRecording** is the abstract promise: a server announces ascending blocks of
segments, the recorder takes the least, records or skips it, and calls a recording
complete only if the stream ended and nothing is left. No threads, no list.

**LiveDownload** has the program counters of both threads (`mpc`, `upc`), the mutex
with its holder, the list as pointers (`first_media_segment`, `last_media_segment`,
`next`) over a `heap` of allocated nodes, the window numbers, the flags, and main's
retry and duration counters. A node is its sequence number. A critical section that
changes the list in several steps (the pop at 1728-1735, the update at 1450-1498) is
several actions under the mutex, so that a missing lock shows; a critical section with
one effect is one action. Reads outside the mutex are steps of their own (1399,
1445-1447). `pthread_cond_wait` is two steps (release and wait; return and relock),
with spurious returns; `main_waiting` says that a signal is still needed. The signal
to the refresh thread is not state: its wait is timed and may end at any time, which
`UpdResume` allows. `listed`, `written` and `skipped` are observations. `next` exists
for every number; only links of pending nodes mean anything. A refreshed playlist is
any `Playlists` element: a window may jump ahead, move back (an older copy), be empty
or carry the end tag with or without new segments.

**LiveDownload_proofs** holds the theorems.

**SegmentOutput** and **VodDownload.** SegmentOutput has the output callbacks with
the sticky failure flag and the decisions of `write_init_section`; VodDownload
composes them with the loop of `download_hls`. A file is the sequence of chunks
written to it; a failed write or close leaves a torn chunk. Every operation
may fail at every place the code tests. `separate_segments` (`-m`) and
`ignore_download_errors` (`-I`) are chosen in the initial state. Which sections have
equal bytes is data of the model, because the
code compares bytes when an address or a key changes.

**MediaPlaylist** and **MasterPlaylist** read a playlist line by line as the parsers
do. The properties do not mention the parser's variables ahead of a line: they read
off the whole list of lines what each segment, variant or rendition should be.
**Playlist** composes them: `get_playlist_type` decides from the source which of the
two reads its lines, and the properties of both are stated about the whole.

**Conversions** and **UrlResolution** are pure functions. The behaviours of
Conversions spell out every text over some alphabets, so an invariant about `text`
is checked for every bounded input. In attribute lists the character `q` is the
quotation mark; in UrlResolution a text is spelled in pieces (`http://` is one).
Texts of the one are not meant for the other: each property names what it applies to.

**Samples** extends them with the payload of a unit under SAMPLE-AES, byte by byte:
the escapes that keep start codes out of a NAL unit are removed and put back, one
block in ten is decrypted behind a leader in the clear, the frames of the audio codecs
follow each other by their lengths. A block of the cipher is one or two bytes, and the
n-th of a chain turns them n places along a cycle, so that a block opened with another
one's place shows. `UnitsRestored` has an encoder of its own and demands that
decryption gives back what was encoded, except where the code cannot: it takes the
escapes out of the whole payload before it looks for start codes, so that one may appear
(`StartCodeAppears`) or an escape get lost (`EscapeIsLost`; both are in "Findings"). `FramesRestored` says which frames there are
and which of their blocks are opened, without following the code's loop.

**SampleAes** has the packets of a segment instead of its bytes: PID, whether a unit
starts, the flags of the adaptation field, the size of the payload and how many bytes
the decryption takes off. The payload of the two decrypted components is collected
(`buffer`), and flushed when the next unit starts or the segment ends: a PCR alone,
then packets with counters of their own, full except the last. `pmt` is the program map
with the types that the map written out has instead. The properties are a receiver's: `UnitsOut` reads
the units off the packets written, by their headers alone, `UnitsIn` those that
came in, and `AsSent` says what should be found of one: its flags and its bytes less those
that the decryption takes.

**TsMerge** has a packet as its PID and, if it holds one, its program map. The context
(`merge_context_t`) outlives a segment, and with one output file the maps found in the
first pair decide for all later ones; with `-m` every segment begins (`Begin`, `Kept`) with an
empty one, as in `download_hls`. The order of the two streams comes from counts of packets, not
from timestamps, as in the code. The properties name packets by their places in the segments:
`VideoPlaces` and `AudioPlaces` are those that belong into the file, and `AllInOrder` says that
it holds them, in order and once. **Transport** composes the two by `job`, since a
playlist's segment goes through the one, the other or both one after the other.

**Transfer** is `get_data_from_url_with_session` with what it calls and its callers:
the buffer grows with the pieces of an answer or is reserved from the announced length,
a local file is read in its place, the code is turned into success by the rules for
ranges, and each caller checks sizes of its own (a key's length, a PNG cover to take
off) and asks again by its own rule. Sizes go through an `int` as they do in the code: the
length announced (`Rooms`, `curl.c` 56 and 61), which no `int` may hold and which 2 is added to,
and the size of a local file or of its range (`Truncated`, `curl.c` 159-176), which may turn out
negative (`FileCrash`). The six callers differ in what they look at. The first playlist and that
of the audio are checked when the tries are used up (`main.c` 184-192); the variant chosen from a
master playlist is not (632-656): `TakeUnchecked` parses whatever the last answers left. The bytes of a resource are their positions, so
that `AnswerWhole` can compare what is kept with what was asked. **Requests** composes
it with KeyCache by `job`.

**Selection** follows `main` from the opened playlist to the recorder that is called.

**KeyCache** has the static cache of `fill_key_value`, `-K`, and a server that may
change keys; recording and `-d` are its two modes. `Asked` is the address after the
`-k`/`-n` rewriting.

**MC\*** modules give the constants their values.

Definitions marked `Fault:` are variants of the definition that follows them, as a
plausible slip would have it. They are part of no specification. `PROJECT.json` pairs
each property with a fault under which TLC finds the property violated, which shows
that the run reaches the cases the property is about.

## Runs

| run | module, cfg | states | what it shows |
|---|---|---|---|
| live_safety | MCLiveDownload, LiveSafety | 2.1 M | type, list, splice, order, accounting, clean finish, duration limit, and the inductive invariant |
| live_progress | MCLiveDownload, LiveProgress | 137 K | shutdown, failure and end tag end the recording, listed segments are handled; LiveDownload implements LiveRecording with its fairness |
| live_empty_start | MCLiveDownload, LiveEmptyStart | violation | segment 0 is not adopted after an empty first playlist |
| vod | MCVodDownload, Vod | 513 K | decodable files, one initialization per combined file, exit status and disk agree, separate files whole, audio aligned, termination |
| vod_packed_audio | MCVodDownload, VodPackedAudio | violation | packed audio is dropped from a successful run |
| parse | MCPlaylist, Parse | 1.0 M | keys, IVs, sections, numbers, discontinuities, ranges, rejection; variants and renditions are those of the lines |
| select | MCSelection, Select | 6.4 M | the options' variant and rendition are chosen |
| select_audio | MCSelection, SelectAudio | violation | a live recording drops the audio playlist |
| conversions | MCConversions, Conversions | 714 K | durations, decimals, IVs, attributes, replacements, addresses; audio frames come back byte by byte, and NAL units but for the start codes and escapes of `StartCodeAppears` and `EscapeIsLost` |
| nal_units | MCConversions, NalUnits | violation | a NAL unit that is not encrypted loses bytes that look like an escape |
| transport | MCTransport, Transport | 807 K | decrypted units whole and in order, inside the buffer; a merge keeps every packet, under PIDs that clash only where `MayMeet` says, the map ahead, evenly mixed |
| requests | MCRequests, Requests | 283 K | the key belongs to the segment's own run, one request per run; callers keep what they asked for, where they look and can tell; room in the buffer whatever was announced |

Bounds, and why they suffice:

* live: numbers 0..3 (safety) or 0..2 (liveness), one retry (none for liveness),
  durations 1 and 2, start offset 3 or 2, duration limit 4 or 2. Four numbers allow a list of three,
  a splice behind one, a jump, a step back and an overlap; the numbering bound is
  met as well. The limit falls between two segments and is crossed by a third. Refreshes
  and their failures are unbounded.
* vod: three segments, four sections (two with equal bytes, one different, one of TS
  packets), two discontinuity numbers, one retry, 0 to 3 audio segments. Three
  segments allow a section, its change and its return, also across a skip. `-m` and `-I`
  are chosen in the initial state.
* parse: five lines of keys, sections and segments, with and without FairPlay,
  and six lines of counters, ranges, durations and segments, with `INT_MAX` 2 and
  `INT64_MAX` 4: every pair of tags meets with a segment before, between and after.
  Five lines of eleven kinds for master playlists: a tag, a line between, its address
  and a second entry fit.
* select: up to three variants of four and three renditions of five, in every order,
  with every combination of `-b`, `-W`, `-H`, `-A`, `-a`.
* conversions: five to eight characters; the greatest offset 957 is met and
  passed by three and four digits; IVs of two bytes stand for sixteen. Addresses
  of five pieces against nine addresses of playlists. A NAL unit is encrypted if longer than 3
  bytes instead of 48, behind 2 instead of 32, one byte of 3 instead of 16 of 160;
  eight characters hold two units, an escape at each place and the second block of a chain.
  Of the 17148 texts of eight characters that spell units, 666 are left out by `StartCodeAppears`
  or `EscapeIsLost`, and 489 of these do come out wrong. Audio frames of 1, 5 and 8 bytes stand for one that ends
  within the leader, for odd bytes behind a block and for several blocks.
* transport: five packets of a segment with a payload of 12 bytes, where 8 go to an
  adaptation field with a PCR, and counters modulo 4; the sizes stand on both sides of
  every threshold (one byte short of a packet, exactly full, one packet more), and five
  packets hold a flush of each component and a continuation behind it. The merge takes
  two segments in one file or two, each of up to eight packets, with maps that come
  early, late, again, changed or never, and lost sync bytes. In one video the PIDs just below the
  first new one and equal to it occur, in another the new ones run over 8191.
* requests: four segments, three key addresses of which two are asked as one, two
  changes of keys. Resources of 0, 2, 5, 6 and 14 bytes with `INT_MAX` 5 and keys of two bytes:
  as large as an `int` holds, too large by one (negative), and too large by more than all its
  bits (2 again). Lengths announced from 0 to `INT_MAX` + 1 and the true one, every
  cut into pieces, ranges inside, across and far behind the end, one retry.


Deadlock is checked in the live and VOD runs, where `Terminating` marks the
intended end. In the other runs a behaviour ends with its input.

### Fairness

`LiveDownload!Spec` assumes strong fairness of each thread. A transfer ends, because
`set_timeout_session` gives libcurl a low-speed limit; the refresh's wait is timed.
Strong rather than weak, because a thread that asks for the mutex is enabled only
while the mutex is free; the holders keep it for a few assignments and the refresh
thread releases it for seconds in each round, so a waiting thread gets it. Spurious
wakeups are promised by nobody and have no fairness. That a given outcome of a
transfer ever happens is not assumed: a stream that never ends is never required to
end. `VodDownload!Spec` assumes weak fairness of its only process; retries are bounded
by `-w`. `LiveRecording!Spec` says what progress an observer may rely on, and
`ImplementsRecording` derives it from the threads' fairness.

## Proofs

The theorems hold for every value of the constants under the named assumptions of
their modules. They rest on lemmas of the same module, one for each action and part of
an invariant that it can disturb, and on FoldTheorems. How the proof of a property about a
whole history or a whole text goes: an invariant says of the loop's variables what they are
of the part that has been read, each action extends the part by one, and the property is the
invariant at the end.

### FoldTheorems

The model computes sums, folds and scans. The library's induction theorems have an operator
as parameter, which the provers cannot instantiate; here induction is stated about a
set of numbers (`SetInduction`: a set with 0 and the successor of each member is all of `Nat`,
from the well-foundedness of `<`), so that it can be cited for the set of those numbers for
which a claim holds. From it follow

* that a function defined by recursion exists: over the finite sets of positions
  (`SetRecursion`), along a list (`FoldExists`), or from each position of a text to some later
  one (`JumpRecursion`), with `DownInduction` for claims about all positions from the end;
* what `MapThenSumSet` gives: sums do not depend on the order, one more element adds
  itself, sums of sums, of nothing, of equal things;
* that `FlattenSeq` joins (`Flattened`, `FlattenFront`), and that recursions which write something at
  each position (`Glues`) exist, and give the same wherever the text is the same
  (`GlueExists`, `GlueShifts`);
* what joins, cuts and heads of texts are (`JoinIs`, `CutTwice`, `Regrouped`), the text behind a
  position (`Remainder`), induction over the length of a text (`SeqInduction`), a shortest
  text (`ShortestOne`), and texts in which some elements are rewritten (`Rewrites`).

### LiveDownload_proofs

For every numbering bound, retry limit, start offset,
duration limit and table of durations (the assumptions `MaxSeqAssumption`,
`RetriesAssumption`, `DurationAssumption`, and `NullAssumption`: the null pointer is
no number and no playlist), `Safety` implies

| theorem | property |
|---|---|
| TypeCorrect | `TypeOK` |
| Inductive | `IInv` |
| InOrder | `RecordedInOrder` |
| SpliceIsSafe | `SpliceSafe` |
| NoneLost | `EverySegmentAccounted` |
| CleanFinish | `CleanFinishComplete` |
| ListStaysIntact | `ListIntact` |
| DurationIsLimited | `DurationLimit` |
| Implements | every behaviour of the two threads is a behaviour of `LiveRecording!Safety` |

The inductive invariant `IInv`. The properties are not inductive. That segments are
written in order needs to know that main's segment is older than what is pending and
that nothing on the heap is beyond `last_media_sequence` (`OrderOK`): only then is a
spliced block newer than everything else. That the head is the oldest needs the links
between nodes (`LinksOK`), and the tail is off for one step, when main has popped the
last segment and not yet repaired the pointer (`TailOK`); `ThreadsOK` says that
no one else is in the list then. A clean finish needs that the end tag the refresh
thread has seen is the one main reads, and that nothing is fetched once it is set
(`EndOK`), and what the result says about the outcome (`OutcomeOK`). The proof shows
`TypeOK /\ ThreadsOK` inductive, then the list part, the end flag and the outcome on
top of it, one lemma for each action that moves a pointer and one (`QuietStep`) for
those that do not.

`DurationLimit` rests on `DurationOK`: main's counter is at least the sum of the durations of what
is written (what it skips counts as well), so that the loop cannot go on behind the limit.

For `Implements`, each step is shown to be a step of LiveRecording or invisible in
it: the pop is `Take`, the splice `Announce`, the release of the mutex after the end
tag `EndOfStream` (main cannot see the tag earlier), the exit from the loop
`Complete` or `GiveUp`.

### VodDownload_proofs

For playlists of any length with any sections of any bytes, and any retry limit
(`MapsAssumption` keeps the null pointer apart from sections, bytes and numbers):

| theorem | property | rests on |
|---|---|---|
| TypeCorrect | `TypeOK` | |
| AudioAlwaysAligned | `AudioAligned` | `BaseInv`: types, which file is open, and the segment in hand stands at one position in both playlists |
| FaultsAlwaysFatal | `FaultsAreFatal` | `FaultsKept`: a fault has left its mark in the sticky flag, in the program counter or in the result |
| SeparateFilesAlwaysWhole | `SeparateFilesWhole` | `FilesWhole`: with `-m` every file that is neither open nor left behind by a fault is section and segment, and the open one is what the program counter says of it |
| OneInitializationAlways | `OneInitialization` | `OneFile`: every chunk of the combined file fits the bytes and the discontinuity that the section state remembers, and with no section and no media the file is empty |
| AlwaysDecodable | `Decodable` | `AllDecoded`: each file that exists is decodable, and in the combined file the section remembered is the one in force for what comes next |
| SuccessAlwaysComplete | `SuccessComplete` | `Course` and `Recording` (theorem RecordingInvariant): files hold segments in ascending order and none that was skipped; while nothing has failed they are intact and together hold every segment that the loop is past and has not skipped |

### Requests_proofs

| theorem | property | rests on |
|---|---|---|
| KeysAlwaysCached | `KeysCached` | `CacheOk`: in a run of segments with one address the cache holds a key that the server had for it in this run, fetched once |
| AlwaysRoomForAnswer | `RoomForAnswer` | `MemoryOk`: while an answer comes in, what is reserved is allocated, and where nothing is reserved nothing is stored |
| AnswerAlwaysWhole | `AnswerWhole` | `TransferOk`: a result that its caller will take has what was wanted, unless the caller cannot tell it from that (`Undetected`); and all that a playlist's caller ever holds is nothing, or the whole of some answer |

For any addresses, keys and server (`KeysAssumption`), and any sizes, ranges, lengths announced and
cuts into pieces (`TransferAssumption`). `RoomForAnswer` is not inductive: a length that is
announced makes a new buffer whenever none is reserved, which is right only because
nothing can have been stored by then. That the announced length goes through an `int` does no harm
(`RoomsArePlaces`): a room that comes out negative is refused by `realloc` and ends the transfer
(`NoRoom`), one that comes out too small is enlarged when the first piece is stored.

`AnswerWhole` excludes by name what the code does not see. For a variant from a master
playlist whose tries are used up (`Unchecked`) the theorem only says that what is parsed is one
whole answer, which may be an error page, or nothing; `OthersOk` is the part of the invariant for it.

### Transport_proofs

| theorem | property | rests on |
|---|---|---|
| AlwaysFits | `Fits` | `FitInv`: each unit under collection has packets of the input set aside (`Rooms`, `Booked`) that its own packets will not exceed |
| AlwaysInterleaved | `Interleaved` | `Rounds`: the packets taken from each segment are those of some number of rounds |
| VideoAlwaysKept | `VideoKept` | `FileInv` |
| AudioAlwaysKept | `AudioKept` | `FileInv` |
| MapAlwaysAhead | `MapAhead` | `FileInv` |
| AlwaysRestored | `Restored` | `UnitsInv`: the units that another one has followed are those written so far, in their order, and the buffer has what came in of the last one |

For segments of any lengths (`SegmentsAssumption`: neither is empty) and packets of any
payload (`SizesAssumption`), under `PidsAssumption` (audio, video
and the map have PIDs of their own) and `PacketsAssumption`: a packet has room for the adaptation
field its flags came in, and decryption makes no unit longer. These are what a
well-formed stream and the removal of escapes give. About maps `MapsAssumption` says that each lists at
least one PID (`merge_pmt` reads in front of the first component of an empty one; such maps
are not modelled). Nothing is assumed about the PIDs of the video: `AudioKept` says that one of them can be a new
one of the audio's only if it lies 23 or more above the last one of the video's map or if the
new ones run over the greatest PID (`MayMeet`), as the code does not compare them. `decrypt_sample_aes` ends the
program when its output has become longer than its input (1313), after the fact; `Fits`
says that this never happens.

`FileInv` says of the file written so far (`FileSoFar`) that every packet is a copy of a packet already taken or a
map, that the copies from each stream come in the order of their places and lack none of
those taken, and that the context was made from the maps of two segments (`FromMaps`). Such a
context is `Sound`: its new PIDs are different ones, because the audio has fewer components
than there are PIDs, and stand behind the video's last (`CountedUp`), where they do not run over. One
run of packets is `Written` as a list of lists that `FlattenSeq` joins; the lemmas on `Track`
carry each part of the invariant over a packet that is added or dropped.

`UnitsInv` says for each component (`Flowing`) that the units written are `Matched` with those
`Followed` by another in the input: as many, and equal numbers have the same flags and
bytes (`Same`); that the next counter is the number of its packets written
(`Counted`); and what is remembered of the `Current` unit. `UnitIsWritten` says what
`sample_aes_append_av_data` makes of n bytes (`Cut`), `UnitReceived` that a receiver finds n bytes in
it (`Left`: or n + 1, for the size named under "Findings"). The lemmas on `UnitFollows`,
`MoreFollows` and `OthersFollow` say which units of a list of packets another packet
changes; `Flush` joins them where a unit is written. Packets of one component may come in
between those of the other in any way.

### Playlist_proofs

| theorem | property |
|---|---|
| PlaylistInvariant | |
| KeysAndSectionsInForce | `InForce` |
| NumberedAsAnnounced | `Counted` |
| RangesInvariant | |
| RangesAndDurationsOwned | `OwnRangeAndDuration` |
| OnlyIllegalRejected | `RejectedIffIllegal` |
| ListsAreOfLines | `ListsOfLines` |

For any lines, any number of them and any `INT_MAX` and `INT64_MAX` (`LimitsAssumption`). The
rest of the assumptions say what a line is: a tag with numbers in its fields
(`DialectsAssumption`, `MasterLinesAssumption`), and that the null pointer is neither a number nor a
section (`NullAssumption`). The properties
speak of the whole list of lines, the parser only knows what it carries: `PlaylistInv` says that
the key, section and counters carried ahead are the last ones that the lines announce
(`Carried`), and that each segment was named by an address line of its own and
has what the lines ahead of that one say (`Recorded`). That later lines do not change what
earlier ones say about a segment is `MeaningKept`.

`RangesInv` adds what the parser carries of ranges and durations: the offset at which a range without one
begins is the offset of the last range that had one (`AnchorIsLast`) and the sum of the lengths since
(`ResolvedIs`), and the parser has stopped exactly if one of the lines read is illegal. For
a master playlist, where the lists grow at their front, the invariant is that each list is that of
the lines in reverse (`Listed`); `AssignIs` says that the scan over a tag's attributes leaves the last
value of each.

### Selection_proofs

| theorem | property | rests on |
|---|---|---|
| VariantAlwaysLargest | `VariantIsLargest` | `SelectionInv`; what the two loops compute, by induction over the list (`BestIsBest`, `LargestIsLargest`): of the variants passed so far the one chosen is allowed by the options and exceeded by none |
| AudioAlwaysMatches | `AudioMatches` | `SelectionInv`: a rendition is chosen after the variant whose group it is in |

For lists of any variants and renditions and any options (`VariantsAssumption`,
`OptionsAssumption`: sizes and bitrates are numbers; `BoundsAssumption`, `NullAssumption`).

### Samples_proofs

| theorem | property |
|---|---|
| AlwaysReplaced | `ReplacedAll` |
| AttributesAlwaysExact | `AttributesExact` |
| NumbersAlwaysExact | `NumbersExact` |
| AddressAlwaysResolved | `AddressResolved` |
| FramesAlwaysRestored | `FramesRestored` |
| UnitsAlwaysRestored | `UnitsRestored` |

For texts over any alphabets (`AlphabetsAssumption`), any `-k` and `-n` (`FromToAssumption`: an
empty `-k` is not searched for, 2248) and any greatest offset and length of an IV
(`LimitsAssumption`); `NullAssumption` says that the null pointer is none of the results.
`CipherAssumption` leaves the sizes of the leader, the stride and the shortest encrypted unit open
and says of the cipher that no byte stands twice in its cycle: a decryption is a permutation. The
functions scan a text by recursion from each position to a later one. An induction from
the end says what they hold at each position: `Finds` for the search for matches, `Replaces` for the text that
the property demands, `Opens` for the frames and the marks of their bytes. That the code's pieces
between all matches are the demanded text is a second induction, over the matches
(`SpelledIsReplaced`). For the frames the witness of the property's existential, the set of
frames ahead, is built in the same induction (`FramesEverywhere`).

An attribute list is defined by all ways to cut a text at some of its commas, the code takes
one attribute after the other. `ListFrom(s, k)` (the text from k on is a list) holds exactly if an
attribute ends somewhere and a list begins behind its comma (`FirstEnds`), and the code's
attribute is the only one that can end there: an induction from the end shows that each rest is
read if and only if it is a list (`ListRead`), a second one that the attributes read
spell it when written down (`WritesRead`).

For the numbers, `Spells` is the sum of the digits times their powers; `SpellsNext` shows that one more
digit makes b times the number plus the digit, which is what the loops of the code compute,
and `SpellsSplit` and `SpellsBelow` what the digits in front of and behind a place are worth. `ScanReads` follows
the scan of a duration over the digits, the dot and at most three decimals. `GuardExact`
shows that `parse_decimal`'s test ahead of each digit finds out whether the number still fits. An
IV's nibbles, with the zeros ahead of them, spell the number of the digits
(`ZerosSpell`), and its bytes that of the nibbles (`PairsSpell`).

An address has its parts (`Parted`: host, path, query) in one way only (`PartsAre`), so it is enough
to compare paths: the code leaves the playlist's name in the path and puts `/../` behind
it, the rules take the name off. `CutJoin` says that a path is cut at a slash into the segments of
both sides, `KeptUp` that two dots behind a segment undo it, and `KeptAlike` that segments kept alike
stay alike whatever follows, dots included; `UpIsFolder` puts them together. It holds for
the playlists of `BasesAssumption`: a file, or an address with a host, whose query stands behind a
slash and whose path does not end in `/..`, and for pieces that are what they are called
(`PiecesAssumption`).

NAL units are the longest argument, because the code takes the escapes out of the whole payload first and
looks for start codes afterwards:

1. Where a text ends with no zero (`Closed`), unescaping it together with what follows unescapes both
   (`UnescapedJoins`: of the texts for which it fails, take a shortest one). So unescaping the payload is
   unescaping each unit behind its start code (`StreamArrives`).
2. What the encoder sends for an encrypted unit unescapes to the encrypted unit (`SentComesBack`: an
   induction over the bytes, in which up to two zeros wait for what follows them, `Escaping`).
   Opening the blocks turns each byte back (`UnitOpened`), since a byte's place in the chain depends
   on the length of the unit and its first byte, which stay as they are.
3. The decoder then escapes the unit again. A unit that was encrypted has its own escapes by now and
   needs no other (`NothingRewritten`). One that was not has lost its own in step 1; they
   come back, since they are those that its bytes need (`EscapesComeBack`, again by a shortest
   counterexample; `Proper`).
4. Where no start code appears (`StartCodeAppears`) there are as many as units in what
   step 1 leaves. Each unit brings its own (`UnitsPlaced`), so there is no other (`NoOtherCodes`), and the scan from one start code
   finds the next unit's (`NextCode`).
5. An induction over the units from the last one says that the scan writes at each start code the units from
   there on (`UnitScanned`, `AllScanned`), and these are the bytes of the text (`UnitsSpelled`).

### Only model-checked

Everything under fairness (`live_progress`, `Terminates`), which the prover does not reach.
Every invariant of the passing runs is stated by a theorem.

## Findings

* `NeedsUpdate` (1445): the last number of an empty playlist is 0, so after an empty
  first playlist segment 0 is never recorded.
* `Merged` (2061): the merge is entered only for MPEG-TS audio, so that the branch for
  packed audio in `mpegts.c` is never reached and the audio is silently left out.
* `Record` (`main.c` 500): the live recorder is not given the audio playlist.

* `RemoveEscapes`, `Escaped` (1037): escapes are taken out of the whole payload and put
  back only where they are needed for a byte below 3, so a NAL unit that is not
  encrypted, and should stay as it is, loses an escape ahead of a 3 and one at its end, and
  becomes two units at an escape ahead of a 1.

The last has a worse side that no document speaks of, so that no run is made of it. The ciphertext of a
slice is escaped like any bytes: where it holds 00 00 01 it is sent as 00 00 03 01. Since 1037 takes
escapes out of the whole payload and 1045 looks for start codes only then, the slice falls
into two units there. The type of the second is whatever byte follows: it is left encrypted, or its
blocks are counted anew from a leader of its own, and the escape does not return. About one in
16 million encrypted bytes begins such a sequence, so that a long recording meets
it. `StartCodeAppears` names these streams, and `UnitsRestored` claims nothing of them.
The same holds of a unit in the clear with this escape. `EscapeIsLost` names the escapes of such a
unit that are not put back: at its end, ahead of a 3, or ahead of two more zeros.

Choices that the properties deliberately leave open, since no document says
otherwise: with `-W` and `-H` together a variant must exceed the choice so far in both
dimensions (`main.c` 276), so that 1x1 may be kept though 2x1 fits; with `-b` and
`-A` a default rendition in another language wins if it comes first (`main.c` 351).
`print_enc_keys` ignores a key that could not be fetched, and a SAMPLE-AES-CTR segment
is written as it is; KeyCache models both and claims nothing of them. A live segment is
retried once more than one of a VOD playlist (`<=` at 1770, `<` at 1897); the option's text
fits either. A unit one byte shorter than a packet's payload gets a stray byte, because
its adaptation field of length zero is not announced (861): `AsSent` names this
case and `StreamsRestored` demands all others whole. `AnswerWhole` names what a caller
cannot tell (`Undetected`): a PNG cover, behind which as many bytes are copied as the
whole answer has (`curl.c` 313), a whole resource in answer to a media segment's range,
any part of a resource with `-c`, and, for want of bits, a part of a local file above `INT_MAX` bytes (`curl.c`
159-176). It also names what a caller does not look at (`Unchecked`): for a variant chosen from a
master playlist `handle_hls_media_playlist` tests code and size only inside its loop of tries
(637-646), and behind it parses what is in `me->source` (656). So an error page that
came with the last 404 is read as a playlist: each of its lines that does not begin with # becomes a segment's
address. No document says what should happen; for the first playlist `main.c` 184-192 ends
the program there.

## Not modelled, and simplifications

* In LiveDownload the key, decryption, initialization section, write and close of a
  segment are one outcome, written or failed; VodDownload and KeyCache have the
  detail. Sessions, `pthread_create` and allocations are taken to succeed.
  `total_duration_ms`, `prev` pointers, `segment_index` and progress messages are left
  out: nothing depends on them except messages and the walk of `MainTrim`.
* A duration is a natural number; that absurd ones wrap a `uint64_t` is not modelled.
* Parsing takes lines and attributes as given; Conversions covers their characters for
  media tags. The attribute scan of the master parser and `str_to_bin` are left out. A
  master playlist's last line without a newline is dropped by the code (726); lines of the model end in one.
* UrlResolution takes schemes of at most five letters and playlist addresses that have
  a path ahead of their query; the host of `http://h?x` would take in the query. A playlist
  whose path ends in `/..` is left out: beside `/x/a/..` the code asks for `/s`, by the
  rules it is `/x/a/s`.
* Transfer takes from libcurl that a transfer is reported as done only with a complete
  answer. Sessions are new for each retry and carry nothing an answer depends on. A
  number of tries of 0 at opening, with which nothing is asked at all, is left out.
* Cookies (`curl.c` 321-358): the source says when the file is reloaded and flushed; which cookie
  survives a reload beside another session's flush is decided inside libcurl, differently
  in its versions. The hazard is listed without a property.
* SampleAes: bytes ahead of a component's first unit are dropped, in the code unless
  they look like a header. A PES header has one size. A PCR inside a unit is dropped and
  the counters start at 0 in each segment, as in the code. Of two audio components only the last is decrypted, though the
  map announces both in the clear (1202); 0x20 is tested where the comment names the
  discontinuity indicator (1283).
* TsMerge: the branch for raw audio (`mpegts.c` 74-204, 554-589, 649-909, among it all
  arithmetic on timestamps) is left out: `download_hls` enters the merge only when
  the audio starts with a transport packet (2061), so it is never reached. The order of
  a merge is that of packet counts. New PIDs are the last video PID plus 23 and up and
  are compared with no others (`MayMeet`); the context is not renewed at a discontinuity. Both are
  in the model as they are in the code.
* Not to be modelled: option parsing and messages (`misc.c`, `msg.c`) run once or keep no
  state; clean-up frees memory after its last use; `aes.c` and `compat/` are third-party
  code that a POSIX build with OpenSSL does not contain; the CRC table of
  `mpegts.c` is a constant.

## What could come next

* **LiveOutput**: the live loop with SegmentOutput and KeyCache in place of its one
  outcome, so that a section that changes between two refreshes meets a failed write.
* A composition from the lines of a master playlist to the recorder that is called:
  MasterPlaylist and Selection as one run.
* Proofs: that LiveRecording's own safety follows from its steps.
