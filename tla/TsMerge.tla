------------------------------- MODULE TsMerge -------------------------------
(***************************************************************************)
(* The merge of a video and an audio segment into one transport stream     *)
(* (merge_ts_packets and what it calls), for a playlist's segments in turn *)
(* as download_hls gives them to it.  The context outlives a segment: the  *)
(* program maps found in the first pair of a file decide how the packets   *)
(* of all later ones are treated.                                          *)
(*                                                                         *)
(* A packet is its PID and, if it holds a program map that parse_pmt       *)
(* accepts, the PIDs of that map's components.  A slot of a packet's       *)
(* length without the sync byte has the PID NULL.                          *)
(***************************************************************************)
EXTENDS Integers, SequencesExt

CONSTANTS NULL,
          PAT, OtherSections,  \* PIDs that are never searched for a program map
          PidSpace,            \* number of PIDs, 2^13
          MaxComponents,       \* MAX_COMPONENTS_NUM
          Room,                \* components whose entries fit into one packet
          VideoSegments, AudioSegments,  \* what may be downloaded: sequences of packets
          NumSegments          \* bound: segments of the playlist

Gap == 23  \* between the last PID of the video's map and the first new one

VARIABLES
  separate_segments,  \* hls_args.separate_segments: every segment has its own file
  context,            \* merge_context_t
  segments,           \* the segments merged into this file, the present one last
  i, j,               \* packets taken from the present video and audio segment
  pc, count,
  out                 \* packets of this file: PID, where from, which, and a map's PIDs

vars == <<separate_segments, context, segments, i, j, pc, count, out>>

NoContext == [valid |-> FALSE, map_pid |-> NULL, pmt1 |-> <<>>, pmt2 |-> <<>>, pmt |-> <<>>]

Init ==
  /\ separate_segments \in BOOLEAN
  /\ context = NoContext
  /\ segments = <<>> /\ i = 0 /\ j = 0
  /\ pc = "begin" /\ count = 0
  /\ out = <<>>

video == Last(segments).video
audio == Last(segments).audio

-----------------------------------------------------------------------------
(* Program maps *)

\* find_pmt: the position of the first packet that parses as one, or 0.
PmtAt(packets) ==
  SelectInSeq(packets, LAMBDA p : p.pid \notin {PAT, NULL} \cup OtherSections /\ p.map # NULL)

Pmt(packets) == packets[PmtAt(packets)].map

\* Fault: all components of the audio get the same PID.
NewPids_Same(pmt1, pmt2) == [c \in DOMAIN pmt2 |-> (Last(pmt1) + Gap) % PidSpace]

\* The audio's components get PIDs of their own, counted from the video's last.
NewPids(pmt1, pmt2) == [c \in DOMAIN pmt2 |-> (Last(pmt1) + Gap + c - 1) % PidSpace]

Merged(v, a) ==
  LET pmt1 == Pmt(v)
      pmt2 == Pmt(a)
  IN [valid |-> TRUE, map_pid |-> v[PmtAt(v)].pid, pmt1 |-> pmt1, pmt2 |-> pmt2,
      pmt |-> pmt1 \o NewPids(pmt1, pmt2)]

\* Too many components end the program on the spot, everything else the loop.
Mergeable(v, a) == /\ PmtAt(v) # 0 /\ PmtAt(a) # 0
                   /\ Len(Pmt(v)) + Len(Pmt(a)) < MaxComponents
                   /\ Len(Pmt(v)) + Len(Pmt(a)) <= Room

-----------------------------------------------------------------------------
(* One segment *)

\* A file of its own starts with an empty context.
Kept == IF separate_segments THEN NoContext ELSE context

Begin(v, a) ==
  /\ pc = "begin" /\ count < NumSegments
  /\ count' = count + 1
  /\ segments' = Append(IF separate_segments THEN <<>> ELSE segments, [video |-> v, audio |-> a])
  /\ out' = IF separate_segments THEN <<>> ELSE out
  /\ i' = 0 /\ j' = 0
  /\ UNCHANGED separate_segments

Reuse == \E v \in VideoSegments, a \in AudioSegments :
  /\ Begin(v, a)
  /\ Kept.valid
  /\ UNCHANGED context
  /\ pc' = "video"

MergeMaps == \E v \in VideoSegments, a \in AudioSegments :
  /\ Begin(v, a)
  /\ ~Kept.valid /\ Mergeable(v, a)
  /\ context' = Merged(v, a)
  /\ pc' = "video"

\* Without two maps that fit nothing is merged, and the recording ends.
MapsFail == \E v \in VideoSegments, a \in AudioSegments :
  /\ Begin(v, a)
  /\ ~Kept.valid /\ ~Mergeable(v, a)
  /\ UNCHANGED context
  /\ pc' = "failed"

(* Packets of the longer segment are taken in runs, as many as the quotient. *)

\* Fault: packets are always taken in turn.
MaxRun_InTurn(mine, other) == 1

MaxRun(mine, other) == IF mine > other THEN mine \div other ELSE 1
Run(taken, mine, other) == Min({MaxRun(mine, other), mine - taken})

Copy(from, at, pid) ==
  [pid |-> pid, from |-> from, segment |-> count, at |-> at, lists |-> <<>>]

MapPacket == [pid |-> context.map_pid, from |-> "map", segment |-> count, at |-> 0,
              lists |-> context.pmt]

\* Fault: the map is only written into the first segment of a file.
AnnouncesMap_FirstOnly(at) == /\ Len(segments) = 1 /\ video[at].pid = PAT
                              /\ \A k \in 1..(at - 1) : video[k].pid # PAT

\* The first program association of a segment is followed by the merged map.
AnnouncesMap(at) == /\ video[at].pid = PAT
                    /\ \A k \in 1..(at - 1) : video[k].pid # PAT

\* Fault: the video's own map goes out as well.
OfVideo_OwnMap(at) ==
  IF video[at].pid = NULL THEN <<>>
  ELSE <<Copy("video", at, video[at].pid)>> \o (IF AnnouncesMap(at) THEN <<MapPacket>> ELSE <<>>)

OfVideo(at) ==
  IF video[at].pid \in {NULL, context.map_pid} THEN <<>>
  ELSE <<Copy("video", at, video[at].pid)>> \o (IF AnnouncesMap(at) THEN <<MapPacket>> ELSE <<>>)

\* Only packets of the components go out, under the new PID of theirs: the
\* merged map ends with the audio's components.
OfAudio(at) ==
  LET c == SelectInSeq(context.pmt2, LAMBDA pid : pid = audio[at].pid)
  IN IF c = 0 THEN <<>>
     ELSE <<Copy("audio", at, context.pmt[Len(context.pmt) - Len(context.pmt2) + c])>>

VideoRun ==
  /\ pc = "video"
  /\ LET n == Run(i, Len(video), Len(audio))
     IN /\ out' = out \o FlattenSeq([k \in 1..n |-> OfVideo(i + k)])
        /\ i' = i + n
  /\ pc' = "audio"
  /\ UNCHANGED <<separate_segments, context, segments, j, count>>

AudioRun ==
  /\ pc = "audio"
  /\ LET n == Run(j, Len(audio), Len(video))
     IN /\ out' = out \o FlattenSeq([k \in 1..n |-> OfAudio(j + k)])
        /\ j' = j + n
        /\ pc' = IF i < Len(video) \/ j + n < Len(audio) THEN "video" ELSE "end"
  /\ UNCHANGED <<separate_segments, context, segments, i, count>>

\* download_hls takes a merge that wrote nothing for a failed one.
EndSegment ==
  /\ pc = "end"
  /\ pc' = IF \E k \in DOMAIN out : out[k].segment = count THEN "begin" ELSE "failed"
  /\ UNCHANGED <<separate_segments, context, segments, i, j, count, out>>

Next == Reuse \/ MergeMaps \/ MapsFail \/ VideoRun \/ AudioRun \/ EndSegment

Spec == Init /\ [][Next]_vars

-----------------------------------------------------------------------------
(* Properties *)

\* The n-th segment of the playlist, if it is in this file, and where a packet is from.
SegmentAt(n) == segments[n - (count - Len(segments))]
InFile       == (count - Len(segments) + 1)..count
Place(p)     == [segment |-> p.segment, at |-> p.at]
Earlier(p, q) == p.segment < q.segment \/ (p.segment = q.segment /\ p.at < q.at)

\* The packets of the file that are from the video, the audio or no segment.
Of(from) == {k \in DOMAIN out : out[k].from = from}

\* The packets that belong into the file: of the video all but the program maps,
\* of the audio those of its components.
VideoPlaces ==
  {p \in UNION {[segment : {n}, at : 1..Len(SegmentAt(n).video)] : n \in InFile} :
     SegmentAt(p.segment).video[p.at].pid \notin {NULL, context.map_pid}}
AudioPlaces ==
  {p \in UNION {[segment : {n}, at : 1..Len(SegmentAt(n).audio)] : n \in InFile} :
     \E c \in DOMAIN context.pmt2 : SegmentAt(p.segment).audio[p.at].pid = context.pmt2[c]}

\* They are in the file in their order, each once, and nothing else is; up to the
\* last one there none is left out, and at the end of a segment none at all.
AllInOrder(from, places) ==
  LET written == {Place(out[k]) : k \in Of(from)}
  IN /\ \A k, l \in Of(from) : k < l => Earlier(out[k], out[l])
     /\ written \subseteq places
     /\ \A p \in places \ written : pc # "end" /\ \A q \in written : ~Earlier(p, q)

\* Every packet of the video but the program map gets into the file, with its
\* PID, in order and once, over all segments of the file.
VideoKept ==
  pc \notin {"begin", "failed"} =>
    /\ AllInOrder("video", VideoPlaces)
    /\ \A k \in Of("video") : out[k].pid = SegmentAt(out[k].segment).video[out[k].at].pid

\* merge_pmt counts the new PIDs up from Gap behind the last one of the video's map
\* and compares them with no other (mpegts.c:527): they may meet a PID that the video
\* has up there or, where the count runs over the greatest PID, any.
MayMeet(pid) ==
  LET first == Last(context.pmt1) + Gap
  IN pid >= first \/ first + Len(context.pmt2) > PidSpace

\* Every packet of an audio component gets into the file, in order and once, under
\* a PID that this component keeps in the whole file, that no other component has
\* nor, unless merge_pmt's count meets it, a packet of the video, and that the file's
\* program maps list.
AudioKept ==
  pc \notin {"begin", "failed"} =>
    /\ AllInOrder("audio", AudioPlaces)
    /\ \A k \in Of("audio") :
         LET component(l) == SegmentAt(out[l].segment).audio[out[l].at].pid
         IN /\ \A l \in Of("audio") : out[k].pid = out[l].pid <=> component(k) = component(l)
            /\ \A l \in DOMAIN out \ Of("audio") : out[k].pid = out[l].pid => MayMeet(out[l].pid)
            /\ \A l \in Of("map") : \E c \in DOMAIN out[l].lists : out[k].pid = out[l].lists[c]

\* A player that starts at a segment with its program association ahead meets
\* the merged map, once, before any packet behind the association.
MapAhead ==
  \A n \in InFile :
    LET maps   == {l \in Of("map") : out[l].segment = n}
        others == {k \in DOMAIN out \ Of("map") : out[k].segment = n}
    IN /\ Cardinality(maps) <= 1
       /\ SegmentAt(n).video[1].pid = PAT =>
            \A k, m \in others : k < m => \E l \in maps : l < m

\* Neither segment is used up while more than half of the other is left: the
\* packets that belong together stay near each other in the file.
Interleaved ==
  pc = "video" =>
    /\ i = Len(video) => 2 * j >= Len(audio)
    /\ j = Len(audio) => 2 * i >= Len(video)

=============================================================================
