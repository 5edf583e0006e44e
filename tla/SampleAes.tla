------------------------------ MODULE SampleAes ------------------------------
(***************************************************************************)
(* How a segment of a transport stream under SAMPLE-AES is taken apart and *)
(* put together again (decrypt_sample_aes): the payload of the audio and   *)
(* of the video is collected until its next unit starts, decrypted in one  *)
(* piece (Samples) and cut into new packets; everything else is copied.    *)
(*                                                                         *)
(* A packet of the input is read when the model takes it: its PID, whether *)
(* a unit (a PES packet) starts in it, the flags of its adaptation field   *)
(* that the code remembers, the size of its payload, and how many bytes    *)
(* shorter the decryption makes the unit that starts.  Bytes in front of a *)
(* sync byte are skipped and leave no trace.                               *)
(***************************************************************************)
EXTENDS Integers, SequencesExt

CONSTANTS NULL,
          Payload,      \* TS_PACKET_LENGTH - 4
          PesHeader,    \* PES_HEADER_SIZE and what else stands ahead of the samples
          Counters,     \* values of a continuity counter, 16
          MapPid, Maps, \* the PID of the program map; its components: [pid, type]
          Packets,      \* what a segment is made of: [pid, start, flags, size, removed]
          MaxPackets    \* bound on the length of a segment

ASSUME SizesAssumption == /\ Payload \in Nat /\ Payload > 8
                          /\ Counters \in Nat \ {0} /\ PesHeader \in Nat

VARIABLES
  pmt,       \* the components of the program map
  input,     \* the packets read so far
  pc,
  buffer,    \* audioBuffer and videoBuffer: bytes, and whether a unit's start is among them
  pcr,       \* audio_pcr and video_pcr: the flags of the unit being collected
  removed,   \* bytes that the decryption takes from it
  counter,   \* audio_counter and video_counter
  write_pmt,
  out        \* the packets written

vars == <<pmt, input, pc, buffer, pcr, removed, counter, write_pmt, out>>

\* The types of encrypted components (stream_type), and those of the clear ones.
VideoTypes == {"db"}
AudioTypes == {"cf", "c1", "c2"}
ClearType  == [t \in VideoTypes \cup AudioTypes |->
                 CASE t = "db" -> "1B" [] t = "cf" -> "0F" [] t = "c1" -> "81" [] t = "c2" -> "87"]

\* The last component of a kind is the one that is decrypted.
PidOf(map, types) == LET last == SelectLastInSeq(map, LAMBDA c : c.type \in types)
                     IN IF last = 0 THEN NULL ELSE map[last].pid
audio_PID == PidOf(pmt, AudioTypes)
video_PID == PidOf(pmt, VideoTypes)
Collected == {audio_PID, video_PID} \ {NULL}

\* Audio, video and the map have PIDs of their own.
ASSUME PidsAssumption ==
  \A map \in Maps : /\ \/ PidOf(map, AudioTypes) = NULL
                         \/ PidOf(map, AudioTypes) # PidOf(map, VideoTypes)
                      /\ MapPid \notin {PidOf(map, AudioTypes), PidOf(map, VideoTypes)}

\* A payload leaves room for the adaptation field that its flags are in, and
\* decryption makes a unit no longer.
FlagBytes == [pcr |-> 8, mark |-> 2, none |-> 0]
ASSUME PacketsAssumption ==
  \A p \in Packets : /\ p.flags \in DOMAIN FlagBytes
                     /\ p.size \in 0..(Payload - FlagBytes[p.flags])
                     /\ p.removed \in 0..p.size

\* The map goes out with clear types for all its components.
ClearMap == [c \in DOMAIN pmt |-> IF pmt[c].type \in DOMAIN ClearType
                                  THEN [pmt[c] EXCEPT !.type = ClearType[@]] ELSE pmt[c]]

Empty == [size |-> 0, whole |-> FALSE]

Init ==
  /\ pmt \in Maps
  /\ input = <<>> /\ pc = "start"
  /\ buffer  = [p \in Collected |-> Empty]
  /\ pcr     = [p \in Collected |-> "none"]
  /\ removed = [p \in Collected |-> 0]
  /\ counter = [p \in Collected |-> 0]
  /\ write_pmt = TRUE /\ out = <<>>

-----------------------------------------------------------------------------
(* sample_aes_append_av_data: packets for a unit of n bytes *)

\* Fault: there is always an adaptation field.
Adaptation_Always(flags, n) ==
  CASE flags = "pcr"  -> 8
    [] flags = "mark" -> 2
    [] flags = "none" -> IF Payload - n = 1 THEN 1 ELSE 2

\* The size of the first packet's adaptation field, stuffing left out.
Adaptation(flags, n) ==
  CASE flags = "pcr"  -> 8
    [] flags = "mark" -> 2
    [] flags = "none" -> IF n >= Payload THEN 0 ELSE IF Payload - n = 1 THEN 1 ELSE 2

\* A packet: its field's size in bytes, whether its header announces a field,
\* the length written into the field, and the bytes of the unit behind it.
Packet(pid, start, count, flags, field, announced, length, size) ==
  [pid |-> pid, start |-> start, counter |-> count % Counters, flags |-> flags,
   field |-> field, announced |-> announced, length |-> length, size |-> size]

FirstPacket(pid, n, flags, count) ==
  LET adaptation == Adaptation(flags, n)
      size       == Min({n, Payload - adaptation})
      length     == IF adaptation = 0 THEN 0 ELSE Payload - size - 1
  IN Packet(pid, TRUE, count, flags, Payload - size, length # 0, length, size)

FullPacket(pid, count) == Packet(pid, FALSE, count, "none", 0, FALSE, 0, Payload)

\* The field of the last packet is announced even if it is its length alone.
LastPacket(pid, n, count) == Packet(pid, FALSE, count, "none", Payload - n, TRUE, Payload - n - 1, n)

Appended(pid, n, flags, count) ==
  LET first == FirstPacket(pid, n, flags, count)
      full  == (n - first.size) \div Payload
      rest  == (n - first.size) % Payload
  IN <<first>> \o [k \in 1..full |-> FullPacket(pid, count + k)]
       \o (IF rest = 0 THEN <<>> ELSE <<LastPacket(pid, rest, count + full + 1)>>)

(* sample_aes_handle_pes_data: a unit without a whole header is dropped. *)

Unit(pid) ==
  IF ~buffer[pid].whole \/ buffer[pid].size <= PesHeader THEN <<>>
  ELSE Appended(pid, buffer[pid].size - removed[pid], pcr[pid], counter[pid])

-----------------------------------------------------------------------------

\* No transport stream, no map in it, or nothing to decrypt.
Refuse ==
  /\ pc = "start"
  /\ pc' = "failed"
  /\ UNCHANGED <<pmt, input, buffer, pcr, removed, counter, write_pmt, out>>

Start ==
  /\ pc = "start" /\ Collected # {}
  /\ pc' = "collect"
  /\ UNCHANGED <<pmt, input, buffer, pcr, removed, counter, write_pmt, out>>

Read(p) == /\ pc = "collect" /\ Len(input) < MaxPackets
           /\ input' = Append(input, p)
           /\ UNCHANGED <<pmt, pc>>

\* The map goes out once, as it was found first.
ReadMap(p) ==
  /\ Read(p) /\ p.pid = MapPid
  /\ out' = IF write_pmt THEN Append(out, [pid |-> MapPid, map |-> ClearMap]) ELSE out
  /\ write_pmt' = FALSE
  /\ UNCHANGED <<buffer, pcr, removed, counter>>

\* Fault: the flags of the unit that starts replace those of the unit that ends
\* before it is written.
UnitStart_FlagsFirst(p) ==
  /\ Read(p) /\ p.pid \in Collected /\ p.start
  /\ LET unit == IF ~buffer[p.pid].whole \/ buffer[p.pid].size <= PesHeader THEN <<>>
                 ELSE Appended(p.pid, buffer[p.pid].size - removed[p.pid], p.flags, counter[p.pid])
     IN /\ out' = out \o unit
        /\ counter' = [counter EXCEPT ![p.pid] = (@ + Len(unit)) % Counters]
  /\ buffer'  = [buffer EXCEPT ![p.pid] = [size |-> p.size, whole |-> TRUE]]
  /\ pcr'     = [pcr EXCEPT ![p.pid] = p.flags]
  /\ removed' = [removed EXCEPT ![p.pid] = p.removed]
  /\ UNCHANGED write_pmt

\* The unit collected so far is complete; the next one begins.
UnitStart(p) ==
  /\ Read(p) /\ p.pid \in Collected /\ p.start
  /\ out' = out \o Unit(p.pid)
  /\ counter' = [counter EXCEPT ![p.pid] = (@ + Len(Unit(p.pid))) % Counters]
  /\ buffer'  = [buffer EXCEPT ![p.pid] = [size |-> p.size, whole |-> TRUE]]
  /\ pcr'     = [pcr EXCEPT ![p.pid] = p.flags]
  /\ removed' = [removed EXCEPT ![p.pid] = p.removed]
  /\ UNCHANGED write_pmt

Collect(p) ==
  /\ Read(p) /\ p.pid \in Collected /\ ~p.start
  /\ buffer' = [buffer EXCEPT ![p.pid].size = @ + p.size]
  /\ UNCHANGED <<pcr, removed, counter, write_pmt, out>>

CopyPacket(p) ==
  /\ Read(p) /\ p.pid \notin Collected \cup {MapPid}
  /\ out' = Append(out, [pid |-> p.pid, at |-> Len(input')])
  /\ UNCHANGED <<buffer, pcr, removed, counter, write_pmt>>

\* The last units, the audio's first.
EndOfSegment ==
  /\ pc = "collect" /\ input # <<>>
  /\ LET Rest(pid) == IF pid = NULL THEN <<>> ELSE Unit(pid)
     IN out' = out \o Rest(audio_PID) \o Rest(video_PID)
  /\ pc' = "done"
  /\ UNCHANGED <<pmt, input, buffer, pcr, removed, counter, write_pmt>>

Next ==
  \/ Refuse \/ Start \/ EndOfSegment
  \/ \E p \in Packets : ReadMap(p) \/ UnitStart(p) \/ Collect(p) \/ CopyPacket(p)

Spec == Init /\ [][Next]_vars

-----------------------------------------------------------------------------
(* Properties: what a receiver makes of the packets.                         *)

\* A header announces a field whose length is in its first byte; all behind it
\* is payload.
Received(p) == IF p.announced THEN Payload - 1 - p.length ELSE Payload

\* Among the packets of a sequence, by their positions: those of a component, those
\* where its units start, and those of the unit that starts at k.
Of(packets, pid)     == {k \in DOMAIN packets : packets[k].pid = pid}
Starts(packets, pid) == {k \in Of(packets, pid) : packets[k].start}
UnitAt(packets, pid, k) ==
  {l \in Of(packets, pid) : k <= l /\ \A m \in Starts(packets, pid) : m <= k \/ l < m}

\* The bytes of a unit that came in, and what a receiver finds in one that is written.
BytesIn(pid, k)  ==
  SumFunctionOnSet([l \in UnitAt(input, pid, k) |-> input[l].size], UnitAt(input, pid, k))
BytesOut(pid, k) ==
  SumFunctionOnSet([l \in UnitAt(out, pid, k) |-> Received(out[l])], UnitAt(out, pid, k))

\* The units that came in with more than a header, and those that are written.
UnitsIn(pid)  == {k \in Starts(input, pid) : BytesIn(pid, k) > PesHeader}
UnitsOut(pid) == Starts(out, pid)

\* What is left of a unit without the bytes that the decryption takes from it.  When
\* that is one byte less than a packet's payload, there is a field of one byte that the
\* header does not announce, and the receiver takes it for payload.
AsSent(pid, k) ==
  LET n == BytesIn(pid, k) - input[k].removed
  IN [flags |-> input[k].flags,
      bytes |-> IF input[k].flags = "none" /\ n = Payload - 1 THEN Payload ELSE n]

\* How many of S are there up to k.
Rank(k, S) == Cardinality({l \in S : l <= k})

\* Each audio and video unit that starts in the segment comes back whole, once,
\* in its order, with its own flags, in packets whose counters run on over all
\* units of the PID; only the size one byte below a packet's is not restored.
StreamsRestored ==
  \A pid \in Collected :
    /\ pc = "done" =>
         /\ Cardinality(UnitsIn(pid)) = Cardinality(UnitsOut(pid))
         /\ \A k \in UnitsIn(pid), m \in UnitsOut(pid) :
              Rank(k, UnitsIn(pid)) = Rank(m, UnitsOut(pid)) =>
                [flags |-> out[m].flags, bytes |-> BytesOut(pid, m)] = AsSent(pid, k)
    /\ \A k \in Of(out, pid) : out[k].counter = (Rank(k, Of(out, pid)) - 1) % Counters

\* "buffer overflow detected!" (line 1313) is never reached: no more packets go
\* out than came in.
FitsInput == Len(out) <= Len(input)

=============================================================================
