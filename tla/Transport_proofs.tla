-------------------------- MODULE Transport_proofs --------------------------
(***************************************************************************)
(* Proofs about Transport: the merge takes the packets of two segments of  *)
(* any lengths side by side, and loses, repeats and reorders none of them  *)
(* over all segments of a file, each of which starts with the merged map;  *)
(* a decrypted segment has no more packets than the encrypted one, and a   *)
(* receiver finds in it the units that came in, each whole and once.       *)
(***************************************************************************)
EXTENDS Transport, FoldTheorems

-----------------------------------------------------------------------------
(* Arithmetic *)

Least(a, b) == IF a <= b THEN a ELSE b

LEMMA MinIsLeast ==
  ASSUME NEW a \in Int, NEW b \in Int
  PROVE  Merge!Min({a, b}) = Least(a, b)
<1>1. \E x \in {a, b} : \A y \in {a, b} : x <= y
  OBVIOUS
<1> QED BY <1>1 DEF Merge!Min, Least

LEMMA Quotient ==
  ASSUME NEW a \in Nat, NEW b \in Nat \ {0}, a > b
  PROVE  /\ a \div b \in Nat \ {0}
         /\ (a \div b) * b <= a
         /\ a < (a \div b) * b + b
  OBVIOUS

LEMMA NextMultiple ==
  ASSUME NEW r \in Nat, NEW m \in Nat
  PROVE  r * m \in Nat /\ (r + 1) * m = r * m + m
  OBVIOUS

LEMMA ProductMonotone ==
  ASSUME NEW a \in Nat, NEW b \in Nat, NEW m \in Nat, a <= b
  PROVE  a * m <= b * m
  OBVIOUS

LEMMA ProductCancels ==
  ASSUME NEW a \in Nat, NEW b \in Nat, NEW m \in Nat \ {0}, a * m <= b * m
  PROVE  a <= b
  OBVIOUS

-----------------------------------------------------------------------------
(* Runs of packets *)

\* How far a segment of `mine` packets is read after r rounds beside the other.
After(r, mine, other) == Least(r * Merge!MaxRun(mine, other), mine)

LEMMA RunIsPositive ==
  ASSUME NEW mine \in Nat \ {0}, NEW other \in Nat \ {0}
  PROVE  Merge!MaxRun(mine, other) \in Nat \ {0}
<1>1. CASE mine > other
  BY <1>1, Quotient DEF Merge!MaxRun
<1>2. CASE ~(mine > other)
  BY <1>2 DEF Merge!MaxRun
<1> QED BY <1>1, <1>2

\* A run continues where the last round ended.
LEMMA RunContinues ==
  ASSUME NEW mine \in Nat \ {0}, NEW other \in Nat \ {0}, NEW r \in Nat
  PROVE  After(r, mine, other) + Merge!Run(After(r, mine, other), mine, other)
           = After(r + 1, mine, other)
<1> DEFINE m == Merge!MaxRun(mine, other)
           a == After(r, mine, other)
<1>1. m \in Nat \ {0}
  BY RunIsPositive
<1>2. r * m \in Nat /\ (r + 1) * m = r * m + m
  BY <1>1, NextMultiple
<1>3. a = Least(r * m, mine) /\ After(r + 1, mine, other) = Least((r + 1) * m, mine)
  BY DEF After
<1> HIDE DEF m
<1>4. a \in Nat /\ a <= mine
  BY <1>2, <1>3 DEF Least
<1>5. Merge!Run(a, mine, other) = Least(m, mine - a)
  BY <1>1, <1>4, MinIsLeast DEF Merge!Run, m
<1> QED BY <1>1, <1>2, <1>3, <1>4, <1>5 DEF Least

\* When one segment is used up, at least half of the other is.
LEMMA SideBySide ==
  ASSUME NEW v \in Nat \ {0}, NEW a \in Nat \ {0}, NEW r \in Nat, After(r, v, a) = v
  PROVE  2 * After(r, a, v) >= a
<1> DEFINE mv == Merge!MaxRun(v, a)
           ma == Merge!MaxRun(a, v)
<1>1. mv \in Nat \ {0} /\ ma \in Nat \ {0}
  BY RunIsPositive
<1>2. r * mv \in Nat /\ r * ma \in Nat
  BY <1>1, NextMultiple
<1>3. r * mv >= v
  BY <1>2 DEF After, Least
<1>4. CASE v > a
  <2>1. ma = 1 /\ mv = v \div a
    BY <1>4 DEF Merge!MaxRun
  <2>2. mv * a <= v
    BY <1>4, <2>1, Quotient
  <2>3. a * mv <= r * mv
    <3> HIDE DEF mv
    <3>1. mv * a = a * mv /\ a * mv \in Nat
      BY <1>1
    <3> QED BY <1>2, <1>3, <2>2, <3>1
  <2>4. a <= r
    BY <1>1, <2>3, ProductCancels
  <2> QED BY <2>1, <2>4 DEF After, Least
<1>5. CASE ~(v > a)
  <2>1. mv = 1 /\ v <= r
    BY <1>3, <1>5 DEF Merge!MaxRun
  <2>2. v * ma <= r * ma
    BY <1>1, <2>1, ProductMonotone
  <2>3. 2 * (v * ma) >= a
    <3>1. CASE a > v
      <4>1. ma * v <= a /\ a < ma * v + v
        BY <3>1, Quotient DEF Merge!MaxRun
      <4>2. 1 * v <= ma * v
        BY <1>1, ProductMonotone
      <4> HIDE DEF ma
      <4>3. ma * v = v * ma /\ v * ma \in Nat /\ 1 * v = v
        BY <1>1
      <4> QED BY <4>1, <4>2, <4>3
    <3>2. CASE a = v
      <4>1. ma = 1
        BY <3>2 DEF Merge!MaxRun
      <4> QED BY <3>2, <4>1
    <3> QED BY <1>5, <3>1, <3>2
  <2> HIDE DEF ma
  <2>4. v * ma \in Nat
    BY <1>1
  <2>5. 2 * (r * ma) >= a
    BY <1>2, <2>2, <2>3, <2>4
  <2> QED BY <1>2, <2>5 DEF After, Least, ma
<1> QED BY <1>4, <1>5

-----------------------------------------------------------------------------
(* The two segments of a merge *)

allVars == <<job, pc, out, decrypt_vars, merge_vars>>

\* Both segments have been read in the same number of rounds.
Rounds ==
  job = "merge" =>
    /\ pc \in {"begin", "video", "audio", "end", "failed"}
    /\ pc \in {"video", "audio"} =>
         /\ Len(Merge!video) \in Nat \ {0} /\ Len(Merge!audio) \in Nat \ {0}
         /\ \E r \in Nat :
              /\ i = After(IF pc = "audio" THEN r + 1 ELSE r, Len(Merge!video), Len(Merge!audio))
              /\ j = After(r, Len(Merge!audio), Len(Merge!video))

LEMMA BeginRounds ==
  ASSUME NEW v \in VideoSegments, NEW a \in AudioSegments, Merge!Begin(v, a),
         segments \in Seq([video : VideoSegments, audio : AudioSegments])
  PROVE  /\ Merge!video' = v /\ Merge!audio' = a
         /\ i' = After(0, Len(v), Len(a)) /\ j' = After(0, Len(a), Len(v))
         /\ segments' \in Seq([video : VideoSegments, audio : AudioSegments])
<1> DEFINE S == [video : VideoSegments, audio : AudioSegments]
           e == [video |-> v, audio |-> a]
           s == IF separate_segments THEN <<>> ELSE segments
<1>1. e \in S /\ s \in Seq(S) /\ segments' = Append(s, e) /\ i' = 0 /\ j' = 0
  BY DEF Merge!Begin
<1>2. e.video = v /\ e.audio = a
  OBVIOUS
<1> HIDE DEF e, s, S
<1>3. segments' \in Seq(S) /\ segments'[Len(segments')] = e
  BY <1>1
<1>4. Merge!video' = v /\ Merge!audio' = a
  BY <1>2, <1>3 DEF Merge!video, Merge!audio, Merge!Last
<1>5. \A m \in Nat, n \in Nat \ {0} : Least(0 * m, n) = 0
  BY DEF Least
<1>6. After(0, Len(v), Len(a)) = 0 /\ After(0, Len(a), Len(v)) = 0
  BY <1>5, SegmentsAssumption, RunIsPositive DEF After
<1> QED BY <1>1, <1>3, <1>4, <1>6 DEF S

MergeInv ==
  /\ Rounds
  /\ job = "merge" => segments \in Seq([video : VideoSegments, audio : AudioSegments])

LEMMA MergeStep ==
  ASSUME MergeInv, job = "merge", job' = "merge", Merge!Next
  PROVE  MergeInv'
<1> USE DEF MergeInv, Rounds
<1>1. CASE Merge!Reuse \/ Merge!MergeMaps \/ Merge!MapsFail
  <2>1. PICK v \in VideoSegments, a \in AudioSegments :
          Merge!Begin(v, a) /\ pc' \in {"video", "failed"}
    BY <1>1 DEF Merge!Reuse, Merge!MergeMaps, Merge!MapsFail
  <2>2. /\ Merge!video' = v /\ Merge!audio' = a
        /\ i' = After(0, Len(v), Len(a)) /\ j' = After(0, Len(a), Len(v))
        /\ segments' \in Seq([video : VideoSegments, audio : AudioSegments])
    BY <2>1, BeginRounds
  <2>3. Len(v) \in Nat \ {0} /\ Len(a) \in Nat \ {0}
    BY SegmentsAssumption
  <2> QED BY <2>1, <2>2, <2>3
<1>2. CASE Merge!VideoRun
  <2> DEFINE v == Len(Merge!video)
             a == Len(Merge!audio)
  <2>1. /\ pc = "video" /\ pc' = "audio" /\ i' = i + Merge!Run(i, v, a)
        /\ UNCHANGED <<segments, j>>
    BY <1>2 DEF Merge!VideoRun
  <2>2. Merge!video' = Merge!video /\ Merge!audio' = Merge!audio
    BY <2>1 DEF Merge!video, Merge!audio
  <2>3. PICK r \in Nat : i = After(r, v, a) /\ j = After(r, a, v)
    BY <2>1
  <2>4. i' = After(r + 1, v, a)
    BY <2>1, <2>3, RunContinues
  <2> QED BY <2>1, <2>2, <2>3, <2>4
<1>3. CASE Merge!AudioRun
  <2> DEFINE v == Len(Merge!video)
             a == Len(Merge!audio)
  <2>1. /\ pc = "audio" /\ pc' \in {"video", "end"} /\ j' = j + Merge!Run(j, a, v)
        /\ UNCHANGED <<segments, i>>
    BY <1>3 DEF Merge!AudioRun
  <2>2. Merge!video' = Merge!video /\ Merge!audio' = Merge!audio
    BY <2>1 DEF Merge!video, Merge!audio
  <2>3. PICK r \in Nat : i = After(r + 1, v, a) /\ j = After(r, a, v)
    BY <2>1
  <2>4. j' = After(r + 1, a, v) /\ r + 1 \in Nat
    BY <2>1, <2>3, RunContinues
  <2> QED BY <2>1, <2>2, <2>3, <2>4
<1>4. CASE Merge!EndSegment
  BY <1>4 DEF Merge!EndSegment
<1> QED BY <1>1, <1>2, <1>3, <1>4 DEF Merge!Next

LEMMA MergeInit == TransportInit => MergeInv
<1> SUFFICES ASSUME TransportInit, job = "merge" PROVE MergeInv
  BY DEF MergeInv, Rounds
<1>1. Merge!Init
  BY DEF TransportInit
<1>2. segments = <<>> /\ pc = "begin"
  BY <1>1 DEF Merge!Init
<1> QED BY <1>2 DEF MergeInv, Rounds

LEMMA MergeKept == MergeInv /\ [TransportNext]_allVars => MergeInv'
<1> SUFFICES ASSUME MergeInv, [TransportNext]_allVars PROVE MergeInv'
  OBVIOUS
<1>1. CASE job = "merge" /\ Merge!Next /\ UNCHANGED <<job, decrypt_vars>>
  BY <1>1, MergeStep
<1>2. CASE job = "decrypt" /\ job' = job
  BY <1>2 DEF MergeInv, Rounds
<1>3. CASE UNCHANGED allVars
  <2>1. UNCHANGED <<job, pc, segments, i, j>>
    BY <1>3 DEF allVars, merge_vars
  <2>2. Merge!video' = Merge!video /\ Merge!audio' = Merge!audio
    BY <2>1 DEF Merge!video, Merge!audio
  <2> QED BY <2>1, <2>2 DEF MergeInv, Rounds
<1> QED BY <1>1, <1>2, <1>3 DEF TransportNext

\* Whatever the lengths of the two segments, when one of them is used up at most
\* half of the other is left, so packets that belong together stay near each other.
THEOREM AlwaysInterleaved == TransportSpec => []Interleaved
<1>1. MergeInv => Interleaved
  <2> SUFFICES ASSUME MergeInv, job = "merge", pc = "video"
               PROVE  /\ i = Len(Merge!video) => 2 * j >= Len(Merge!audio)
                      /\ j = Len(Merge!audio) => 2 * i >= Len(Merge!video)
    BY DEF Interleaved, Merge!Interleaved
  <2> DEFINE v == Len(Merge!video)
             a == Len(Merge!audio)
  <2>1. PICK r \in Nat : i = After(r, v, a) /\ j = After(r, a, v)
    BY DEF MergeInv, Rounds
  <2>2. v \in Nat \ {0} /\ a \in Nat \ {0}
    BY DEF MergeInv, Rounds
  <2> HIDE DEF v, a
  <2>3. (i = v => 2 * j >= a) /\ (j = a => 2 * i >= v)
    BY <2>1, <2>2, SideBySide
  <2> QED BY <2>3 DEF v, a
<1> QED BY <1>1, MergeInit, MergeKept, PTL DEF TransportSpec, allVars

-----------------------------------------------------------------------------
(* The buffer for the decrypted segment                                        *)

IsList(s) == \E S : s \in Seq(S)

LEMMA ListsJoin ==
  ASSUME NEW s, NEW t, IsList(s), IsList(t)
  PROVE  IsList(s \o t) /\ Len(s \o t) = Len(s) + Len(t) /\ Len(s) \in Nat /\ Len(t) \in Nat
<1>1. PICK S : s \in Seq(S)
  BY DEF IsList
<1>2. PICK T : t \in Seq(T)
  BY DEF IsList
<1>3. s \in Seq(S \cup T) /\ t \in Seq(S \cup T)
  BY <1>1, <1>2
<1>4. s \o t \in Seq(S \cup T)
  BY <1>3
<1> QED BY <1>3, <1>4 DEF IsList

LEMMA ListGrows ==
  ASSUME NEW s, NEW e, IsList(s)
  PROVE  IsList(Append(s, e)) /\ Len(Append(s, e)) = Len(s) + 1 /\ Len(s) \in Nat
<1>1. PICK S : s \in Seq(S)
  BY DEF IsList
<1>2. s \in Seq(S \cup {e}) /\ e \in S \cup {e}
  BY <1>1
<1>3. Append(s, e) \in Seq(S \cup {e})
  BY <1>2
<1> QED BY <1>2, <1>3 DEF IsList

\* The bytes of a unit that fit w packets, beside the field for its flags.
Capacity(flags, w) == Payload - FlagBytes[flags] + (w - 1) * Payload

\* A unit needs no more packets than it has room in.
LEMMA UnitFits ==
  ASSUME NEW pid, NEW n \in Nat, NEW flags \in DOMAIN FlagBytes, NEW from,
         NEW w \in Nat \ {0}, n <= Capacity(flags, w)
  PROVE  IsList(Appended(pid, n, flags, from)) /\ Len(Appended(pid, n, flags, from)) <= w
<1> DEFINE adaptation == Adaptation(flags, n)
           first == FirstPacket(pid, n, flags, from)
           m     == n - first.size
           full  == m \div Payload
           rest  == m % Payload
<1>1. flags \in {"pcr", "mark", "none"} /\ Payload \in Nat /\ Payload > 8
  BY SizesAssumption DEF FlagBytes
<1>2. adaptation \in 0..8
  BY <1>1 DEF Adaptation
<1>3. first.size = Least(n, Payload - adaptation)
  <2>1. Min({n, Payload - adaptation}) = Least(n, Payload - adaptation)
    <3>1. \E x \in {n, Payload - adaptation} : \A y \in {n, Payload - adaptation} : x <= y
      BY <1>1, <1>2
    <3> HIDE DEF adaptation
    <3> QED BY <1>1, <1>2, <3>1 DEF Min, Least
  <2> QED BY <2>1 DEF FirstPacket, Packet
<1>4. w - 1 \in Nat /\ (w - 1) * Payload \in Nat
  BY <1>1
<1>5. m \in Nat /\ m <= (w - 1) * Payload
  <2>1. CASE n <= Payload - adaptation
    BY <1>1, <1>2, <1>3, <1>4, <2>1 DEF Least
  <2>2. CASE ~(n <= Payload - adaptation)
    <3>1. adaptation = FlagBytes[flags]
      BY <1>1, <2>2 DEF Adaptation, FlagBytes
    <3>2. m = n - (Payload - adaptation)
      BY <1>3, <2>2 DEF Least
    <3>3. FlagBytes[flags] \in Nat
      BY <1>1 DEF FlagBytes
    <3> HIDE DEF m, adaptation
    <3> QED BY <1>1, <1>2, <1>4, <2>2, <3>1, <3>2, <3>3 DEF Capacity
  <2> QED BY <2>1, <2>2
<1> HIDE DEF m, first, adaptation
<1>6. full \in Nat /\ rest \in Nat /\ m = full * Payload + rest
  BY <1>1, <1>5
<1>7. full + (IF rest = 0 THEN 0 ELSE 1) <= w - 1
  <2> HIDE DEF full, rest
  <2>1. CASE rest = 0
    <3>1. full * Payload <= (w - 1) * Payload
      BY <1>1, <1>5, <1>6, <2>1
    <3> QED BY <1>1, <1>4, <1>6, <2>1, <3>1, ProductCancels
  <2>2. CASE rest # 0 /\ w - 1 <= full
    <3>1. (w - 1) * Payload <= full * Payload
      BY <1>1, <1>4, <1>6, <2>2, ProductMonotone
    <3>2. full * Payload \in Nat
      BY <1>1, <1>6
    <3> QED BY <1>4, <1>5, <1>6, <2>2, <3>1, <3>2
  <2> QED BY <1>4, <1>6, <2>1, <2>2
<1> DEFINE head   == <<first>>
           middle == [k \in 1..full |-> FullPacket(pid, from + k)]
           tail   == IF rest = 0 THEN <<>> ELSE <<LastPacket(pid, rest, from + full + 1)>>
<1>8. IsList(head) /\ Len(head) = 1
  <2>1. head \in Seq({first})
    OBVIOUS
  <2> QED BY <2>1 DEF IsList
<1>9. IsList(middle) /\ Len(middle) = full
  <2> HIDE DEF full
  <2>1. DOMAIN middle = 1..full
    OBVIOUS
  <2>2. middle \in Seq({FullPacket(pid, from + k) : k \in 1..full})
    BY <1>6
  <2> HIDE DEF middle
  <2> QED BY <1>6, <2>1, <2>2 DEF IsList
<1>10. IsList(tail) /\ Len(tail) = IF rest = 0 THEN 0 ELSE 1
  <2> DEFINE last == LastPacket(pid, rest, from + full + 1)
  <2> HIDE DEF last
  <2>1. <<last>> \in Seq({last}) /\ <<>> \in Seq({last}) /\ Len(<<last>>) = 1 /\ Len(<<>>) = 0
    OBVIOUS
  <2>2. tail = IF rest = 0 THEN <<>> ELSE <<last>>
    BY DEF last
  <2> HIDE DEF rest, tail
  <2>3. tail \in Seq({last}) /\ Len(tail) = IF rest = 0 THEN 0 ELSE 1
    <3>1. CASE rest = 0
      <4>1. tail = <<>>
        BY <2>2, <3>1
      <4> QED BY <2>1, <3>1, <4>1
    <3>2. CASE rest # 0
      <4>1. tail = <<last>>
        BY <2>2, <3>2
      <4> QED BY <2>1, <3>2, <4>1
    <3> QED BY <3>1, <3>2
  <2> QED BY <2>3 DEF IsList
<1>11. Appended(pid, n, flags, from) = head \o middle \o tail
  BY DEF Appended, first, m
<1> HIDE DEF head, middle, tail, full, rest
<1>12. IsList(head \o middle) /\ Len(head \o middle) = 1 + full
  BY <1>8, <1>9, ListsJoin
<1>13. IsList(head \o middle \o tail)
       /\ Len(head \o middle \o tail) = 1 + full + (IF rest = 0 THEN 0 ELSE 1)
  BY <1>10, <1>12, ListsJoin
<1> QED BY <1>6, <1>7, <1>11, <1>13

\* Packets set aside for the units being collected: each unit fits into its own.
Rooms(w, b, r, f) ==
  /\ w \in [Collected -> Nat]
  /\ \A p \in Collected : b[p].whole => w[p] # 0 /\ b[p].size - r[p] <= Capacity(f[p], w[p])

Aside(w, pid) == IF pid \in Collected THEN w[pid] ELSE 0
Booked(w)     == Aside(w, audio_PID) + Aside(w, video_PID)

Buffers(b, r, f) ==
  /\ b \in [Collected -> [size : Nat, whole : BOOLEAN]]
  /\ r \in [Collected -> Nat] /\ f \in [Collected -> DOMAIN FlagBytes]
  /\ \A p \in Collected : r[p] <= b[p].size

\* What is written and what is set aside came in.
DecryptInv ==
  /\ pmt \in Maps
  /\ IsList(input) /\ IsList(out) /\ Len(out) <= Len(input)
  /\ Buffers(buffer, removed, pcr)
  /\ pc # "done" => \E w : Rooms(w, buffer, removed, pcr) /\ Len(out) + Booked(w) <= Len(input)

FitInv == job = "decrypt" => DecryptInv

LEMMA BookedAre ==
  ASSUME NEW w \in [Collected -> Nat]
  PROVE  Booked(w) \in Nat
BY DEF Booked, Aside

\* Setting aside more or less for one component.
LEMMA BookedWith ==
  ASSUME pmt \in Maps, NEW w \in [Collected -> Nat], NEW u \in [Collected -> Nat],
         NEW p \in Collected, \A q \in Collected : q # p => u[q] = w[q]
  PROVE  Booked(u) = Booked(w) - w[p] + u[p]
<1>1. audio_PID = NULL \/ audio_PID # video_PID
  BY PidsAssumption DEF audio_PID, video_PID
<1>2. NULL \notin Collected /\ (p = audio_PID \/ p = video_PID)
  BY DEF Collected
<1>3. Aside(w, audio_PID) \in Nat /\ Aside(w, video_PID) \in Nat /\ w[p] \in Nat /\ u[p] \in Nat
  BY DEF Aside
<1>4. CASE p = audio_PID
  <2>1. Aside(u, video_PID) = Aside(w, video_PID)
    BY <1>1, <1>2, <1>4 DEF Aside
  <2>2. Aside(u, audio_PID) = u[p] /\ Aside(w, audio_PID) = w[p]
    BY <1>4 DEF Aside
  <2> QED BY <1>3, <2>1, <2>2 DEF Booked
<1>5. CASE p = video_PID
  <2>1. Aside(u, audio_PID) = Aside(w, audio_PID)
    BY <1>1, <1>2, <1>5 DEF Aside
  <2>2. Aside(u, video_PID) = u[p] /\ Aside(w, video_PID) = w[p]
    BY <1>5 DEF Aside
  <2> QED BY <1>3, <2>1, <2>2 DEF Booked
<1> QED BY <1>2, <1>4, <1>5

LEMMA CapacityGrows ==
  ASSUME NEW flags \in DOMAIN FlagBytes, NEW w \in Nat \ {0}
  PROVE  /\ Capacity(flags, w) \in Int
         /\ Capacity(flags, w + 1) = Capacity(flags, w) + Payload
<1>1. Payload \in Nat /\ FlagBytes[flags] \in Nat
  BY SizesAssumption DEF FlagBytes
<1>2. w - 1 \in Nat /\ w + 1 - 1 = (w - 1) + 1
  OBVIOUS
<1>3. /\ (w - 1) * Payload \in Nat
      /\ ((w - 1) + 1) * Payload = (w - 1) * Payload + Payload
  BY <1>1, <1>2, NextMultiple
<1>4. Capacity(flags, w + 1) = Payload - FlagBytes[flags] + ((w - 1) + 1) * Payload
  BY <1>2 DEF Capacity
<1> QED BY <1>1, <1>3, <1>4 DEF Capacity

LEMMA UnitInRoom ==
  ASSUME Buffers(buffer, removed, pcr), NEW w, Rooms(w, buffer, removed, pcr), NEW p \in Collected
  PROVE  IsList(Unit(p)) /\ Len(Unit(p)) \in Nat /\ Len(Unit(p)) <= w[p]
<1>0. /\ w[p] \in Nat /\ buffer[p].size \in Nat /\ removed[p] \in Nat
      /\ removed[p] <= buffer[p].size /\ pcr[p] \in DOMAIN FlagBytes
  BY DEF Buffers, Rooms
<1>1. IsList(<<>>) /\ Len(<<>>) = 0
  <2>1. <<>> \in Seq({})
    OBVIOUS
  <2> QED BY <2>1 DEF IsList
<1>2. CASE ~buffer[p].whole \/ buffer[p].size <= PesHeader
  BY <1>0, <1>1, <1>2 DEF Unit
<1>3. CASE ~(~buffer[p].whole \/ buffer[p].size <= PesHeader)
  <2> DEFINE unit == Appended(p, buffer[p].size - removed[p], pcr[p], counter[p])
  <2>1. w[p] \in Nat \ {0} /\ buffer[p].size - removed[p] <= Capacity(pcr[p], w[p])
        /\ buffer[p].size - removed[p] \in Nat
    BY <1>0, <1>3 DEF Rooms
  <2>2. IsList(unit) /\ Len(unit) <= w[p]
    BY <1>0, <2>1, UnitFits
  <2>3. Unit(p) = unit
    BY <1>3 DEF Unit
  <2> HIDE DEF unit
  <2>4. Len(unit) \in Nat
    BY <2>2, ListGrows
  <2> QED BY <2>2, <2>3, <2>4
<1> QED BY <1>2, <1>3

LEMMA SamePids ==
  ASSUME pmt' = pmt
  PROVE  audio_PID' = audio_PID /\ video_PID' = video_PID /\ Collected' = Collected
BY DEF audio_PID, video_PID, Collected

\* A packet is read; w are the rooms after it.
LEMMA PacketRead ==
  ASSUME pmt \in Maps, pmt' = pmt, pc' = pc, NEW p, IsList(input), input' = Append(input, p),
         IsList(out'), NEW w, Rooms(w, buffer', removed', pcr'), Buffers(buffer', removed', pcr'),
         Len(out') + Booked(w) <= Len(input) + 1
  PROVE  DecryptInv'
<1>1. audio_PID' = audio_PID /\ video_PID' = video_PID /\ Collected' = Collected
  BY SamePids
<1>2. IsList(input') /\ Len(input') = Len(input) + 1 /\ Len(input) \in Nat
  BY ListGrows
<1>3. Booked(w) \in Nat /\ Len(out') \in Nat
  BY BookedAre, ListGrows DEF Rooms
<1>4. Len(out') <= Len(input')
  BY <1>2, <1>3
<1>5. Len(out') + Booked(w)' <= Len(input')
  BY <1>1, <1>2 DEF Booked, Aside
<1>6. Rooms(w, buffer, removed, pcr)'
  BY <1>1 DEF Rooms, Capacity
<1>7. Buffers(buffer, removed, pcr)'
  BY <1>1 DEF Buffers
<1> QED BY <1>2, <1>4, <1>5, <1>6, <1>7 DEF DecryptInv

LEMMA DecryptStep ==
  ASSUME DecryptInv, Next
  PROVE  DecryptInv'
<1>1. pc # "done"
  BY DEF Next, Refuse, Start, EndOfSegment, ReadMap, UnitStart, Collect, CopyPacket, Read
<1>2. PICK w : Rooms(w, buffer, removed, pcr) /\ Len(out) + Booked(w) <= Len(input)
  BY <1>1 DEF DecryptInv
<1>3. /\ pmt \in Maps /\ IsList(input) /\ IsList(out) /\ Buffers(buffer, removed, pcr)
      /\ Len(out) \in Nat /\ Len(input) \in Nat /\ w \in [Collected -> Nat] /\ Booked(w) \in Nat
  BY <1>2, ListGrows, BookedAre DEF DecryptInv, Rooms
<1>4. CASE Refuse \/ Start
  <2>1. UNCHANGED <<pmt, input, buffer, pcr, removed, counter, write_pmt, out>>
    BY <1>4 DEF Refuse, Start
  <2>2. Collected' = Collected /\ audio_PID' = audio_PID /\ video_PID' = video_PID
    BY <2>1, SamePids
  <2>3. Rooms(w, buffer, removed, pcr)' /\ Buffers(buffer, removed, pcr)'
    BY <1>2, <1>3, <2>1, <2>2 DEF Rooms, Buffers, Capacity
  <2>4. (Len(out) + Booked(w) <= Len(input))'
    BY <1>2, <2>1, <2>2 DEF Booked, Aside
  <2> QED BY <1>3, <2>1, <2>3, <2>4 DEF DecryptInv
<1>5. CASE EndOfSegment
  <2> DEFINE Rest(pid) == IF pid = NULL THEN <<>> ELSE Unit(pid)
  <2>1. /\ pc' = "done" /\ out' = out \o Rest(audio_PID) \o Rest(video_PID)
        /\ UNCHANGED <<pmt, input, buffer, pcr, removed, counter, write_pmt>>
    BY <1>5 DEF EndOfSegment
  <2>2. ASSUME NEW pid, pid = audio_PID \/ pid = video_PID
        PROVE  IsList(Rest(pid)) /\ Len(Rest(pid)) \in Nat /\ Len(Rest(pid)) <= Aside(w, pid)
    <3>1. CASE pid = NULL
      <4>1. <<>> \in Seq({}) /\ Len(<<>>) = 0
        OBVIOUS
      <4>2. Aside(w, pid) = 0
        BY <3>1 DEF Aside, Collected
      <4> QED BY <3>1, <4>1, <4>2 DEF IsList
    <3>2. CASE pid # NULL
      <4>1. pid \in Collected
        BY <2>2, <3>2 DEF Collected
      <4>2. IsList(Unit(pid)) /\ Len(Unit(pid)) \in Nat /\ Len(Unit(pid)) <= w[pid]
        BY <1>2, <1>3, <4>1, UnitInRoom
      <4> QED BY <3>2, <4>1, <4>2 DEF Aside
    <3> QED BY <3>1, <3>2
  <2>3. IsList(out') /\ Len(out') = Len(out) + Len(Rest(audio_PID)) + Len(Rest(video_PID))
    <3> DEFINE a == Rest(audio_PID)
               v == Rest(video_PID)
    <3>1. IsList(a) /\ IsList(v)
      BY <2>2
    <3> HIDE DEF a, v
    <3>2. IsList(out \o a) /\ Len(out \o a) = Len(out) + Len(a)
      BY <1>3, <3>1, ListsJoin
    <3>3. IsList(out \o a \o v) /\ Len(out \o a \o v) = Len(out) + Len(a) + Len(v)
      BY <3>1, <3>2, ListsJoin
    <3> QED BY <2>1, <3>3 DEF a, v
  <2>4. Aside(w, audio_PID) \in Nat /\ Aside(w, video_PID) \in Nat
    BY <1>3 DEF Aside
  <2>5. Len(out') <= Len(input)
    <3>1. /\ Len(Rest(audio_PID)) \in Nat /\ Len(Rest(audio_PID)) <= Aside(w, audio_PID)
          /\ Len(Rest(video_PID)) \in Nat /\ Len(Rest(video_PID)) <= Aside(w, video_PID)
      BY <2>2
    <3> HIDE DEF Rest
    <3> QED BY <1>2, <1>3, <2>3, <2>4, <3>1 DEF Booked
  <2>6. Buffers(buffer, removed, pcr)'
    BY <1>3, <2>1, SamePids DEF Buffers
  <2> QED BY <1>3, <2>1, <2>3, <2>5, <2>6 DEF DecryptInv
<1>6. ASSUME NEW p \in Packets, ReadMap(p) \/ CopyPacket(p)
      PROVE  DecryptInv'
  <2>1. /\ pmt' = pmt /\ pc' = pc /\ input' = Append(input, p)
        /\ UNCHANGED <<buffer, pcr, removed>>
    BY <1>6 DEF ReadMap, CopyPacket, Read
  <2>2. out' = out \/ \E e : out' = Append(out, e)
    BY <1>6 DEF ReadMap, CopyPacket
  <2>3. IsList(out') /\ Len(out') \in Nat /\ Len(out') <= Len(out) + 1
    <3>1. CASE out' = out
      BY <1>3, <3>1
    <3>2. ASSUME NEW e, out' = Append(out, e)
          PROVE  IsList(out') /\ Len(out') = Len(out) + 1
      BY <1>3, <3>2, ListGrows
    <3> QED BY <1>3, <2>2, <3>1, <3>2
  <2>4. Len(out') + Booked(w) <= Len(input) + 1
    BY <1>2, <1>3, <2>3
  <2> QED BY <1>2, <1>3, <2>1, <2>3, <2>4, PacketRead
<1>7. ASSUME NEW p \in Packets, UnitStart(p)
      PROVE  DecryptInv'
  <2> DEFINE pid == p.pid
  <2>0. PICK u : u = [w EXCEPT ![pid] = 1]
    OBVIOUS
  <2>1. /\ pid \in Collected
        /\ pmt' = pmt /\ pc' = pc /\ input' = Append(input, p) /\ out' = out \o Unit(pid)
        /\ buffer' = [buffer EXCEPT ![pid] = [size |-> p.size, whole |-> TRUE]]
        /\ pcr' = [pcr EXCEPT ![pid] = p.flags] /\ removed' = [removed EXCEPT ![pid] = p.removed]
    BY <1>7 DEF UnitStart, Read
  <2>2. /\ p.flags \in DOMAIN FlagBytes /\ p.removed \in Nat /\ p.size \in Nat
        /\ p.removed <= p.size /\ p.size <= Payload - FlagBytes[p.flags]
        /\ FlagBytes[p.flags] \in Nat /\ Payload \in Nat
    <3>1. /\ p.flags \in DOMAIN FlagBytes /\ p.size \in 0..(Payload - FlagBytes[p.flags])
          /\ p.removed \in 0..p.size
      BY PacketsAssumption
    <3>2. FlagBytes[p.flags] \in Nat /\ Payload \in Nat
      BY <3>1, SizesAssumption DEF FlagBytes
    <3> QED BY <3>1, <3>2
  <2>3. IsList(Unit(pid)) /\ Len(Unit(pid)) \in Nat /\ Len(Unit(pid)) <= w[pid]
    BY <1>2, <1>3, <2>1, UnitInRoom
  <2>4. /\ u \in [Collected -> Nat] /\ w[pid] \in Nat
        /\ Booked(u) = Booked(w) - w[pid] + 1
    <3>1. u \in [Collected -> Nat] /\ u[pid] = 1
          /\ \A q \in Collected : q # pid => u[q] = w[q]
      BY <1>3, <2>0, <2>1
    <3> HIDE DEF pid
    <3> QED BY <1>3, <2>1, <3>1, BookedWith
  <2>5. IsList(out') /\ Len(out') = Len(out) + Len(Unit(pid))
    BY <1>3, <2>1, <2>3, ListsJoin
  <2>6. Len(out') + Booked(u) <= Len(input) + 1
    <3> HIDE DEF pid
    <3> QED BY <1>2, <1>3, <2>3, <2>4, <2>5
  <2>7. Buffers(buffer', removed', pcr')
    BY <1>3, <2>1, <2>2 DEF Buffers
  <2>8. Rooms(u, buffer', removed', pcr')
    <3>1. u[pid] = 1 /\ \A q \in Collected : q # pid => u[q] = w[q]
      BY <1>3, <2>0, <2>1
    <3>2. /\ buffer'[pid] = [size |-> p.size, whole |-> TRUE]
          /\ removed'[pid] = p.removed /\ pcr'[pid] = p.flags
          /\ \A q \in Collected : q # pid =>
               buffer'[q] = buffer[q] /\ removed'[q] = removed[q] /\ pcr'[q] = pcr[q]
      BY <1>3, <2>1 DEF Buffers
    <3>3. p.size - p.removed <= Capacity(p.flags, 1)
      BY <2>2 DEF Capacity
    <3> HIDE DEF pid
    <3> QED BY <1>2, <2>4, <3>1, <3>2, <3>3 DEF Rooms
  <2> QED BY <1>3, <2>1, <2>5, <2>6, <2>7, <2>8, PacketRead
<1>8. ASSUME NEW p \in Packets, Collect(p)
      PROVE  DecryptInv'
  <2> DEFINE pid == p.pid
  <2>0. PICK u : u = [w EXCEPT ![pid] = w[pid] + 1]
    OBVIOUS
  <2>1. /\ pid \in Collected
        /\ pmt' = pmt /\ pc' = pc /\ input' = Append(input, p) /\ out' = out
        /\ buffer' = [buffer EXCEPT ![pid].size = @ + p.size]
        /\ pcr' = pcr /\ removed' = removed
    BY <1>8 DEF Collect, Read
  <2>2. p.size \in Nat /\ p.size <= Payload /\ Payload \in Nat
    <3>1. p.flags \in DOMAIN FlagBytes /\ p.size \in 0..(Payload - FlagBytes[p.flags])
      BY PacketsAssumption
    <3>2. FlagBytes[p.flags] \in Nat /\ Payload \in Nat
      BY <3>1, SizesAssumption DEF FlagBytes
    <3> QED BY <3>1, <3>2
  <2>3. w[pid] \in Nat
    BY <1>3, <2>1
  <2>4. u \in [Collected -> Nat] /\ Booked(u) = Booked(w) - w[pid] + (w[pid] + 1)
    <3>1. w[pid] + 1 \in Nat
      BY <2>3
    <3>2. u \in [Collected -> Nat] /\ u[pid] = w[pid] + 1
          /\ \A q \in Collected : q # pid => u[q] = w[q]
      BY <1>3, <2>0, <2>1, <3>1
    <3> HIDE DEF pid
    <3> QED BY <1>3, <2>1, <3>2, BookedWith
  <2>5. Len(out') + Booked(u) <= Len(input) + 1
    <3> HIDE DEF pid
    <3> QED BY <1>2, <1>3, <2>1, <2>3, <2>4
  <2>6. /\ buffer'[pid].size = buffer[pid].size + p.size
        /\ buffer'[pid].whole = buffer[pid].whole
        /\ \A q \in Collected : q # pid => buffer'[q] = buffer[q]
        /\ buffer' \in [Collected -> [size : Nat, whole : BOOLEAN]]
    <3> DEFINE longer == [buffer[pid] EXCEPT !.size = @ + p.size]
    <3>1. buffer[pid] \in [size : Nat, whole : BOOLEAN]
      BY <1>3, <2>1 DEF Buffers
    <3>2. /\ longer \in [size : Nat, whole : BOOLEAN]
          /\ longer.size = buffer[pid].size + p.size /\ longer.whole = buffer[pid].whole
      BY <2>2, <3>1
    <3>3. buffer' = [buffer EXCEPT ![pid] = longer]
      BY <1>3, <2>1 DEF Buffers
    <3>4. buffer \in [Collected -> [size : Nat, whole : BOOLEAN]]
      BY <1>3 DEF Buffers
    <3> HIDE DEF longer, pid
    <3> QED BY <2>1, <3>2, <3>3, <3>4
  <2>7. Buffers(buffer', removed', pcr')
    <3>1. /\ removed[pid] \in Nat /\ buffer[pid].size \in Nat /\ removed[pid] <= buffer[pid].size
      BY <1>3, <2>1 DEF Buffers
    <3> HIDE DEF pid
    <3>2. removed[pid] <= buffer'[pid].size
      BY <2>2, <2>6, <3>1
    <3> QED BY <1>3, <2>1, <2>6, <3>2 DEF Buffers
  <2>8. Rooms(u, buffer', removed', pcr')
    <3>1. u[pid] = w[pid] + 1 /\ \A q \in Collected : q # pid => u[q] = w[q]
      BY <1>3, <2>0, <2>1
    <3>2. ASSUME buffer[pid].whole
          PROVE  buffer'[pid].size - removed[pid] <= Capacity(pcr[pid], w[pid] + 1)
      <4>1. /\ w[pid] # 0 /\ buffer[pid].size - removed[pid] <= Capacity(pcr[pid], w[pid])
        BY <1>2, <2>1, <3>2 DEF Rooms
      <4>2. /\ buffer[pid].size \in Nat /\ removed[pid] \in Nat
            /\ pcr[pid] \in DOMAIN FlagBytes
        BY <1>3, <2>1 DEF Buffers
      <4> HIDE DEF pid
      <4>3. /\ Capacity(pcr[pid], w[pid]) \in Int
            /\ Capacity(pcr[pid], w[pid] + 1) = Capacity(pcr[pid], w[pid]) + Payload
        BY <2>3, <4>1, <4>2, CapacityGrows
      <4> QED BY <2>2, <2>6, <4>1, <4>2, <4>3
    <3> HIDE DEF pid
    <3>3. w[pid] + 1 # 0
      BY <2>3
    <3> QED BY <1>2, <2>1, <2>4, <2>6, <3>1, <3>2, <3>3 DEF Rooms
  <2>9. IsList(out')
    BY <1>3, <2>1
  <2> QED BY <1>3, <2>1, <2>5, <2>7, <2>8, <2>9, PacketRead
<1> QED BY <1>4, <1>5, <1>6, <1>7, <1>8 DEF Next

LEMMA DecryptInit == TransportInit => FitInv
<1> SUFFICES ASSUME TransportInit, job = "decrypt" PROVE DecryptInv
  BY DEF FitInv
<1>1. /\ pmt \in Maps /\ input = <<>> /\ out = <<>>
      /\ buffer  = [p \in Collected |-> Empty]
      /\ pcr     = [p \in Collected |-> "none"]
      /\ removed = [p \in Collected |-> 0]
  BY DEF TransportInit, Init
<1>2. <<>> \in Seq({}) /\ Len(<<>>) = 0
  OBVIOUS
<1>3. IsList(input) /\ IsList(out) /\ Len(input) = 0 /\ Len(out) = 0
  BY <1>1, <1>2 DEF IsList
<1>4. Buffers(buffer, removed, pcr)
  BY <1>1 DEF Buffers, Empty, FlagBytes
<1>5. \E w : Rooms(w, buffer, removed, pcr) /\ Booked(w) = 0
  <2> DEFINE w == [p \in Collected |-> 0]
  <2>1. Rooms(w, buffer, removed, pcr)
    BY <1>1 DEF Rooms, Empty
  <2>2. Booked(w) = 0
    BY DEF Booked, Aside
  <2> QED BY <2>1, <2>2
<1> QED BY <1>1, <1>3, <1>4, <1>5 DEF DecryptInv

LEMMA DecryptKept == FitInv /\ [TransportNext]_allVars => FitInv'
<1> SUFFICES ASSUME FitInv, [TransportNext]_allVars PROVE FitInv'
  OBVIOUS
<1>1. CASE job = "decrypt" /\ Next /\ UNCHANGED <<job, merge_vars>>
  BY <1>1, DecryptStep DEF FitInv
<1>2. CASE job = "merge" /\ job' = job
  BY <1>2 DEF FitInv
<1>3. CASE UNCHANGED allVars
  <2>1. UNCHANGED <<job, pc, out, pmt, input, buffer, pcr, removed>>
    BY <1>3 DEF allVars, decrypt_vars
  <2>2. Collected' = Collected /\ audio_PID' = audio_PID /\ video_PID' = video_PID
    BY <2>1, SamePids
  <2>3. Buffers(buffer, removed, pcr)' <=> Buffers(buffer, removed, pcr)
    BY <2>1, <2>2 DEF Buffers
  <2>4. \A w : /\ Rooms(w, buffer, removed, pcr)' <=> Rooms(w, buffer, removed, pcr)
               /\ Booked(w)' = Booked(w)
    BY <2>1, <2>2 DEF Rooms, Capacity, Booked, Aside
  <2> QED BY <2>1, <2>3, <2>4 DEF FitInv, DecryptInv
<1> QED BY <1>1, <1>2, <1>3 DEF TransportNext

\* The decrypted segment never outgrows its buffer: for packets of any payloads,
\* in any order of components, and adaptation fields on any unit.
THEOREM AlwaysFits == TransportSpec => []Fits
<1>1. FitInv => Fits
  BY DEF FitInv, DecryptInv, Fits, FitsInput
<1> QED BY <1>1, DecryptInit, DecryptKept, PTL DEF TransportSpec, allVars

-----------------------------------------------------------------------------
(* Packets that several steps of a run write                                   *)

\* TsMerge has the operators of the community modules under a name of its own.
LEMMA SameFlatten == \A s : Merge!FlattenSeq(s) = FlattenSeq(s)
BY DEF Merge!FlattenSeq, FlattenSeq

\* What is written behind the packets of a file, list by list.
Writes(G, s, n, T) == /\ \A k \in 0..n : G[k] \in Seq(T)
                      /\ \A k \in 1..n : G[k] = G[k - 1] \o s[k]

Extended(file, s, n, T) ==
  \E G : Writes(G, s, n, T) /\ G[0] = file /\ G[n] = file \o Merge!FlattenSeq(s)

LEMMA WrittenSome ==
  ASSUME NEW n \in Nat \ {0}, NEW T, NEW s, Len(s) = n, SeqsOver(s, n, T), NEW file \in Seq(T)
  PROVE  Extended(file, s, n, T)
<1>1. PICK F : Joins(F, s, n, T) /\ Merge!FlattenSeq(s) = F[n]
  BY Flattened, SameFlatten
<1>2. /\ \A k \in 1..n : F[k] \in Seq(T) /\ s[k] \in Seq(T)
      /\ F[1] = s[1] /\ \A k \in 2..n : F[k] = F[k - 1] \o s[k]
  BY <1>1 DEF Joins, SeqsOver
<1> DEFINE G == [k \in 0..n |-> IF k = 0 THEN file ELSE file \o F[k]]
<1>3. G[0] = file
  OBVIOUS
<1>4. \A k \in 1..n : G[k] = file \o F[k]
  OBVIOUS
<1> HIDE DEF G
<1>5. ASSUME NEW k \in 0..n PROVE G[k] \in Seq(T)
  <2>1. CASE k = 0
    BY <1>3, <2>1
  <2>2. CASE k # 0
    <3>1. k \in 1..n
      BY <2>2
    <3>2. F[k] \in Seq(T) /\ G[k] = file \o F[k]
      BY <1>2, <1>4, <3>1
    <3> QED BY <3>2
  <2> QED BY <2>1, <2>2
<1>6. ASSUME NEW k \in 1..n PROVE G[k] = G[k - 1] \o s[k]
  <2>1. CASE k = 1
    <3>1. 1 \in 1..n /\ 1 - 1 = 0
      OBVIOUS
    <3>2. G[1] = file \o s[1]
      BY <1>2, <1>4, <3>1
    <3> QED BY <1>3, <2>1, <3>1, <3>2
  <2>2. CASE k # 1
    <3>1. k \in 2..n /\ k - 1 \in 1..n
      BY <2>2
    <3> DEFINE x == F[k - 1]
               y == s[k]
    <3>2. x \in Seq(T) /\ y \in Seq(T) /\ F[k] = x \o y
      BY <1>2, <3>1
    <3>3. G[k] = file \o F[k] /\ G[k - 1] = file \o x
      BY <1>4, <3>1
    <3> HIDE DEF x, y
    <3>4. (file \o x) \o y = file \o (x \o y)
      BY <3>2, ConcatAssociative
    <3>5. G[k] = G[k - 1] \o y
      BY <3>2, <3>3, <3>4
    <3> QED BY <3>5 DEF y
  <2> QED BY <2>1, <2>2
<1>7. G[n] = file \o Merge!FlattenSeq(s)
  BY <1>1, <1>4
<1> QED BY <1>3, <1>5, <1>6, <1>7 DEF Writes, Extended

LEMMA Written ==
  ASSUME NEW T, NEW s \in Seq(Seq(T)), NEW file \in Seq(T)
  PROVE  Extended(file, s, Len(s), T)
<1>1. CASE s = <<>>
  <2>1. Merge!FlattenSeq(s) = <<>>
    BY <1>1 DEF Merge!FlattenSeq
  <2> DEFINE G == [k \in {0} |-> file]
  <2>2. G[0] = file /\ Len(s) = 0 /\ file \o <<>> = file
    BY <1>1
  <2>3. Writes(G, s, Len(s), T)
    <3>1. \A k \in 0..Len(s) : k = 0
      BY <2>2
    <3>2. \A k \in 1..Len(s) : FALSE
      BY <2>2
    <3> HIDE DEF G
    <3> QED BY <2>2, <3>1, <3>2 DEF Writes
  <2> QED BY <2>1, <2>2, <2>3 DEF Extended
<1>2. CASE s # <<>>
  <2>1. PICK n \in Nat \ {0} : n = Len(s)
    BY <1>2
  <2>2. SeqsOver(s, n, T)
    BY <2>1 DEF SeqsOver
  <2>3. Extended(file, s, n, T)
    BY <2>1, <2>2, WrittenSome
  <2> QED BY <2>1, <2>3
<1> QED BY <1>1, <1>2

-----------------------------------------------------------------------------
(* Where the packets of a file are from                                        *)

\* The packets of a track in a list are those of the places, each once and in order.
Track(o, from, places) ==
  /\ \A k \in 1..Len(o) : o[k].from = from => Merge!Place(o[k]) \in places
  /\ \A p \in places : \E k \in 1..Len(o) : o[k].from = from /\ Merge!Place(o[k]) = p
  /\ \A k, l \in 1..Len(o) : k < l /\ o[k].from = from /\ o[l].from = from
                               => Merge!Earlier(o[k], o[l])

LEMMA PacketAdded ==
  ASSUME NEW T, NEW o \in Seq(T), NEW e \in T
  PROVE  /\ Append(o, e) \in Seq(T) /\ Append(o, e) = o \o <<e>>
         /\ Len(o) \in Nat /\ Len(Append(o, e)) = Len(o) + 1
         /\ \A k \in 1..Len(o) : Append(o, e)[k] = o[k] /\ k \in 1..(Len(o) + 1) /\ k # Len(o) + 1
         /\ Append(o, e)[Len(o) + 1] = e /\ Len(o) + 1 \in 1..(Len(o) + 1)
         /\ \A k \in 1..(Len(o) + 1) : k \in 1..Len(o) \/ k = Len(o) + 1
OBVIOUS

\* A packet of another track changes nothing.
LEMMA TrackOther ==
  ASSUME NEW T, NEW o \in Seq(T), NEW e \in T, NEW from, NEW places,
         Track(o, from, places), e.from # from
  PROVE  Track(Append(o, e), from, places)
<1> DEFINE r == Append(o, e)
           n == Len(o)
<1>1. /\ Len(r) = n + 1 /\ r[n + 1] = e /\ n \in Nat
      /\ \A k \in 1..n : r[k] = o[k] /\ k \in 1..(n + 1)
      /\ \A k \in 1..(n + 1) : k \in 1..n \/ k = n + 1
  BY PacketAdded
<1>2. /\ \A k \in 1..n : o[k].from = from => Merge!Place(o[k]) \in places
      /\ \A p \in places : \E k \in 1..n : o[k].from = from /\ Merge!Place(o[k]) = p
      /\ \A k, l \in 1..n : k < l /\ o[k].from = from /\ o[l].from = from
                               => Merge!Earlier(o[k], o[l])
  BY DEF Track
<1> HIDE DEF r, n
<1>3. \A k \in 1..(n + 1) : r[k].from = from => k \in 1..n /\ r[k] = o[k]
  BY <1>1
<1>4. \A k \in 1..(n + 1) : r[k].from = from => Merge!Place(r[k]) \in places
  BY <1>2, <1>3
<1>5. \A p \in places : \E k \in 1..(n + 1) : r[k].from = from /\ Merge!Place(r[k]) = p
  BY <1>1, <1>2
<1>6. \A k, l \in 1..(n + 1) : k < l /\ r[k].from = from /\ r[l].from = from
                               => Merge!Earlier(r[k], r[l])
  BY <1>2, <1>3
<1> QED BY <1>1, <1>4, <1>5, <1>6 DEF Track, r

\* A packet behind all of the track adds its place.
LEMMA TrackMore ==
  ASSUME NEW T, NEW o \in Seq(T), NEW e \in T, NEW from, NEW places,
         Track(o, from, places), e.from = from, \A p \in places : Merge!Earlier(p, e)
  PROVE  Track(Append(o, e), from, places \cup {Merge!Place(e)})
<1> DEFINE r == Append(o, e)
           n == Len(o)
           more == places \cup {Merge!Place(e)}
<1>1. /\ Len(r) = n + 1 /\ r[n + 1] = e /\ n \in Nat /\ n + 1 \in 1..(n + 1)
      /\ \A k \in 1..n : r[k] = o[k] /\ k \in 1..(n + 1)
      /\ \A k \in 1..(n + 1) : k \in 1..n \/ k = n + 1
  BY PacketAdded
<1>2. /\ \A k \in 1..n : o[k].from = from => Merge!Place(o[k]) \in places
      /\ \A p \in places : \E k \in 1..n : o[k].from = from /\ Merge!Place(o[k]) = p
      /\ \A k, l \in 1..n : k < l /\ o[k].from = from /\ o[l].from = from
                               => Merge!Earlier(o[k], o[l])
  BY DEF Track
<1> HIDE DEF r, n
<1>4. \A k \in 1..(n + 1) : r[k].from = from => Merge!Place(r[k]) \in more
  BY <1>1, <1>2
<1>5. \A p \in more : \E k \in 1..(n + 1) : r[k].from = from /\ Merge!Place(r[k]) = p
  BY <1>1, <1>2
<1>6. ASSUME NEW k \in 1..(n + 1), NEW l \in 1..(n + 1),
             k < l, r[k].from = from, r[l].from = from
      PROVE  Merge!Earlier(r[k], r[l])
  <2>1. k \in 1..n /\ r[k] = o[k]
    BY <1>1, <1>6
  <2>2. CASE l \in 1..n
    BY <1>1, <1>2, <1>6, <2>1, <2>2
  <2>3. CASE l = n + 1
    <3>1. Merge!Place(o[k]) \in places
      BY <1>2, <1>6, <2>1
    <3>2. Merge!Earlier(Merge!Place(o[k]), e)
      BY <3>1
    <3>3. Merge!Earlier(o[k], e)
      BY <3>2 DEF Merge!Earlier, Merge!Place
    <3> QED BY <1>1, <2>1, <2>3, <3>3
  <2> QED BY <1>1, <2>2, <2>3
<1> QED BY <1>1, <1>4, <1>5, <1>6 DEF Track, r

-----------------------------------------------------------------------------
(* What of a segment has been read                                             *)

\* The places up to the m-th packet of segment n.
UpTo(places, n, m) == {p \in places : p.segment < n \/ p.at <= m}

Positions(n) == [segment : 0..n, at : Nat \ {0}]

LEMMA NotWanted ==
  ASSUME NEW n \in Nat, NEW m \in Nat, NEW places \in SUBSET Positions(n),
         [segment |-> n, at |-> m + 1] \notin places
  PROVE  UpTo(places, n, m + 1) = UpTo(places, n, m)
<1>1. ASSUME NEW p \in places, p.segment < n \/ p.at <= m + 1
      PROVE  p.segment < n \/ p.at <= m
  <2>1. p.segment \in 0..n /\ p.at \in Nat \ {0} /\ p = [segment |-> p.segment, at |-> p.at]
    BY DEF Positions
  <2>2. ~(p.segment = n /\ p.at = m + 1)
    BY <2>1
  <2> QED BY <1>1, <2>1, <2>2
<1>2. ASSUME NEW p \in places, p.segment < n \/ p.at <= m
      PROVE  p.segment < n \/ p.at <= m + 1
  BY <1>2 DEF Positions
<1> QED BY <1>1, <1>2 DEF UpTo

LEMMA Wanted ==
  ASSUME NEW n \in Nat, NEW m \in Nat, NEW places \in SUBSET Positions(n), NEW e,
         e.segment = n, e.at = m + 1, [segment |-> n, at |-> m + 1] \in places
  PROVE  /\ UpTo(places, n, m + 1) = UpTo(places, n, m) \cup {Merge!Place(e)}
         /\ \A p \in UpTo(places, n, m) : Merge!Earlier(p, e)
<1>1. ASSUME NEW p \in places, p.segment < n \/ p.at <= m + 1
      PROVE  p.segment < n \/ p.at <= m \/ p = [segment |-> n, at |-> m + 1]
  <2>1. p.segment \in 0..n /\ p.at \in Nat \ {0} /\ p = [segment |-> p.segment, at |-> p.at]
    BY DEF Positions
  <2> QED BY <1>1, <2>1
<1>2. ASSUME NEW p \in places, p.segment < n \/ p.at <= m
      PROVE  (p.segment < n \/ p.at <= m + 1) /\ Merge!Earlier(p, e)
  BY <1>2 DEF Positions, Merge!Earlier
<1>3. Merge!Place(e) = [segment |-> n, at |-> m + 1]
  BY DEF Merge!Place
<1>4. [segment |-> n, at |-> m + 1].at <= m + 1
  OBVIOUS
<1>5. ASSUME NEW p
      PROVE  p \in UpTo(places, n, m + 1) <=> p \in UpTo(places, n, m) \/ p = Merge!Place(e)
  BY <1>1, <1>2, <1>3, <1>4 DEF UpTo
<1>6. \A p \in UpTo(places, n, m) : Merge!Earlier(p, e)
  BY <1>2 DEF UpTo
<1> QED BY <1>5, <1>6

-----------------------------------------------------------------------------
(* The program maps of a file                                                  *)

LEMMA FirstOfSome ==
  ASSUME NEW I \in SUBSET Nat, I # {}
  PROVE  Merge!Min(I) \in I /\ \A y \in I : Merge!Min(I) <= y
<1>1. \E x \in I : \A y \in I : x <= y
  BY LeastNat
<1> QED BY <1>1 DEF Merge!Min

LEMMA MapPacketIs ==
  ASSUME NEW s, Len(s) \in Nat, Merge!PmtAt(s) # 0
  PROVE  /\ Merge!PmtAt(s) \in 1..Len(s)
         /\ s[Merge!PmtAt(s)].pid \notin {PAT, NULL} /\ s[Merge!PmtAt(s)].map # NULL
<1> DEFINE I == {k \in 1..Len(s) : s[k].pid \notin {PAT, NULL} \cup OtherSections /\ s[k].map # NULL}
<1>1. Merge!PmtAt(s) = IF I # {} THEN Merge!Min(I) ELSE 0
  BY DEF Merge!PmtAt, Merge!SelectInSeq
<1>2. I \in SUBSET Nat
  OBVIOUS
<1>3. \A k \in I : k \in 1..Len(s) /\ s[k].pid \notin {PAT, NULL} /\ s[k].map # NULL
  OBVIOUS
<1> HIDE DEF I
<1>4. Merge!PmtAt(s) \in I
  BY <1>1, <1>2, FirstOfSome
<1> QED BY <1>3, <1>4

\* The first position of a PID in a map.
FirstAt(x, map, pid) ==
  x \in 1..Len(map) /\ map[x] = pid /\ \A y \in 1..Len(map) : map[y] = pid => x <= y

PositionOf(pid, map) == LET I == {k \in 1..Len(map) : map[k] = pid}
                        IN IF I # {} THEN Merge!Min(I) ELSE 0

LEMMA ComponentIs ==
  ASSUME NEW map, Len(map) \in Nat, NEW pid, NEW x, x = PositionOf(pid, map)
  PROVE  \/ x = 0 /\ \A y \in 1..Len(map) : map[y] # pid
         \/ x # 0 /\ FirstAt(x, map, pid)
<1> DEFINE I == {k \in 1..Len(map) : map[k] = pid}
<1>1. x = IF I # {} THEN Merge!Min(I) ELSE 0
  BY DEF PositionOf
<1>2. I \in SUBSET Nat
  OBVIOUS
<1>3. \A k : k \in I <=> k \in 1..Len(map) /\ map[k] = pid
  OBVIOUS
<1> HIDE DEF I
<1>4. CASE I = {}
  BY <1>1, <1>3, <1>4
<1>5. CASE I # {}
  <2>1. x \in I /\ \A y \in I : x <= y
    BY <1>1, <1>2, <1>5, FirstOfSome
  <2>2. x # 0
    BY <1>3, <2>1
  <2> QED BY <1>3, <2>1, <2>2 DEF FirstAt
<1> QED BY <1>4, <1>5

\* A context that merge_pmt has made of the maps of two segments.
FromMaps(c) == \E v \in VideoSegments, a \in AudioSegments :
                 Merge!Mergeable(v, a) /\ c = Merge!Merged(v, a)

New(c) == Merge!NewPids(c.pmt1, c.pmt2)

\* The new PIDs differ from each other, they begin behind the last of the video's
\* map unless they run over the greatest PID, and the merged map ends with them.
CountedUp(pid, c) ==
  LET first == Merge!Last(c.pmt1) + 23
  IN pid >= first \/ first + Len(c.pmt2) > PidSpace

Sound(c) ==
  /\ c.map_pid \notin {PAT, NULL} /\ c.valid
  /\ Len(c.pmt2) \in Nat /\ DOMAIN c.pmt2 = 1..Len(c.pmt2)
  /\ \A x \in 1..Len(c.pmt2) :
       /\ \A y \in 1..Len(c.pmt2) : New(c)[x] = New(c)[y] => x = y
       /\ CountedUp(New(c)[x], c)
       /\ Len(c.pmt) - Len(c.pmt2) + x \in DOMAIN c.pmt
       /\ c.pmt[Len(c.pmt) - Len(c.pmt2) + x] = New(c)[x]

LEMMA Modulo ==
  ASSUME NEW m \in Nat \ {0}, NEW a \in Nat, NEW b \in Nat, a % m = b % m, a <= b, b - a < m
  PROVE  a = b
<1> DEFINE p == a \div m
           q == b \div m
<1>1. /\ p \in Nat /\ q \in Nat /\ a = m * p + (a % m) /\ b = m * q + (b % m)
      /\ a % m \in Nat /\ a % m < m
  OBVIOUS
<1> HIDE DEF p, q
<1>2. m * p \in Nat /\ m * q \in Nat /\ m * q - m * p < m /\ m * q >= m * p
  BY <1>1
<1>3. CASE q = p
  BY <1>1, <1>3
<1>4. CASE q < p
  <2>1. PICK d \in Nat \ {0} : p = q + d
    <3>1. p - q \in Nat \ {0} /\ p = q + (p - q)
      BY <1>1, <1>4
    <3> QED BY <3>1
  <2>2. m * p = m * q + m * d /\ m * d \in Nat /\ m * d >= m
    BY <1>1, <2>1
  <2> QED BY <1>2, <2>2
<1>5. CASE q > p
  <2>1. PICK d \in Nat \ {0} : q = p + d
    <3>1. q - p \in Nat \ {0} /\ q = p + (q - p)
      BY <1>1, <1>5
    <3> QED BY <3>1
  <2>2. m * q = m * p + m * d /\ m * d \in Nat /\ m * d >= m
    BY <1>1, <2>1
  <2> QED BY <1>2, <2>2
<1> QED BY <1>1, <1>3, <1>4, <1>5

LEMMA EndOfJoin ==
  ASSUME NEW T, NEW s \in Seq(T), NEW t \in Seq(T), NEW x \in 1..Len(t)
  PROVE  /\ Len(s \o t) = Len(s) + Len(t) /\ Len(s) + x \in 1..(Len(s) + Len(t))
         /\ (s \o t)[Len(s) + x] = t[x]
OBVIOUS

LEMMA ContextIsSound ==
  ASSUME NEW c, FromMaps(c)
  PROVE  Sound(c)
<1>1. PICK v \in VideoSegments, a \in AudioSegments :
        Merge!Mergeable(v, a) /\ c = Merge!Merged(v, a)
  BY DEF FromMaps
<1> DEFINE new == Merge!NewPids(Merge!Pmt(v), Merge!Pmt(a))
           n1 == Len(Merge!Pmt(v))
           n2 == Len(Merge!Pmt(a))
           Pids == 0..(PidSpace - 1)
<1>2. Len(v) \in Nat /\ Len(a) \in Nat
  BY SegmentsAssumption
<1>3. /\ Merge!PmtAt(v) \in 1..Len(v) /\ Merge!PmtAt(a) \in 1..Len(a)
      /\ v[Merge!PmtAt(v)].pid \notin {PAT, NULL}
      /\ v[Merge!PmtAt(v)].map # NULL /\ a[Merge!PmtAt(a)].map # NULL
  BY <1>1, <1>2, MapPacketIs DEF Merge!Mergeable
<1>4. Merge!Pmt(v) \in Seq(Pids) \ {<<>>} /\ Merge!Pmt(a) \in Seq(Pids) \ {<<>>}
  BY <1>3, MapsAssumption DEF Merge!Pmt
<1>5. /\ c.valid /\ c.map_pid = v[Merge!PmtAt(v)].pid
      /\ c.pmt1 = Merge!Pmt(v) /\ c.pmt2 = Merge!Pmt(a) /\ c.pmt = Merge!Pmt(v) \o new
  BY <1>1 DEF Merge!Merged
<1>6. n1 \in Nat \ {0} /\ n2 \in Nat /\ n1 + n2 < MaxComponents /\ DOMAIN c.pmt2 = 1..n2
      /\ MaxComponents <= PidSpace /\ PidSpace \in Nat /\ MaxComponents \in Nat
  BY <1>1, <1>4, <1>5, MapsAssumption DEF Merge!Mergeable
<1>7. New(c) = new
  BY <1>5 DEF New
<1>8. PICK last \in Nat : last = Merge!Last(Merge!Pmt(v))
  BY <1>4, <1>6 DEF Merge!Last
<1>9. new = [x \in 1..n2 |-> (last + 23 + x - 1) % PidSpace]
  BY <1>5, <1>6, <1>8 DEF Merge!NewPids, Merge!Gap
<1>10. ASSUME NEW x \in 1..n2
       PROVE  CountedUp(new[x], c)
  <2>1. Merge!Last(c.pmt1) = last /\ Len(c.pmt2) = n2
    BY <1>5, <1>8
  <2>2. n2 \in Nat /\ PidSpace \in Nat
    BY <1>6
  <2>3. new[x] = (last + 23 + x - 1) % PidSpace
    BY <1>9
  <2> HIDE DEF n2, new
  <2>4. x \in Nat /\ x >= 1 /\ x <= n2
    BY <2>2
  <2>5. CASE last + 23 + n2 <= PidSpace
    <3>1. last + 23 + x - 1 \in 0..(PidSpace - 1) /\ last + 23 + x - 1 >= last + 23
      BY <2>2, <2>4, <2>5
    <3>2. new[x] = last + 23 + x - 1
      <4> DEFINE k == last + 23 + x - 1
      <4>1. k \in 0..(PidSpace - 1) /\ new[x] = k % PidSpace
        BY <2>3, <3>1
      <4> HIDE DEF k
      <4>2. new[x] = k
        BY <2>2, <4>1
      <4> QED BY <4>2 DEF k
    <3> QED BY <2>1, <3>1, <3>2 DEF CountedUp
  <2>6. CASE ~(last + 23 + n2 <= PidSpace)
    BY <2>1, <2>2, <2>6 DEF CountedUp
  <2> QED BY <2>5, <2>6
<1>12. ASSUME NEW x \in 1..n2, NEW y \in 1..n2, new[x] = new[y]
       PROVE  x = y
  <2> DEFINE s == last + 23 + x - 1
             t == last + 23 + y - 1
  <2>0. s \in Nat /\ t \in Nat /\ t - s = y - x /\ (s = t => x = y)
    <3>1. x \in Nat /\ y \in Nat /\ x >= 1 /\ y >= 1
      <4>1. n2 \in Nat
        BY <1>6
      <4> HIDE DEF n2
      <4> QED BY <4>1
    <3> QED BY <3>1
  <2>1. s % PidSpace = t % PidSpace
    BY <1>9, <1>12
  <2>2. y - x < PidSpace /\ x - y < PidSpace /\ PidSpace \in Nat \ {0}
    BY <1>6
  <2> HIDE DEF s, t
  <2>3. s = t
    <3>1. CASE s <= t
      BY <2>0, <2>1, <2>2, <3>1, Modulo
    <3>2. CASE t <= s
      <4>1. t % PidSpace = s % PidSpace /\ s - t < PidSpace
        BY <2>0, <2>1, <2>2
      <4> QED BY <2>0, <2>2, <3>2, <4>1, Modulo
    <3> QED BY <2>0, <3>1, <3>2
  <2> QED BY <2>0, <2>3
<1>13. new \in Seq(Pids) /\ Len(new) = n2
  <2>1. \A x \in 1..n2 : new[x] \in Pids
    <3> SUFFICES ASSUME NEW x \in 1..n2 PROVE new[x] \in Pids
      OBVIOUS
    <3>1. n2 \in Nat /\ PidSpace \in Nat \ {0} /\ new[x] = (last + 23 + x - 1) % PidSpace
      BY <1>6, <1>9
    <3> HIDE DEF new, n2
    <3>2. last + 23 + x - 1 \in Nat
      BY <1>8, <3>1
    <3> QED BY <3>1, <3>2
  <2> QED BY <1>6, <1>9, <2>1
<1>14. ASSUME NEW x \in 1..n2
       PROVE  Len(c.pmt) - n2 + x \in DOMAIN c.pmt /\ c.pmt[Len(c.pmt) - n2 + x] = new[x]
  <2> DEFINE m == Merge!Pmt(v)
  <2>1. m \in Seq(Pids) /\ Len(m) = n1 /\ c.pmt = m \o new
    BY <1>4, <1>5
  <2> HIDE DEF m, new, n1, n2, Pids
  <2>2. Len(c.pmt) = n1 + n2 /\ n1 + x \in 1..Len(c.pmt) /\ c.pmt[n1 + x] = new[x]
    <3>1. x \in 1..Len(new) /\ new \in Seq(Pids) /\ Len(new) = n2
      BY <1>13
    <3>2. Len(m \o new) = n1 + n2 /\ n1 + x \in 1..(n1 + n2) /\ (m \o new)[n1 + x] = new[x]
      BY <2>1, <3>1, EndOfJoin
    <3> QED BY <2>1, <3>2
  <2>3. Len(c.pmt) - n2 + x = n1 + x /\ DOMAIN c.pmt = 1..Len(c.pmt)
    BY <1>6, <1>13, <2>1, <2>2
  <2> QED BY <2>2, <2>3
<1> HIDE DEF new
<1> QED BY <1>3, <1>5, <1>6, <1>7, <1>10, <1>12, <1>14 DEF Sound

-----------------------------------------------------------------------------
(* A file: g gives the segments in it by their number, n is the last of them,  *)
(* c the context, and m and a packets of its video and audio have been read.   *)

Pairs == [video : VideoSegments, audio : AudioSegments]

Numbered(g, n) == n \in Nat /\ DOMAIN g \subseteq 0..n /\ \A q \in DOMAIN g : g[q] \in Pairs

VideoWanted(g, c) ==
  {p \in [segment : DOMAIN g, at : Nat \ {0}] :
     /\ p.at \in 1..Len(g[p.segment].video)
     /\ g[p.segment].video[p.at].pid \notin {NULL, c.map_pid}}
OfComponent(pid, c) == \E x \in 1..Len(c.pmt2) : pid = c.pmt2[x]
AudioWanted(g, c) ==
  {p \in [segment : DOMAIN g, at : Nat \ {0}] :
     /\ p.at \in 1..Len(g[p.segment].audio)
     /\ OfComponent(g[p.segment].audio[p.at].pid, c)}

Known(p, g, c) ==
  /\ p.segment \in DOMAIN g /\ p.from \in {"video", "audio", "map"}
  /\ p.from = "video" => p.pid = g[p.segment].video[p.at].pid
  /\ p.from = "audio" => \E x : /\ FirstAt(x, c.pmt2, g[p.segment].audio[p.at].pid)
                                /\ p.pid = New(c)[x]
  /\ p.from = "map" => p.pid = c.map_pid /\ p.lists = c.pmt

\* The merged map of a segment in a list, if it has one.
IsMap(p, q) == p.from = "map" /\ p.segment = q

\* A segment has one map at most, and it has one if it starts with a program
\* association; no second packet of it is then ahead of the map.
Announced(o, g, q) ==
  /\ \A k, l \in 1..Len(o) : IsMap(o[k], q) /\ IsMap(o[l], q) => k = l
  /\ g[q].video[1].pid = PAT =>
       \A k, x \in 1..Len(o) :
         /\ k < x /\ o[k].segment = q /\ o[x].segment = q
         /\ o[k].from # "map" /\ o[x].from # "map"
         => \E l \in 1..Len(o) : IsMap(o[l], q) /\ l < x

\* The map of a segment being read, and of one that has been read.
Reading(o, g, n, m) ==
  /\ (\E k \in 1..Len(o) : IsMap(o[k], n)) => \E at \in 1..m : g[n].video[at].pid = PAT
  /\ g[n].video[1].pid = PAT /\ m # 0 => \E k \in 1..Len(o) : IsMap(o[k], n)
  /\ m = 0 => \A k \in 1..Len(o) : o[k].segment # n

Good(o, g, n, c, m, a) ==
  /\ Track(o, "video", UpTo(VideoWanted(g, c), n, m))
  /\ Track(o, "audio", UpTo(AudioWanted(g, c), n, a))
  /\ \A k \in 1..Len(o) : Known(o[k], g, c)
  /\ \A q \in DOMAIN g : Announced(o, g, q)
  /\ n \in DOMAIN g => Reading(o, g, n, m)

LEMMA WantedAre ==
  ASSUME NEW g, NEW n, NEW c, Numbered(g, n)
  PROVE  /\ VideoWanted(g, c) \in SUBSET Positions(n) /\ AudioWanted(g, c) \in SUBSET Positions(n)
         /\ \A q, at : [segment |-> q, at |-> at] \in VideoWanted(g, c) <=>
                         /\ q \in DOMAIN g /\ at \in Nat \ {0} /\ at \in 1..Len(g[q].video)
                         /\ g[q].video[at].pid \notin {NULL, c.map_pid}
         /\ \A q, at : [segment |-> q, at |-> at] \in AudioWanted(g, c) <=>
                         /\ q \in DOMAIN g /\ at \in Nat \ {0} /\ at \in 1..Len(g[q].audio)
                         /\ OfComponent(g[q].audio[at].pid, c)
<1>1. /\ [segment : DOMAIN g, at : Nat \ {0}] \in SUBSET Positions(n)
  BY DEF Numbered, Positions
<1>2. /\ VideoWanted(g, c) \in SUBSET Positions(n) /\ AudioWanted(g, c) \in SUBSET Positions(n)
  BY <1>1 DEF VideoWanted, AudioWanted
<1>3. ASSUME NEW q, NEW at
      PROVE  /\ [segment |-> q, at |-> at] \in [segment : DOMAIN g, at : Nat \ {0}]
                   <=> q \in DOMAIN g /\ at \in Nat \ {0}
             /\ [segment |-> q, at |-> at].segment = q /\ [segment |-> q, at |-> at].at = at
  OBVIOUS
<1> QED BY <1>2, <1>3 DEF VideoWanted, AudioWanted

\* One packet more of segment n, when it is not the map.
LEMMA AnnouncedOther ==
  ASSUME NEW T, NEW o \in Seq(T), NEW e \in T, NEW g, NEW q, Announced(o, g, q),
         e.from # "map" \/ e.segment # q,
         g[q].video[1].pid = PAT /\ e.segment = q /\ e.from # "map" =>
           \/ \E k \in 1..Len(o) : IsMap(o[k], q)
           \/ \A k \in 1..Len(o) : o[k].segment # q
  PROVE  Announced(Append(o, e), g, q)
<1> DEFINE r == Append(o, e)
           n == Len(o)
<1>1. /\ Len(r) = n + 1 /\ r[n + 1] = e /\ n \in Nat /\ n + 1 \in 1..(n + 1)
      /\ \A k \in 1..n : r[k] = o[k] /\ k \in 1..(n + 1) /\ k < n + 1
      /\ \A k \in 1..(n + 1) : k \in 1..n \/ k = n + 1
  BY PacketAdded
<1> HIDE DEF r, n
<1>2. \A k \in 1..(n + 1) : IsMap(r[k], q) <=> k \in 1..n /\ IsMap(o[k], q)
  BY <1>1 DEF IsMap, n
<1>3. \A k, l \in 1..(n + 1) : IsMap(r[k], q) /\ IsMap(r[l], q) => k = l
  BY <1>1, <1>2 DEF Announced, n
<1>4. ASSUME g[q].video[1].pid = PAT, NEW k \in 1..(n + 1), NEW x \in 1..(n + 1),
             k < x, r[k].segment = q, r[x].segment = q, r[k].from # "map", r[x].from # "map"
      PROVE  \E l \in 1..(n + 1) : IsMap(r[l], q) /\ l < x
  <2>1. k \in 1..n /\ r[k] = o[k]
    BY <1>1, <1>4
  <2>2. CASE x \in 1..n
    <3>1. \E l \in 1..n : IsMap(o[l], q) /\ l < x
      BY <1>1, <1>4, <2>1, <2>2 DEF Announced, n
    <3> QED BY <1>1, <3>1
  <2>3. CASE x = n + 1
    <3>1. PICK l \in 1..n : IsMap(o[l], q)
      BY <1>1, <1>4, <2>1, <2>3 DEF n
    <3> QED BY <1>1, <2>3, <3>1
  <2> QED BY <1>1, <2>2, <2>3
<1> QED BY <1>1, <1>3, <1>4 DEF Announced, r

\* The map, behind a list without one.
LEMMA AnnouncedMap ==
  ASSUME NEW T, NEW o \in Seq(T), NEW e \in T, NEW g, NEW q, Announced(o, g, q), IsMap(e, q),
         \A k \in 1..Len(o) : ~IsMap(o[k], q)
  PROVE  Announced(Append(o, e), g, q)
<1> DEFINE r == Append(o, e)
           n == Len(o)
<1>1. /\ Len(r) = n + 1 /\ r[n + 1] = e /\ n \in Nat /\ n + 1 \in 1..(n + 1)
      /\ \A k \in 1..n : r[k] = o[k] /\ k \in 1..(n + 1) /\ k < n + 1
      /\ \A k \in 1..(n + 1) : k \in 1..n \/ k = n + 1
  BY PacketAdded
<1> HIDE DEF r, n
<1>2. \A k \in 1..(n + 1) : IsMap(r[k], q) => k = n + 1
  BY <1>1 DEF n
<1>3. ASSUME g[q].video[1].pid = PAT, NEW k \in 1..(n + 1), NEW x \in 1..(n + 1),
             k < x, r[k].segment = q, r[x].segment = q, r[k].from # "map", r[x].from # "map"
      PROVE  \E l \in 1..(n + 1) : IsMap(r[l], q) /\ l < x
  <2>1. k \in 1..n /\ r[k] = o[k] /\ x \in 1..n /\ r[x] = o[x]
    BY <1>1, <1>3 DEF IsMap
  <2>2. \E l \in 1..n : IsMap(o[l], q) /\ l < x
    BY <1>3, <2>1 DEF Announced, n
  <2> QED BY <1>1, <2>2
<1> QED BY <1>1, <1>2, <1>3 DEF Announced, r

LEMMA MapsWith ==
  ASSUME NEW T, NEW o \in Seq(T), NEW e \in T, NEW q
  PROVE  (\E k \in 1..Len(Append(o, e)) : IsMap(Append(o, e)[k], q))
           <=> (\E k \in 1..Len(o) : IsMap(o[k], q)) \/ IsMap(e, q)
<1> DEFINE r == Append(o, e)
           n == Len(o)
<1>1. /\ Len(r) = n + 1 /\ r[n + 1] = e /\ n + 1 \in 1..(n + 1)
      /\ \A k \in 1..n : r[k] = o[k] /\ k \in 1..(n + 1)
      /\ \A k \in 1..(n + 1) : k \in 1..n \/ k = n + 1
  BY PacketAdded
<1> HIDE DEF r, n
<1>2. (\E k \in 1..(n + 1) : IsMap(r[k], q)) <=> (\E k \in 1..n : IsMap(o[k], q)) \/ IsMap(e, q)
  BY <1>1
<1> QED BY <1>1, <1>2 DEF r, n

LEMMA KnownWith ==
  ASSUME NEW T, NEW o \in Seq(T), NEW e \in T, NEW g, NEW c,
         \A k \in 1..Len(o) : Known(o[k], g, c), Known(e, g, c)
  PROVE  \A k \in 1..Len(Append(o, e)) : Known(Append(o, e)[k], g, c)
<1> DEFINE r == Append(o, e)
           n == Len(o)
<1>1. /\ Len(r) = n + 1 /\ r[n + 1] = e
      /\ \A k \in 1..n : r[k] = o[k]
      /\ \A k \in 1..(n + 1) : k \in 1..n \/ k = n + 1
  BY PacketAdded
<1>2. \A k \in 1..n : Known(o[k], g, c)
  OBVIOUS
<1> HIDE DEF r, n
<1>3. \A k \in 1..(n + 1) : Known(r[k], g, c)
  BY <1>1, <1>2
<1> QED BY <1>1, <1>3 DEF r

\* The packet that a step reads.
VideoPacket(e, g, n, m) ==
  e.from = "video" /\ e.segment = n /\ e.at = m + 1 /\ e.pid = g[n].video[m + 1].pid

FirstPat(g, n, m) ==
  g[n].video[m + 1].pid = PAT /\ \A k \in 1..m : g[n].video[k].pid # PAT

LEMMA VideoSkipped ==
  ASSUME NEW g, NEW n, Numbered(g, n), n \in DOMAIN g, NEW c, Sound(c), NEW o,
         NEW m \in Nat, NEW a, Good(o, g, n, c, m, a), g[n].video[m + 1].pid \in {NULL, c.map_pid}
  PROVE  Good(o, g, n, c, m + 1, a)
<1>1. [segment |-> n, at |-> m + 1] \notin VideoWanted(g, c)
      /\ VideoWanted(g, c) \in SUBSET Positions(n) /\ n \in Nat
  BY WantedAre DEF Numbered
<1>2. UpTo(VideoWanted(g, c), n, m + 1) = UpTo(VideoWanted(g, c), n, m)
  BY <1>1, NotWanted
<1>3. Reading(o, g, n, m)
  BY DEF Good
<1>4. g[n].video[m + 1].pid # PAT
  BY MapsAssumption DEF Sound
<1>5. m + 1 # 0 /\ (m = 0 => m + 1 = 1) /\ \A at \in 1..m : at \in 1..(m + 1)
  OBVIOUS
<1>6. m = 0 => g[n].video[1].pid # PAT
  BY <1>4, <1>5
<1>7. Reading(o, g, n, m + 1)
  BY <1>3, <1>5, <1>6 DEF Reading
<1> QED BY <1>2, <1>7 DEF Good

LEMMA VideoCopied ==
  ASSUME NEW g, NEW n, Numbered(g, n), n \in DOMAIN g, NEW c, Sound(c), NEW T, NEW o \in Seq(T),
         NEW m \in Nat, m + 1 \in 1..Len(g[n].video), NEW a, Good(o, g, n, c, m, a),
         g[n].video[m + 1].pid \notin {NULL, c.map_pid},
         NEW e \in T, VideoPacket(e, g, n, m)
  PROVE  /\ Track(Append(o, e), "video", UpTo(VideoWanted(g, c), n, m + 1))
         /\ Track(Append(o, e), "audio", UpTo(AudioWanted(g, c), n, a))
         /\ \A k \in 1..Len(Append(o, e)) : Known(Append(o, e)[k], g, c)
         /\ \A q \in DOMAIN g : Announced(Append(o, e), g, q)
<1>1. [segment |-> n, at |-> m + 1] \in VideoWanted(g, c)
      /\ VideoWanted(g, c) \in SUBSET Positions(n) /\ n \in Nat
  <2>1. m + 1 \in Nat \ {0}
    OBVIOUS
  <2>2. [segment |-> n, at |-> m + 1] \in VideoWanted(g, c) <=>
          /\ n \in DOMAIN g /\ m + 1 \in Nat \ {0} /\ m + 1 \in 1..Len(g[n].video)
          /\ g[n].video[m + 1].pid \notin {NULL, c.map_pid}
    BY WantedAre
  <2>3. VideoWanted(g, c) \in SUBSET Positions(n) /\ n \in Nat
    BY WantedAre DEF Numbered
  <2> QED BY <2>1, <2>2, <2>3
<1>2. /\ e.from = "video" /\ e.segment = n /\ e.at = m + 1 /\ e.pid = g[n].video[m + 1].pid
  BY DEF VideoPacket
<1> DEFINE places == UpTo(VideoWanted(g, c), n, m)
<1>3. /\ UpTo(VideoWanted(g, c), n, m + 1) = places \cup {Merge!Place(e)}
      /\ \A p \in places : Merge!Earlier(p, e)
  <2> DEFINE all == VideoWanted(g, c)
  <2>1. [segment |-> n, at |-> m + 1] \in all /\ all \in SUBSET Positions(n) /\ n \in Nat
    BY <1>1
  <2> HIDE DEF all
  <2>2. /\ UpTo(all, n, m + 1) = UpTo(all, n, m) \cup {Merge!Place(e)}
        /\ \A p \in UpTo(all, n, m) : Merge!Earlier(p, e)
    BY <1>2, <2>1, Wanted
  <2> QED BY <2>2 DEF all
<1>4. Track(o, "video", places) /\ Track(o, "audio", UpTo(AudioWanted(g, c), n, a))
  BY DEF Good
<1> HIDE DEF places
<1>5. Track(Append(o, e), "video", places \cup {Merge!Place(e)})
  BY <1>2, <1>3, <1>4, TrackMore
<1>6. e.from # "audio" /\ e.from # "map"
  BY <1>2
<1>7. Track(Append(o, e), "audio", UpTo(AudioWanted(g, c), n, a))
  BY <1>4, <1>6, TrackOther
<1>8. Known(e, g, c)
  BY <1>2, <1>6 DEF Known
<1>9. \A k \in 1..Len(Append(o, e)) : Known(Append(o, e)[k], g, c)
  BY <1>8, KnownWith DEF Good
<1>10. ASSUME NEW q \in DOMAIN g
       PROVE  Announced(Append(o, e), g, q)
  <2>1. Announced(o, g, q) /\ Reading(o, g, n, m)
    BY DEF Good
  <2>2. g[q].video[1].pid = PAT /\ e.segment = q =>
           \/ \E k \in 1..Len(o) : IsMap(o[k], q)
           \/ \A k \in 1..Len(o) : o[k].segment # q
    BY <1>2, <2>1 DEF Reading
  <2> QED BY <1>6, <2>1, <2>2, AnnouncedOther
<1> QED BY <1>3, <1>5, <1>7, <1>9, <1>10

LEMMA VideoKeptGood ==
  ASSUME NEW g, NEW n, Numbered(g, n), n \in DOMAIN g, NEW c, Sound(c), NEW T, NEW o \in Seq(T),
         NEW m \in Nat, m + 1 \in 1..Len(g[n].video), NEW a, Good(o, g, n, c, m, a),
         g[n].video[m + 1].pid \notin {NULL, c.map_pid}, ~FirstPat(g, n, m),
         NEW e \in T, VideoPacket(e, g, n, m)
  PROVE  Good(Append(o, e), g, n, c, m + 1, a)
<1>1. e.from # "map"
  BY DEF VideoPacket
<1>2. Reading(o, g, n, m)
  BY DEF Good
<1>3. m + 1 # 0 /\ (m = 0 => m + 1 = 1) /\ \A at \in 1..m : at \in 1..(m + 1)
  OBVIOUS
<1>4. m = 0 => g[n].video[1].pid # PAT
  <2>1. m = 0 => \A k \in 1..m : FALSE
    OBVIOUS
  <2> QED BY <1>3, <2>1 DEF FirstPat
<1> DEFINE has(s) == \E k \in 1..Len(s) : IsMap(s[k], n)
<1>5. has(Append(o, e)) <=> has(o)
  <2>1. ~IsMap(e, n)
    BY <1>1 DEF IsMap
  <2> QED BY <2>1, MapsWith
<1>6. has(o) => \E at \in 1..m : g[n].video[at].pid = PAT
  BY <1>2 DEF Reading
<1>7. g[n].video[1].pid = PAT => has(o)
  BY <1>2, <1>4 DEF Reading
<1> HIDE DEF has
<1>8. has(Append(o, e)) => \E at \in 1..(m + 1) : g[n].video[at].pid = PAT
  BY <1>3, <1>5, <1>6
<1>9. Reading(Append(o, e), g, n, m + 1)
  BY <1>3, <1>5, <1>7, <1>8 DEF Reading, has
<1> QED BY <1>9, VideoCopied DEF Good

LEMMA VideoMapGood ==
  ASSUME NEW g, NEW n, Numbered(g, n), n \in DOMAIN g, NEW c, Sound(c), NEW T, NEW o \in Seq(T),
         NEW m \in Nat, m + 1 \in 1..Len(g[n].video), NEW a, Good(o, g, n, c, m, a),
         g[n].video[m + 1].pid \notin {NULL, c.map_pid}, FirstPat(g, n, m),
         NEW e \in T, VideoPacket(e, g, n, m), NEW f \in T, IsMap(f, n), Known(f, g, c)
  PROVE  Good(Append(Append(o, e), f), g, n, c, m + 1, a)
<1>1. e.from # "map" /\ f.from = "map" /\ f.from # "video" /\ f.from # "audio" /\ f.segment = n
  BY DEF VideoPacket, IsMap
<1>2. Reading(o, g, n, m)
  BY DEF Good
<1>3. m + 1 # 0 /\ m + 1 \in 1..(m + 1)
  OBVIOUS
<1> DEFINE has(s, q) == \E k \in 1..Len(s) : IsMap(s[k], q)
           r == Append(o, e)
           t == Append(r, f)
<1>4. r \in Seq(T)
  OBVIOUS
<1>5. /\ Track(r, "video", UpTo(VideoWanted(g, c), n, m + 1))
      /\ Track(r, "audio", UpTo(AudioWanted(g, c), n, a))
      /\ \A k \in 1..Len(r) : Known(r[k], g, c)
      /\ \A q \in DOMAIN g : Announced(r, g, q)
  BY VideoCopied
<1>6. ~has(r, n)
  <2>1. ~IsMap(e, n)
    BY <1>1 DEF IsMap
  <2>2. ~has(o, n)
    BY <1>2 DEF Reading, FirstPat
  <2>3. has(r, n) <=> has(o, n) \/ IsMap(e, n)
    BY MapsWith
  <2> HIDE DEF has, r
  <2> QED BY <2>1, <2>2, <2>3
<1>7. has(t, n)
  <2>1. has(t, n) <=> has(r, n) \/ IsMap(f, n)
    <3> HIDE DEF r
    <3> QED BY <1>4, MapsWith
  <2> HIDE DEF has, t, r
  <2> QED BY <2>1
<1> HIDE DEF r
<1>8. Track(t, "video", UpTo(VideoWanted(g, c), n, m + 1))
  BY <1>1, <1>4, <1>5, TrackOther
<1>9. Track(t, "audio", UpTo(AudioWanted(g, c), n, a))
  BY <1>1, <1>4, <1>5, TrackOther
<1>10. \A k \in 1..Len(t) : Known(t[k], g, c)
  BY <1>4, <1>5, KnownWith
<1>11. ASSUME NEW q \in DOMAIN g
       PROVE  Announced(t, g, q)
  <2>1. Announced(r, g, q)
    BY <1>5
  <2>2. CASE q = n
    BY <1>4, <1>6, <2>1, <2>2, AnnouncedMap
  <2>3. CASE q # n
    BY <1>1, <1>4, <2>1, <2>3, AnnouncedOther
  <2> QED BY <2>2, <2>3
<1>12. Reading(t, g, n, m + 1)
  <2>1. \E at \in 1..(m + 1) : g[n].video[at].pid = PAT
    BY <1>3 DEF FirstPat
  <2> HIDE DEF t
  <2> QED BY <1>3, <1>7, <2>1 DEF Reading
<1> HIDE DEF t
<1>13. Good(t, g, n, c, m + 1, a)
  BY <1>8, <1>9, <1>10, <1>11, <1>12 DEF Good
<1> QED BY <1>13 DEF t, r

\* The packet of the audio that a step reads, if it is of component x.
AudioPacket(e, n, a, c, x) ==
  e.from = "audio" /\ e.segment = n /\ e.at = a + 1 /\ e.pid = New(c)[x]

LEMMA AudioSkipped ==
  ASSUME NEW g, NEW n, Numbered(g, n), NEW c, NEW o, NEW m, NEW a \in Nat,
         Good(o, g, n, c, m, a), \A x \in 1..Len(c.pmt2) : c.pmt2[x] # g[n].audio[a + 1].pid
  PROVE  Good(o, g, n, c, m, a + 1)
<1>1. [segment |-> n, at |-> a + 1] \notin AudioWanted(g, c)
      /\ AudioWanted(g, c) \in SUBSET Positions(n) /\ n \in Nat
  <2>1. ~OfComponent(g[n].audio[a + 1].pid, c)
    BY DEF OfComponent
  <2>2. [segment |-> n, at |-> a + 1] \in AudioWanted(g, c)
          => OfComponent(g[n].audio[a + 1].pid, c)
    BY WantedAre
  <2>3. AudioWanted(g, c) \in SUBSET Positions(n) /\ n \in Nat
    BY WantedAre DEF Numbered
  <2> QED BY <2>1, <2>2, <2>3
<1>2. UpTo(AudioWanted(g, c), n, a + 1) = UpTo(AudioWanted(g, c), n, a)
  BY <1>1, NotWanted
<1> QED BY <1>2 DEF Good

LEMMA AudioGood ==
  ASSUME NEW g, NEW n, Numbered(g, n), n \in DOMAIN g, NEW c, Sound(c), NEW T, NEW o \in Seq(T),
         NEW m \in Nat \ {0}, NEW a \in Nat, a + 1 \in 1..Len(g[n].audio),
         Good(o, g, n, c, m, a), NEW x, FirstAt(x, c.pmt2, g[n].audio[a + 1].pid),
         NEW e \in T, AudioPacket(e, n, a, c, x)
  PROVE  Good(Append(o, e), g, n, c, m, a + 1)
<1>1. [segment |-> n, at |-> a + 1] \in AudioWanted(g, c)
      /\ AudioWanted(g, c) \in SUBSET Positions(n) /\ n \in Nat
  <2>1. a + 1 \in Nat \ {0}
    OBVIOUS
  <2>2. [segment |-> n, at |-> a + 1] \in AudioWanted(g, c) <=>
          /\ n \in DOMAIN g /\ a + 1 \in Nat \ {0} /\ a + 1 \in 1..Len(g[n].audio)
          /\ OfComponent(g[n].audio[a + 1].pid, c)
    BY WantedAre
  <2>3. AudioWanted(g, c) \in SUBSET Positions(n) /\ n \in Nat
    BY WantedAre DEF Numbered
  <2>4. OfComponent(g[n].audio[a + 1].pid, c)
    BY DEF FirstAt, OfComponent
  <2> QED BY <2>1, <2>2, <2>3, <2>4
<1>2. /\ e.from = "audio" /\ e.segment = n /\ e.at = a + 1 /\ e.pid = New(c)[x]
  BY DEF AudioPacket
<1> DEFINE places == UpTo(AudioWanted(g, c), n, a)
<1>3. /\ UpTo(AudioWanted(g, c), n, a + 1) = places \cup {Merge!Place(e)}
      /\ \A p \in places : Merge!Earlier(p, e)
  <2> DEFINE all == AudioWanted(g, c)
  <2>1. [segment |-> n, at |-> a + 1] \in all /\ all \in SUBSET Positions(n) /\ n \in Nat
    BY <1>1
  <2> HIDE DEF all
  <2>2. /\ UpTo(all, n, a + 1) = UpTo(all, n, a) \cup {Merge!Place(e)}
        /\ \A p \in UpTo(all, n, a) : Merge!Earlier(p, e)
    BY <1>2, <2>1, Wanted
  <2> QED BY <2>2 DEF all
<1>4. Track(o, "audio", places) /\ Track(o, "video", UpTo(VideoWanted(g, c), n, m))
  BY DEF Good
<1> HIDE DEF places
<1>5. Track(Append(o, e), "audio", places \cup {Merge!Place(e)})
  BY <1>2, <1>3, <1>4, TrackMore
<1>6. e.from # "video" /\ e.from # "map"
  BY <1>2
<1>7. Track(Append(o, e), "video", UpTo(VideoWanted(g, c), n, m))
  BY <1>4, <1>6, TrackOther
<1>8. Known(e, g, c)
  BY <1>2, <1>6 DEF Known
<1>9. \A k \in 1..Len(Append(o, e)) : Known(Append(o, e)[k], g, c)
  BY <1>8, KnownWith DEF Good
<1>10. Reading(o, g, n, m)
  BY DEF Good
<1>11. ASSUME NEW q \in DOMAIN g
       PROVE  Announced(Append(o, e), g, q)
  <2>1. Announced(o, g, q)
    BY DEF Good
  <2>2. g[q].video[1].pid = PAT /\ e.segment = q => \E k \in 1..Len(o) : IsMap(o[k], q)
    BY <1>2, <1>10 DEF Reading
  <2> QED BY <1>6, <2>1, <2>2, AnnouncedOther
<1>12. Reading(Append(o, e), g, n, m)
  <2> DEFINE has(s) == \E k \in 1..Len(s) : IsMap(s[k], n)
  <2>1. has(Append(o, e)) <=> has(o)
    <3>1. ~IsMap(e, n)
      BY <1>6 DEF IsMap
    <3> QED BY <3>1, MapsWith
  <2>2. /\ has(o) => \E at \in 1..m : g[n].video[at].pid = PAT
        /\ g[n].video[1].pid = PAT => has(o)
    BY <1>10 DEF Reading
  <2> HIDE DEF has
  <2>3. /\ has(Append(o, e)) => \E at \in 1..m : g[n].video[at].pid = PAT
        /\ g[n].video[1].pid = PAT => has(Append(o, e))
    BY <2>1, <2>2
  <2> QED BY <2>3 DEF Reading, has
<1>13. Track(Append(o, e), "audio", UpTo(AudioWanted(g, c), n, a + 1))
  BY <1>3, <1>5
<1> QED BY <1>7, <1>9, <1>11, <1>12, <1>13 DEF Good

-----------------------------------------------------------------------------
(* A segment is begun                                                          *)

LEMMA GoodFresh ==
  ASSUME NEW g, NEW n, Numbered(g, n), DOMAIN g \subseteq {n}, NEW c
  PROVE  Good(<<>>, g, n, c, 0, 0)
<1>1. 1..Len(<<>>) = {}
  OBVIOUS
<1>2. /\ VideoWanted(g, c) \in SUBSET Positions(n) /\ AudioWanted(g, c) \in SUBSET Positions(n)
      /\ n \in Nat
  BY WantedAre DEF Numbered
<1>3. /\ \A p \in VideoWanted(g, c) : p.segment = n /\ p.at \in Nat \ {0}
      /\ \A p \in AudioWanted(g, c) : p.segment = n /\ p.at \in Nat \ {0}
  BY DEF VideoWanted, AudioWanted
<1>4. UpTo(VideoWanted(g, c), n, 0) = {} /\ UpTo(AudioWanted(g, c), n, 0) = {}
  BY <1>2, <1>3 DEF UpTo
<1>5. \A from : Track(<<>>, from, {})
  BY <1>1 DEF Track
<1> QED BY <1>1, <1>4, <1>5 DEF Good, Announced, Reading

LEMMA GoodNext ==
  ASSUME NEW g, NEW n, Numbered(g, n), n \in DOMAIN g, NEW c, NEW o,
         Good(o, g, n, c, Len(g[n].video), Len(g[n].audio)),
         NEW h, Numbered(h, n + 1), DOMAIN h = DOMAIN g \cup {n + 1},
         \A q \in DOMAIN g : h[q] = g[q]
  PROVE  Good(o, h, n + 1, c, 0, 0)
<1>1. n \in Nat /\ \A q \in DOMAIN g : q \in 0..n
  BY DEF Numbered
<1>2. UpTo(VideoWanted(h, c), n + 1, 0) = UpTo(VideoWanted(g, c), n, Len(g[n].video))
  <2>1. ASSUME NEW p
        PROVE  p \in UpTo(VideoWanted(h, c), n + 1, 0)
                 <=> p \in UpTo(VideoWanted(g, c), n, Len(g[n].video))
    <3>1. ASSUME p \in UpTo(VideoWanted(h, c), n + 1, 0)
          PROVE  p \in UpTo(VideoWanted(g, c), n, Len(g[n].video))
      <4>1. /\ p \in [segment : DOMAIN h, at : Nat \ {0}] /\ p.at \in 1..Len(h[p.segment].video)
            /\ h[p.segment].video[p.at].pid \notin {NULL, c.map_pid}
            /\ p.segment < n + 1 \/ p.at <= 0
        BY <3>1 DEF UpTo, VideoWanted
      <4>2. p.segment \in DOMAIN g
        BY <1>1, <4>1
      <4>3. p \in [segment : DOMAIN g, at : Nat \ {0}]
        BY <4>1, <4>2
      <4>4. p.segment < n \/ p.at <= Len(g[n].video)
        BY <1>1, <4>1, <4>2
      <4> QED BY <4>1, <4>2, <4>3, <4>4 DEF UpTo, VideoWanted
    <3>2. ASSUME p \in UpTo(VideoWanted(g, c), n, Len(g[n].video))
          PROVE  p \in UpTo(VideoWanted(h, c), n + 1, 0)
      <4>1. /\ p \in [segment : DOMAIN g, at : Nat \ {0}] /\ p.at \in 1..Len(g[p.segment].video)
            /\ g[p.segment].video[p.at].pid \notin {NULL, c.map_pid}
        BY <3>2 DEF UpTo, VideoWanted
      <4>2. p.segment \in DOMAIN g /\ p.segment < n + 1
        BY <1>1, <4>1
      <4>3. p \in [segment : DOMAIN h, at : Nat \ {0}]
        BY <4>1, <4>2
      <4> QED BY <4>1, <4>2, <4>3 DEF UpTo, VideoWanted
    <3> QED BY <3>1, <3>2
  <2> QED BY <2>1
<1>3. UpTo(AudioWanted(h, c), n + 1, 0) = UpTo(AudioWanted(g, c), n, Len(g[n].audio))
  <2>1. ASSUME NEW p
        PROVE  p \in UpTo(AudioWanted(h, c), n + 1, 0)
                 <=> p \in UpTo(AudioWanted(g, c), n, Len(g[n].audio))
    <3>1. ASSUME p \in UpTo(AudioWanted(h, c), n + 1, 0)
          PROVE  p \in UpTo(AudioWanted(g, c), n, Len(g[n].audio))
      <4>1. /\ p \in [segment : DOMAIN h, at : Nat \ {0}] /\ p.at \in 1..Len(h[p.segment].audio)
            /\ OfComponent(h[p.segment].audio[p.at].pid, c)
            /\ p.segment < n + 1 \/ p.at <= 0
        BY <3>1 DEF UpTo, AudioWanted
      <4>2. p.segment \in DOMAIN g
        BY <1>1, <4>1
      <4>3. p \in [segment : DOMAIN g, at : Nat \ {0}]
        BY <4>1, <4>2
      <4>4. p.segment < n \/ p.at <= Len(g[n].audio)
        BY <1>1, <4>1, <4>2
      <4> QED BY <4>1, <4>2, <4>3, <4>4 DEF UpTo, AudioWanted
    <3>2. ASSUME p \in UpTo(AudioWanted(g, c), n, Len(g[n].audio))
          PROVE  p \in UpTo(AudioWanted(h, c), n + 1, 0)
      <4>1. /\ p \in [segment : DOMAIN g, at : Nat \ {0}] /\ p.at \in 1..Len(g[p.segment].audio)
            /\ OfComponent(g[p.segment].audio[p.at].pid, c)
        BY <3>2 DEF UpTo, AudioWanted
      <4>2. p.segment \in DOMAIN g /\ p.segment < n + 1
        BY <1>1, <4>1
      <4>3. p \in [segment : DOMAIN h, at : Nat \ {0}]
        BY <4>1, <4>2
      <4> QED BY <4>1, <4>2, <4>3 DEF UpTo, AudioWanted
    <3> QED BY <3>1, <3>2
  <2> QED BY <2>1
<1>4. \A k \in 1..Len(o) : Known(o[k], g, c) /\ Known(o[k], h, c) /\ o[k].segment # n + 1
  <2> SUFFICES ASSUME NEW k \in 1..Len(o)
               PROVE  Known(o[k], g, c) /\ Known(o[k], h, c) /\ o[k].segment # n + 1
    OBVIOUS
  <2>1. Known(o[k], g, c)
    BY DEF Good
  <2>2. o[k].segment \in DOMAIN g /\ o[k].segment \in DOMAIN h /\ o[k].segment # n + 1
    BY <1>1, <2>1 DEF Known
  <2> QED BY <2>1, <2>2 DEF Known
<1>5. ASSUME NEW q \in DOMAIN h
      PROVE  Announced(o, h, q)
  <2>1. CASE q \in DOMAIN g
    <3>1. Announced(o, g, q) /\ h[q] = g[q]
      BY <2>1 DEF Good
    <3> QED BY <3>1 DEF Announced
  <2>2. CASE q = n + 1
    BY <1>4, <2>2 DEF Announced, IsMap
  <2> QED BY <2>1, <2>2
<1>6. Reading(o, h, n + 1, 0)
  BY <1>4 DEF Reading, IsMap
<1> QED BY <1>2, <1>3, <1>4, <1>5, <1>6 DEF Good

\* The segments of a file by their number.
SegmentsBy(s, n) == [q \in (n - Len(s) + 1)..n |-> s[q - (n - Len(s))]]

LEMMA SegmentsAre ==
  ASSUME NEW s \in Seq(Pairs), NEW n \in Nat, Len(s) <= n
  PROVE  /\ Numbered(SegmentsBy(s, n), n)
         /\ s # <<>> => n \in DOMAIN SegmentsBy(s, n) /\ SegmentsBy(s, n)[n] = s[Len(s)]
         /\ s = <<>> => DOMAIN SegmentsBy(s, n) = {}
         /\ Len(s) = 1 => DOMAIN SegmentsBy(s, n) = {n}
<1> DEFINE b == n - Len(s)
           g == SegmentsBy(s, n)
<1>1. b \in Nat /\ Len(s) \in Nat /\ n = b + Len(s)
  OBVIOUS
<1>2. DOMAIN g = (b + 1)..n /\ \A q \in (b + 1)..n : g[q] = s[q - b]
  BY DEF SegmentsBy
<1>3. \A x \in 1..Len(s) : s[x] \in Pairs
  OBVIOUS
<1>4. s # <<>> <=> Len(s) # 0
  OBVIOUS
<1> HIDE DEF b, g
<1>5. \A q \in (b + 1)..n : q - b \in 1..Len(s) /\ q \in 0..n
  BY <1>1
<1>6. Numbered(g, n)
  BY <1>2, <1>3, <1>5 DEF Numbered
<1>7. Len(s) # 0 => n \in (b + 1)..n /\ n - b = Len(s)
  BY <1>1
<1>8. Len(s) = 0 => (b + 1)..n = {}
  BY <1>1
<1>9. Len(s) = 1 => (b + 1)..n = {n}
  BY <1>1
<1> QED BY <1>2, <1>4, <1>6, <1>7, <1>8, <1>9 DEF g

LEMMA SegmentsGrow ==
  ASSUME NEW s \in Seq(Pairs), NEW n \in Nat, Len(s) <= n, NEW e \in Pairs
  PROVE  LET g == SegmentsBy(s, n)
             h == SegmentsBy(Append(s, e), n + 1)
         IN DOMAIN h = DOMAIN g \cup {n + 1} /\ \A q \in DOMAIN g : h[q] = g[q]
<1> DEFINE b == n - Len(s)
           t == Append(s, e)
           g == SegmentsBy(s, n)
           h == SegmentsBy(t, n + 1)
<1>1. /\ b \in Nat /\ Len(s) \in Nat /\ n = b + Len(s) /\ Len(t) = Len(s) + 1
      /\ (n + 1) - Len(t) = b
      /\ \A x \in 1..Len(s) : t[x] = s[x]
  OBVIOUS
<1>2. DOMAIN g = (b + 1)..n /\ \A q \in (b + 1)..n : g[q] = s[q - b]
  BY DEF SegmentsBy
<1>3. DOMAIN h = (b + 1)..(n + 1) /\ \A q \in (b + 1)..(n + 1) : h[q] = t[q - b]
  BY <1>1 DEF SegmentsBy
<1> HIDE DEF b, g, h, t
<1>4. (b + 1)..(n + 1) = (b + 1)..n \cup {n + 1}
  BY <1>1
<1>5. \A q \in (b + 1)..n : q - b \in 1..Len(s) /\ q \in (b + 1)..(n + 1)
  BY <1>1
<1>6. DOMAIN h = DOMAIN g \cup {n + 1} /\ \A q \in DOMAIN g : h[q] = g[q]
  BY <1>1, <1>2, <1>3, <1>4, <1>5
<1> QED BY <1>6 DEF g, h, t

-----------------------------------------------------------------------------
(* The steps of a merge                                                        *)

Segs == SegmentsBy(segments, count)

GoodFile(o, m, a) == Good(o, Segs, count, context, m, a)

\* A segment is being merged.
Merging ==
  /\ segments \in Seq(Pairs) \ {<<>>} /\ count \in Nat /\ Len(segments) <= count
  /\ FromMaps(context)

LEMMA PresentSegment ==
  ASSUME Merging
  PROVE  /\ Numbered(Segs, count) /\ count \in DOMAIN Segs /\ Sound(context)
         /\ Segs[count].video = Merge!video /\ Segs[count].audio = Merge!audio
         /\ Len(Merge!video) \in Nat \ {0} /\ Len(Merge!audio) \in Nat \ {0}
<1>1. /\ Numbered(Segs, count) /\ count \in DOMAIN Segs
      /\ Segs[count] = segments[Len(segments)]
  BY SegmentsAre DEF Merging, Segs
<1>2. Segs[count] \in Pairs
  BY <1>1 DEF Numbered
<1>3. Merge!video = Segs[count].video /\ Merge!audio = Segs[count].audio
  BY <1>1 DEF Merge!video, Merge!audio, Merge!Last
<1>4. Segs[count].video \in VideoSegments /\ Segs[count].audio \in AudioSegments
  BY <1>2 DEF Pairs
<1>5. \A s \in VideoSegments \cup AudioSegments : Len(s) \in Nat \ {0}
  BY SegmentsAssumption
<1> QED BY <1>1, <1>3, <1>4, <1>5, ContextIsSound DEF Merging

LEMMA ListEnds ==
  ASSUME NEW T, NEW o \in Seq(T), NEW e \in T, NEW f \in T
  PROVE  /\ o \o <<>> = o /\ o \o (<<e>> \o <<>>) = Append(o, e)
         /\ o \o (<<e>> \o <<f>>) = Append(Append(o, e), f)
         /\ <<>> \in Seq(T) /\ <<e>> \o <<>> \in Seq(T) /\ <<e>> \o <<f>> \in Seq(T)
         /\ <<e>> \in Seq(T) /\ o \o <<e>> = Append(o, e)
<1>1. /\ <<>> \in Seq(T) /\ <<e>> \in Seq(T) /\ <<f>> \in Seq(T)
      /\ o \o <<e>> = Append(o, e) /\ Append(o, e) \in Seq(T)
  OBVIOUS
<1>2. \A s \in Seq(T) : s \o <<>> = s
  OBVIOUS
<1>3. \A s, u \in Seq(T) : s \o u \in Seq(T)
  OBVIOUS
<1>4. (o \o <<e>>) \o <<f>> = o \o (<<e>> \o <<f>>)
  BY <1>1, ConcatAssociative
<1>5. \A s \in Seq(T) : s \o <<f>> = Append(s, f)
  OBVIOUS
<1> QED BY <1>1, <1>2, <1>3, <1>4, <1>5

LEMMA OneOfVideo ==
  ASSUME Merging, NEW T, NEW o \in Seq(T), NEW m \in Nat, NEW a, GoodFile(o, m, a),
         m + 1 \in 1..Len(Merge!video),
         Merge!Copy("video", m + 1, Merge!video[m + 1].pid) \in T, Merge!MapPacket \in T
  PROVE  GoodFile(o \o Merge!OfVideo(m + 1), m + 1, a)
<1> DEFINE e == Merge!Copy("video", m + 1, Merge!video[m + 1].pid)
           f == Merge!MapPacket
           p == Merge!video[m + 1]
<1>1. /\ Numbered(Segs, count) /\ count \in DOMAIN Segs /\ Sound(context)
      /\ Segs[count].video = Merge!video
  BY PresentSegment
<1>2. VideoPacket(e, Segs, count, m)
  BY <1>1 DEF VideoPacket, Merge!Copy
<1>3. IsMap(f, count) /\ Known(f, Segs, context)
  BY <1>1 DEF IsMap, Known, Merge!MapPacket
<1>4. Merge!AnnouncesMap(m + 1) <=> FirstPat(Segs, count, m)
  <2>1. (m + 1) - 1 = m
    OBVIOUS
  <2> QED BY <1>1, <2>1 DEF Merge!AnnouncesMap, FirstPat
<1>5. Merge!OfVideo(m + 1) = IF p.pid \in {NULL, context.map_pid} THEN <<>>
                             ELSE <<e>> \o (IF Merge!AnnouncesMap(m + 1) THEN <<f>> ELSE <<>>)
  BY DEF Merge!OfVideo
<1>6. Good(o, Segs, count, context, m, a) /\ m + 1 \in 1..Len(Segs[count].video)
  BY <1>1 DEF GoodFile
<1>7. Segs[count].video[m + 1] = p /\ e \in T /\ f \in T
  BY <1>1
<1> HIDE DEF e, f, p
<1>8. /\ o \o <<>> = o /\ o \o (<<e>> \o <<>>) = Append(o, e)
      /\ o \o (<<e>> \o <<f>>) = Append(Append(o, e), f)
  BY <1>7, ListEnds
<1>9. CASE p.pid \in {NULL, context.map_pid}
  <2>1. Good(o, Segs, count, context, m + 1, a)
    BY <1>1, <1>6, <1>7, <1>9, VideoSkipped
  <2> QED BY <1>5, <1>8, <1>9, <2>1 DEF GoodFile
<1>10. CASE p.pid \notin {NULL, context.map_pid} /\ ~Merge!AnnouncesMap(m + 1)
  <2>1. Good(Append(o, e), Segs, count, context, m + 1, a)
    BY <1>1, <1>2, <1>4, <1>6, <1>7, <1>10, VideoKeptGood
  <2> QED BY <1>5, <1>8, <1>10, <2>1 DEF GoodFile
<1>11. CASE p.pid \notin {NULL, context.map_pid} /\ Merge!AnnouncesMap(m + 1)
  <2>1. Good(Append(Append(o, e), f), Segs, count, context, m + 1, a)
    BY <1>1, <1>2, <1>3, <1>4, <1>6, <1>7, <1>11, VideoMapGood
  <2> QED BY <1>5, <1>8, <1>11, <2>1 DEF GoodFile
<1> QED BY <1>9, <1>10, <1>11

\* The component of a packet of the audio, or 0, and the packet that is written.
Component(at) == Merge!SelectInSeq(context.pmt2, LAMBDA pid : pid = Merge!audio[at].pid)
Renamed(at)   == Merge!Copy("audio", at, context.pmt[Len(context.pmt) - Len(context.pmt2) + Component(at)])

LEMMA OneOfAudio ==
  ASSUME Merging, NEW T, NEW o \in Seq(T), NEW m \in Nat \ {0}, NEW a \in Nat, GoodFile(o, m, a),
         a + 1 \in 1..Len(Merge!audio), Renamed(a + 1) \in T
  PROVE  GoodFile(o \o Merge!OfAudio(a + 1), m, a + 1)
<1> DEFINE e == Renamed(a + 1)
           p == Merge!audio[a + 1]
           x == Component(a + 1)
<1>1. /\ Numbered(Segs, count) /\ count \in DOMAIN Segs /\ Sound(context)
      /\ Segs[count].audio = Merge!audio
  BY PresentSegment
<1>2. /\ Len(context.pmt2) \in Nat
      /\ \A y \in 1..Len(context.pmt2) :
           context.pmt[Len(context.pmt) - Len(context.pmt2) + y] = New(context)[y]
  BY <1>1 DEF Sound
<1>3. \/ x = 0 /\ \A y \in 1..Len(context.pmt2) : context.pmt2[y] # p.pid
      \/ x # 0 /\ FirstAt(x, context.pmt2, p.pid)
  <2>1. x = PositionOf(p.pid, context.pmt2)
    BY DEF Component, PositionOf, Merge!SelectInSeq
  <2> HIDE DEF x, p
  <2> QED BY <1>2, <2>1, ComponentIs
<1>4. Merge!OfAudio(a + 1) = IF x = 0 THEN <<>> ELSE <<e>>
  BY DEF Merge!OfAudio, Component, Renamed
<1>5. /\ e.from = "audio" /\ e.segment = count /\ e.at = a + 1
      /\ e.pid = context.pmt[Len(context.pmt) - Len(context.pmt2) + x]
  BY DEF Renamed, Merge!Copy
<1>6. Good(o, Segs, count, context, m, a) /\ a + 1 \in 1..Len(Segs[count].audio)
  BY <1>1 DEF GoodFile
<1>7. Segs[count].audio[a + 1] = p /\ e \in T
  BY <1>1
<1> HIDE DEF e, p, x
<1>8. o \o <<>> = o /\ o \o <<e>> = Append(o, e)
  BY <1>7, ListEnds
<1>9. CASE x = 0
  <2>1. Good(o, Segs, count, context, m, a + 1)
    BY <1>1, <1>3, <1>6, <1>7, <1>9, AudioSkipped
  <2> QED BY <1>4, <1>8, <1>9, <2>1 DEF GoodFile
<1>10. CASE x # 0
  <2>1. FirstAt(x, context.pmt2, Segs[count].audio[a + 1].pid)
    BY <1>3, <1>7, <1>10
  <2>2. AudioPacket(e, count, a, context, x)
    BY <1>2, <1>5, <2>1 DEF AudioPacket, FirstAt
  <2>3. Good(Append(o, e), Segs, count, context, m, a + 1)
    BY <1>1, <1>6, <1>7, <2>1, <2>2, AudioGood
  <2> QED BY <1>4, <1>8, <1>10, <2>3 DEF GoodFile
<1> QED BY <1>9, <1>10

LEMMA RunFits ==
  ASSUME NEW mine \in Nat \ {0}, NEW other \in Nat \ {0}, NEW taken \in 0..mine
  PROVE  /\ Merge!Run(taken, mine, other) \in Nat
         /\ taken + Merge!Run(taken, mine, other) <= mine
         /\ taken = 0 => Merge!Run(taken, mine, other) # 0
<1> DEFINE m == Merge!MaxRun(mine, other)
<1>1. m \in Nat \ {0}
  BY RunIsPositive
<1> HIDE DEF m
<1>2. Merge!Run(taken, mine, other) = Least(m, mine - taken)
  BY <1>1, MinIsLeast DEF Merge!Run, m
<1> QED BY <1>1, <1>2 DEF Least

LEMMA VideoRunGood ==
  ASSUME Merging, NEW S, out \in Seq(S), NEW m \in Nat, NEW a, GoodFile(out, m, a),
         NEW n \in Nat, m + n <= Len(Merge!video)
  PROVE  LET new == out \o Merge!FlattenSeq([k \in 1..n |-> Merge!OfVideo(m + k)])
         IN (\E T : new \in Seq(T)) /\ GoodFile(new, m + n, a)
<1> DEFINE copy(at) == Merge!Copy("video", at, Merge!video[at].pid)
           f == Merge!MapPacket
           T == S \cup {f} \cup {copy(at) : at \in 1..Len(Merge!video)}
           s == [k \in 1..n |-> Merge!OfVideo(m + k)]
<1>1. Len(Merge!video) \in Nat
  BY PresentSegment
<1>2. f \in T /\ \A at \in 1..Len(Merge!video) : copy(at) \in T
  OBVIOUS
<1>3. out \in Seq(T)
  OBVIOUS
<1>4. ASSUME NEW k \in 1..n
      PROVE  m + k \in 1..Len(Merge!video) /\ Merge!OfVideo(m + k) \in Seq(T)
  <2>1. m + k \in 1..Len(Merge!video)
    BY <1>1
  <2> DEFINE e == copy(m + k)
  <2>2. e \in T /\ f \in T
    BY <1>2, <2>1
  <2>3. Merge!OfVideo(m + k) = IF Merge!video[m + k].pid \in {NULL, context.map_pid} THEN <<>>
                               ELSE <<e>> \o (IF Merge!AnnouncesMap(m + k) THEN <<f>> ELSE <<>>)
    BY DEF Merge!OfVideo
  <2> HIDE DEF e, f, T
  <2>4. <<>> \in Seq(T) /\ <<e>> \o <<>> \in Seq(T) /\ <<e>> \o <<f>> \in Seq(T)
    BY <1>3, <2>2, ListEnds
  <2> QED BY <2>1, <2>3, <2>4
<1> HIDE DEF T, f, copy
<1>5. s \in Seq(Seq(T)) /\ Len(s) = n /\ \A k \in 1..n : s[k] = Merge!OfVideo(m + k)
  <2> DEFINE V == Seq(T)
  <2>1. \A k \in 1..n : Merge!OfVideo(m + k) \in V
    BY <1>4
  <2> HIDE DEF V
  <2>2. s \in Seq(V) /\ Len(s) = n
    BY <2>1
  <2>3. \A k \in 1..n : s[k] = Merge!OfVideo(m + k)
    OBVIOUS
  <2> HIDE DEF s
  <2> QED BY <2>2, <2>3 DEF V
<1> HIDE DEF s
<1>6. Extended(out, s, n, T)
  BY <1>3, <1>5, Written
<1>7. PICK G : Writes(G, s, n, T) /\ G[0] = out /\ G[n] = out \o Merge!FlattenSeq(s)
  BY <1>6 DEF Extended
<1>8. /\ \A k \in 0..n : G[k] \in Seq(T)
      /\ \A k \in 1..n : G[k] = G[k - 1] \o s[k]
  BY <1>7 DEF Writes
<1> DEFINE P == {k \in Nat : k <= n => GoodFile(G[k], m + k, a)}
<1>9. 0 \in P
  <2>1. m + 0 = m
    OBVIOUS
  <2> QED BY <1>7, <2>1
<1>10. ASSUME NEW k \in P PROVE k + 1 \in P
  <2>1. SUFFICES ASSUME k + 1 <= n PROVE GoodFile(G[k + 1], m + (k + 1), a)
    OBVIOUS
  <2>2. k \in Nat /\ GoodFile(G[k], m + k, a) /\ k \in 0..n /\ k + 1 \in 1..n
    BY <2>1
  <2>3. m + k \in Nat /\ (m + k) + 1 = m + (k + 1) /\ (k + 1) - 1 = k
    BY <2>2
  <2>4. G[k + 1] = G[k] \o Merge!OfVideo((m + k) + 1)
    <3>1. G[k + 1] = G[(k + 1) - 1] \o s[k + 1] /\ s[k + 1] = Merge!OfVideo(m + (k + 1))
      BY <1>5, <1>8, <2>2
    <3> QED BY <2>3, <3>1
  <2>5. (m + k) + 1 \in 1..Len(Merge!video)
    BY <1>4, <2>2, <2>3
  <2>6. G[k] \in Seq(T)
    BY <1>8, <2>2
  <2> HIDE DEF P
  <2>7. copy((m + k) + 1) \in T
    BY <1>2, <2>5
  <2>8. GoodFile(G[k] \o Merge!OfVideo((m + k) + 1), (m + k) + 1, a)
    BY <1>2, <2>2, <2>3, <2>5, <2>6, <2>7, OneOfVideo DEF copy, f
  <2> QED BY <2>3, <2>4, <2>8
<1>11. P = Nat
  <2>1. P \in SUBSET Nat
    OBVIOUS
  <2> HIDE DEF P
  <2> QED BY <1>9, <1>10, <2>1, SetInduction
<1>12. GoodFile(G[n], m + n, a)
  <2>1. n \in P
    <3> HIDE DEF P
    <3> QED BY <1>11
  <2> QED BY <2>1
<1>13. G[n] \in Seq(T)
  BY <1>8
<1> QED BY <1>7, <1>12, <1>13 DEF s

LEMMA AudioRunGood ==
  ASSUME Merging, NEW S, out \in Seq(S), NEW m \in Nat \ {0}, NEW a \in Nat, GoodFile(out, m, a),
         NEW n \in Nat, a + n <= Len(Merge!audio)
  PROVE  LET new == out \o Merge!FlattenSeq([k \in 1..n |-> Merge!OfAudio(a + k)])
         IN (\E T : new \in Seq(T)) /\ GoodFile(new, m, a + n)
<1> DEFINE T == S \cup {Renamed(at) : at \in 1..Len(Merge!audio)}
           s == [k \in 1..n |-> Merge!OfAudio(a + k)]
<1>1. Len(Merge!audio) \in Nat
  BY PresentSegment
<1>2. \A at \in 1..Len(Merge!audio) : Renamed(at) \in T
  OBVIOUS
<1>3. out \in Seq(T)
  OBVIOUS
<1>4. ASSUME NEW k \in 1..n
      PROVE  a + k \in 1..Len(Merge!audio) /\ Merge!OfAudio(a + k) \in Seq(T)
  <2>1. a + k \in 1..Len(Merge!audio)
    BY <1>1
  <2> DEFINE e == Renamed(a + k)
  <2>2. e \in T
    BY <1>2, <2>1
  <2>3. Merge!OfAudio(a + k) = IF Component(a + k) = 0 THEN <<>> ELSE <<e>>
    BY DEF Merge!OfAudio, Component, Renamed
  <2> HIDE DEF e, T
  <2>4. <<>> \in Seq(T) /\ <<e>> \in Seq(T)
    BY <1>3, <2>2, ListEnds
  <2> QED BY <2>1, <2>3, <2>4
<1> HIDE DEF T
<1>5. s \in Seq(Seq(T)) /\ Len(s) = n /\ \A k \in 1..n : s[k] = Merge!OfAudio(a + k)
  <2> DEFINE V == Seq(T)
  <2>1. \A k \in 1..n : Merge!OfAudio(a + k) \in V
    BY <1>4
  <2> HIDE DEF V
  <2>2. s \in Seq(V) /\ Len(s) = n
    BY <2>1
  <2>3. \A k \in 1..n : s[k] = Merge!OfAudio(a + k)
    OBVIOUS
  <2> HIDE DEF s
  <2> QED BY <2>2, <2>3 DEF V
<1> HIDE DEF s
<1>6. Extended(out, s, n, T)
  BY <1>3, <1>5, Written
<1>7. PICK G : Writes(G, s, n, T) /\ G[0] = out /\ G[n] = out \o Merge!FlattenSeq(s)
  BY <1>6 DEF Extended
<1>8. /\ \A k \in 0..n : G[k] \in Seq(T)
      /\ \A k \in 1..n : G[k] = G[k - 1] \o s[k]
  BY <1>7 DEF Writes
<1> DEFINE P == {k \in Nat : k <= n => GoodFile(G[k], m, a + k)}
<1>9. 0 \in P
  <2>1. a + 0 = a
    OBVIOUS
  <2> QED BY <1>7, <2>1
<1>10. ASSUME NEW k \in P PROVE k + 1 \in P
  <2>1. SUFFICES ASSUME k + 1 <= n PROVE GoodFile(G[k + 1], m, a + (k + 1))
    OBVIOUS
  <2>2. k \in Nat /\ GoodFile(G[k], m, a + k) /\ k \in 0..n /\ k + 1 \in 1..n
    BY <2>1
  <2>3. a + k \in Nat /\ (a + k) + 1 = a + (k + 1) /\ (k + 1) - 1 = k
    BY <2>2
  <2>4. G[k + 1] = G[k] \o Merge!OfAudio((a + k) + 1)
    <3>1. G[k + 1] = G[(k + 1) - 1] \o s[k + 1] /\ s[k + 1] = Merge!OfAudio(a + (k + 1))
      BY <1>5, <1>8, <2>2
    <3> QED BY <2>3, <3>1
  <2>5. (a + k) + 1 \in 1..Len(Merge!audio)
    BY <1>4, <2>2, <2>3
  <2>6. G[k] \in Seq(T)
    BY <1>8, <2>2
  <2> HIDE DEF P
  <2>7. Renamed((a + k) + 1) \in T
    BY <1>2, <2>5
  <2>8. GoodFile(G[k] \o Merge!OfAudio((a + k) + 1), m, (a + k) + 1)
    BY <2>2, <2>3, <2>5, <2>6, <2>7, OneOfAudio
  <2> QED BY <2>3, <2>4, <2>8
<1>11. P = Nat
  <2>1. P \in SUBSET Nat
    OBVIOUS
  <2> HIDE DEF P
  <2> QED BY <1>9, <1>10, <2>1, SetInduction
<1>12. GoodFile(G[n], m, a + n)
  <2>1. n \in P
    <3> HIDE DEF P
    <3> QED BY <1>11
  <2> QED BY <2>1
<1>13. G[n] \in Seq(T)
  BY <1>8
<1> QED BY <1>7, <1>12, <1>13 DEF s

-----------------------------------------------------------------------------
(* The file of a merge, in all states                                          *)

\* How far the present segment has been read.
ReadSoFar ==
  /\ i \in 0..Len(Merge!video) /\ j \in 0..Len(Merge!audio)
  /\ pc \in {"begin", "end"} => i = Len(Merge!video) /\ j = Len(Merge!audio)
  /\ pc = "audio" => i # 0

\* Before maps have been found there is no file.
ContextSoFar ==
  \/ /\ context = Merge!NoContext /\ out = <<>> /\ pc \in {"begin", "failed"}
     /\ pc = "begin" => segments = <<>>
  \/ FromMaps(context) /\ segments # <<>>

FileSoFar ==
  /\ segments \in Seq(Pairs) /\ count \in Nat /\ Len(segments) <= count
  /\ pc \in {"begin", "video", "audio", "end", "failed"}
  /\ \E T : out \in Seq(T)
  /\ GoodFile(out, i, j)
  /\ ContextSoFar
  /\ segments # <<>> => ReadSoFar

FileInv == job = "merge" => FileSoFar

LEMMA FileInit == TransportInit => FileInv
<1> SUFFICES ASSUME TransportInit, job = "merge" PROVE FileSoFar
  BY DEF FileInv
<1>1. Merge!Init
  BY DEF TransportInit
<1>2. /\ context = Merge!NoContext /\ segments = <<>> /\ i = 0 /\ j = 0 /\ pc = "begin"
      /\ count = 0 /\ out = <<>>
  BY <1>1 DEF Merge!Init
<1>3. segments \in Seq(Pairs) /\ out \in Seq({}) /\ Len(segments) = 0
  BY <1>2
<1>4. Numbered(Segs, count) /\ DOMAIN Segs = {}
  <2>1. count \in Nat /\ Len(segments) <= count
    BY <1>2, <1>3
  <2> QED BY <1>2, <1>3, <2>1, SegmentsAre DEF Segs
<1>5. Good(<<>>, Segs, count, context, 0, 0)
  BY <1>4, GoodFresh
<1> QED BY <1>2, <1>3, <1>5 DEF FileSoFar, ContextSoFar, GoodFile

LEMMA ContextValid == ~Merge!NoContext.valid /\ \A c : FromMaps(c) => c.valid
<1>1. ~Merge!NoContext.valid
  BY DEF Merge!NoContext
<1> QED BY <1>1, ContextIsSound DEF Sound

\* The first segment of a file.
LEMMA FileBegins ==
  ASSUME NEW v \in VideoSegments, NEW a \in AudioSegments, Merge!Begin(v, a), count \in Nat,
         separate_segments \/ (segments = <<>> /\ out = <<>>)
  PROVE  /\ segments' \in Seq(Pairs) \ {<<>>} /\ count' \in Nat /\ Len(segments') <= count'
         /\ out' = <<>> /\ GoodFile(out, i, j)'
<1> DEFINE e == [video |-> v, audio |-> a]
<1>1. /\ segments' = Append(<<>>, e) /\ out' = <<>> /\ i' = 0 /\ j' = 0 /\ count' = count + 1
  BY DEF Merge!Begin
<1>2. e \in Pairs
  BY DEF Pairs
<1> HIDE DEF e
<1>3. segments' \in Seq(Pairs) \ {<<>>} /\ Len(segments') = 1 /\ count' \in Nat /\ 1 <= count'
  BY <1>1, <1>2
<1> DEFINE g == SegmentsBy(segments', count')
<1>4. Numbered(g, count') /\ DOMAIN g = {count'}
  BY <1>3, SegmentsAre
<1> HIDE DEF g
<1>5. Good(<<>>, g, count', context', 0, 0)
  BY <1>4, GoodFresh
<1>6. Good(out', g, count', context', i', j')
  BY <1>1, <1>5
<1> QED BY <1>1, <1>3, <1>6 DEF GoodFile, Segs, g

\* One more segment of it.
LEMMA FileGoesOn ==
  ASSUME NEW v \in VideoSegments, NEW a \in AudioSegments, Merge!Begin(v, a), FileSoFar,
         ~separate_segments, segments # <<>>, pc = "begin", FromMaps(context), context' = context
  PROVE  /\ segments' \in Seq(Pairs) \ {<<>>} /\ count' \in Nat /\ Len(segments') <= count'
         /\ out' = out /\ GoodFile(out, i, j)'
<1> DEFINE e == [video |-> v, audio |-> a]
<1>1. /\ segments' = Append(segments, e) /\ out' = out /\ i' = 0 /\ j' = 0 /\ count' = count + 1
  BY DEF Merge!Begin
<1>2. e \in Pairs
  BY DEF Pairs
<1> HIDE DEF e
<1>3. segments \in Seq(Pairs) /\ count \in Nat /\ Len(segments) <= count
  BY DEF FileSoFar
<1>4. /\ segments' \in Seq(Pairs) \ {<<>>} /\ Len(segments') = Len(segments) + 1
      /\ count' \in Nat /\ Len(segments') <= count'
  BY <1>1, <1>2, <1>3
<1> DEFINE g == SegmentsBy(segments, count)
           h == SegmentsBy(segments', count')
<1>5. Merging
  BY <1>3 DEF Merging
<1>6. /\ Numbered(g, count) /\ count \in DOMAIN g
      /\ g[count].video = Merge!video /\ g[count].audio = Merge!audio
  BY <1>5, PresentSegment DEF Segs
<1>7. Numbered(h, count + 1)
  BY <1>1, <1>4, SegmentsAre
<1>8. DOMAIN h = DOMAIN g \cup {count + 1} /\ \A q \in DOMAIN g : h[q] = g[q]
  BY <1>1, <1>2, <1>3, SegmentsGrow
<1>9. i = Len(Merge!video) /\ j = Len(Merge!audio)
  BY DEF FileSoFar, ReadSoFar
<1>10. Good(out, g, count, context, i, j)
  BY DEF FileSoFar, GoodFile, Segs
<1> HIDE DEF g, h
<1>11. Good(out, g, count, context, Len(g[count].video), Len(g[count].audio))
  BY <1>6, <1>9, <1>10
<1>12. Good(out, h, count + 1, context, 0, 0)
  BY <1>6, <1>7, <1>8, <1>11, GoodNext
<1>13. Good(out', h, count', context', i', j')
  BY <1>1, <1>12
<1> QED BY <1>1, <1>4, <1>13 DEF GoodFile, Segs, h

LEMMA FileStep ==
  ASSUME FileSoFar, Merge!Next
  PROVE  FileSoFar'
<1>0. /\ segments \in Seq(Pairs) /\ count \in Nat /\ Len(segments) <= count
      /\ GoodFile(out, i, j) /\ ContextSoFar /\ (segments # <<>> => ReadSoFar)
  BY DEF FileSoFar
<1>1. CASE Merge!Reuse \/ Merge!MergeMaps \/ Merge!MapsFail
  <2>1. PICK v \in VideoSegments, a \in AudioSegments :
          /\ Merge!Begin(v, a)
          /\ \/ Merge!Kept.valid /\ context' = context /\ pc' = "video"
             \/ ~Merge!Kept.valid /\ Merge!Mergeable(v, a) /\ context' = Merge!Merged(v, a)
                /\ pc' = "video"
             \/ ~Merge!Kept.valid /\ context' = context /\ pc' = "failed"
    BY <1>1 DEF Merge!Reuse, Merge!MergeMaps, Merge!MapsFail
  <2>2. /\ Merge!Kept = IF separate_segments THEN Merge!NoContext ELSE context
        /\ pc = "begin" /\ i' = 0 /\ j' = 0
    BY <2>1 DEF Merge!Kept, Merge!Begin
  <2>3. /\ segments' \in Seq(Pairs) \ {<<>>} /\ count' \in Nat /\ Len(segments') <= count'
        /\ (\E T : out' \in Seq(T)) /\ GoodFile(out, i, j)'
        /\ \/ context' = context /\ context = Merge!NoContext /\ out' = <<>> /\ pc' = "failed"
           \/ FromMaps(context')
    <3>1. CASE Merge!Kept.valid
      <4>1. ~separate_segments /\ context.valid
        BY <2>2, <3>1, ContextValid
      <4>2. FromMaps(context) /\ segments # <<>>
        BY <1>0, <4>1, ContextValid DEF ContextSoFar
      <4>3. context' = context
        BY <2>1, <3>1
      <4>4. /\ segments' \in Seq(Pairs) \ {<<>>} /\ count' \in Nat /\ Len(segments') <= count'
            /\ out' = out /\ GoodFile(out, i, j)'
        BY <2>1, <2>2, <4>1, <4>2, <4>3, FileGoesOn
      <4>5. \E T : out' \in Seq(T)
        BY <4>4 DEF FileSoFar
      <4> QED BY <4>2, <4>3, <4>4, <4>5
    <3>2. CASE ~Merge!Kept.valid
      <4>1. separate_segments \/ (context = Merge!NoContext /\ segments = <<>> /\ out = <<>>)
        BY <1>0, <2>2, <3>2, ContextValid DEF ContextSoFar
      <4>2. /\ segments' \in Seq(Pairs) \ {<<>>} /\ count' \in Nat /\ Len(segments') <= count'
            /\ out' = <<>> /\ GoodFile(out, i, j)'
        BY <1>0, <2>1, <4>1, FileBegins
      <4>3. out' \in Seq({})
        BY <4>2
      <4>4. CASE Merge!Mergeable(v, a) /\ context' = Merge!Merged(v, a)
        <5>1. FromMaps(context')
          BY <4>4 DEF FromMaps
        <5> QED BY <4>2, <4>3, <5>1
      <4>5. CASE context' = context /\ pc' = "failed"
        <5>1. context = Merge!NoContext \/ FromMaps(context)
          BY <1>0 DEF ContextSoFar
        <5> QED BY <4>2, <4>3, <4>5, <5>1
      <4> QED BY <2>1, <3>2, <4>4, <4>5
    <3> QED BY <3>1, <3>2
  <2>4. ContextSoFar'
    BY <2>3 DEF ContextSoFar
  <2>5. ReadSoFar'
    <3>1. Merge!video' = v /\ Merge!audio' = a
      BY <1>0, <2>1, BeginRounds DEF Pairs
    <3>2. Len(v) \in Nat /\ Len(a) \in Nat
      BY SegmentsAssumption
    <3>3. pc' \in {"video", "failed"}
      BY <2>1
    <3> QED BY <2>2, <3>1, <3>2, <3>3 DEF ReadSoFar
  <2>6. pc' \in {"video", "failed"}
    BY <2>1
  <2> QED BY <2>3, <2>4, <2>5, <2>6 DEF FileSoFar
<1>2. CASE Merge!VideoRun \/ Merge!AudioRun
  <2>1. pc \in {"video", "audio"} /\ UNCHANGED <<segments, context, count>>
    BY <1>2 DEF Merge!VideoRun, Merge!AudioRun
  <2>2. FromMaps(context) /\ segments # <<>>
    BY <1>0, <2>1 DEF ContextSoFar
  <2>3. Merging
    BY <1>0, <2>2 DEF Merging
  <2> DEFINE lv == Len(Merge!video)
             la == Len(Merge!audio)
  <2>4. lv \in Nat \ {0} /\ la \in Nat \ {0}
    BY <2>3, PresentSegment
  <2>5. Merge!video' = Merge!video /\ Merge!audio' = Merge!audio /\ Segs' = Segs
    BY <2>1 DEF Merge!video, Merge!audio, Segs
  <2>6. i \in 0..lv /\ j \in 0..la /\ (pc = "audio" => i # 0)
    BY <1>0, <2>2 DEF ReadSoFar
  <2>7. PICK S : out \in Seq(S)
    BY DEF FileSoFar
  <2>8. ContextSoFar'
    BY <2>1, <2>2 DEF ContextSoFar
  <2>9. CASE Merge!VideoRun
    <3> DEFINE n == Merge!Run(i, lv, la)
               new == out \o Merge!FlattenSeq([k \in 1..n |-> Merge!OfVideo(i + k)])
    <3>1. pc = "video" /\ pc' = "audio" /\ out' = new /\ i' = i + n /\ j' = j
      BY <2>9 DEF Merge!VideoRun
    <3>2. n \in Nat /\ i + n <= lv /\ (i = 0 => n # 0)
      BY <2>4, <2>6, RunFits
    <3>3. (\E T : new \in Seq(T)) /\ GoodFile(new, i + n, j)
      <4> HIDE DEF n
      <4>1. i \in Nat
        BY <2>4, <2>6
      <4> QED BY <1>0, <2>3, <2>7, <3>2, <4>1, VideoRunGood
    <3> HIDE DEF n, new
    <3>4. GoodFile(out, i, j)'
      BY <2>1, <2>5, <3>1, <3>3 DEF GoodFile
    <3>5. i + n \in 0..lv /\ i + n # 0
      <4> HIDE DEF lv
      <4> QED BY <2>4, <2>6, <3>2
    <3>6. ReadSoFar'
      BY <2>5, <2>6, <3>1, <3>5 DEF ReadSoFar
    <3> QED BY <1>0, <2>1, <2>8, <3>1, <3>3, <3>4, <3>6 DEF FileSoFar
  <2>10. CASE Merge!AudioRun
    <3> DEFINE n == Merge!Run(j, la, lv)
               new == out \o Merge!FlattenSeq([k \in 1..n |-> Merge!OfAudio(j + k)])
    <3>1. /\ pc = "audio" /\ out' = new /\ j' = j + n /\ i' = i
          /\ pc' = IF i < lv \/ j + n < la THEN "video" ELSE "end"
      BY <2>10 DEF Merge!AudioRun
    <3>2. n \in Nat /\ j + n <= la
      BY <2>4, <2>6, RunFits
    <3>3. (\E T : new \in Seq(T)) /\ GoodFile(new, i, j + n)
      <4> HIDE DEF n
      <4>1. i \in Nat \ {0} /\ j \in Nat
        BY <2>4, <2>6, <3>1
      <4> QED BY <1>0, <2>3, <2>7, <3>2, <4>1, AudioRunGood
    <3> HIDE DEF n, new
    <3>4. GoodFile(out, i, j)'
      BY <2>1, <2>5, <3>1, <3>3 DEF GoodFile
    <3>5. j + n \in 0..la /\ (pc' = "end" => i = lv /\ j + n = la) /\ pc' \in {"video", "end"}
      <4> HIDE DEF lv, la
      <4> QED BY <2>4, <2>6, <3>1, <3>2
    <3>6. ReadSoFar'
      BY <2>5, <2>6, <3>1, <3>5 DEF ReadSoFar
    <3> QED BY <1>0, <2>1, <2>8, <3>1, <3>3, <3>4, <3>5, <3>6 DEF FileSoFar
  <2> QED BY <1>2, <2>9, <2>10
<1>3. CASE Merge!EndSegment
  <2>1. /\ pc = "end" /\ pc' \in {"begin", "failed"}
        /\ UNCHANGED <<context, segments, i, j, count, out>>
    BY <1>3 DEF Merge!EndSegment
  <2>2. FromMaps(context) /\ segments # <<>>
    BY <1>0, <2>1 DEF ContextSoFar
  <2>3. Merge!video' = Merge!video /\ Merge!audio' = Merge!audio /\ Segs' = Segs
    BY <2>1 DEF Merge!video, Merge!audio, Segs
  <2>4. GoodFile(out, i, j)'
    BY <1>0, <2>1, <2>3 DEF GoodFile
  <2>5. ReadSoFar'
    BY <1>0, <2>1, <2>2, <2>3 DEF ReadSoFar
  <2>6. \E T : out' \in Seq(T)
    BY <2>1 DEF FileSoFar
  <2> QED BY <1>0, <2>1, <2>2, <2>4, <2>5, <2>6 DEF FileSoFar, ContextSoFar
<1> QED BY <1>1, <1>2, <1>3 DEF Merge!Next

LEMMA FileKept == FileInv /\ [TransportNext]_allVars => FileInv'
<1> SUFFICES ASSUME FileInv, [TransportNext]_allVars PROVE FileInv'
  OBVIOUS
<1>1. CASE job = "merge" /\ Merge!Next /\ UNCHANGED <<job, decrypt_vars>>
  BY <1>1, FileStep DEF FileInv
<1>2. CASE job = "decrypt" /\ job' = job
  BY <1>2 DEF FileInv
<1>3. CASE UNCHANGED allVars
  <2>1. UNCHANGED <<job, pc, out, context, segments, i, j, count>>
    BY <1>3 DEF allVars, merge_vars
  <2>2. Merge!video' = Merge!video /\ Merge!audio' = Merge!audio /\ Segs' = Segs
    BY <2>1 DEF Merge!video, Merge!audio, Segs
  <2>3. GoodFile(out, i, j)' <=> GoodFile(out, i, j)
    BY <2>1, <2>2 DEF GoodFile
  <2>4. (ContextSoFar' <=> ContextSoFar) /\ (ReadSoFar' <=> ReadSoFar)
    BY <2>1, <2>2 DEF ContextSoFar, ReadSoFar
  <2> QED BY <2>1, <2>3, <2>4 DEF FileInv, FileSoFar
<1> QED BY <1>1, <1>2, <1>3 DEF TransportNext

-----------------------------------------------------------------------------
(* What the packets of a file are, and in which order                          *)

LEMMA OfIs ==
  ASSUME NEW T, out \in Seq(T), NEW from
  PROVE  /\ DOMAIN out = 1..Len(out)
         /\ \A k : k \in Merge!Of(from) <=> k \in 1..Len(out) /\ out[k].from = from
BY DEF Merge!Of

LEMMA SegmentsInFile ==
  /\ DOMAIN Segs = Merge!InFile
  /\ \A q \in DOMAIN Segs : Segs[q] = Merge!SegmentAt(q)
BY DEF Segs, SegmentsBy, Merge!InFile, Merge!SegmentAt

LEMMA InOrder ==
  ASSUME NEW T, out \in Seq(T), count \in Nat, NEW from, NEW m, NEW places \in SUBSET Positions(count),
         Track(out, from, UpTo(places, count, m)), m \in Nat,
         pc = "end" => \A p \in places : p.segment = count => p.at <= m
  PROVE  Merge!AllInOrder(from, places)
<1> DEFINE written == {Merge!Place(out[k]) : k \in Merge!Of(from)}
           read == UpTo(places, count, m)
<1>1. \A k : k \in Merge!Of(from) <=> k \in 1..Len(out) /\ out[k].from = from
  BY OfIs
<1>2. /\ \A k \in 1..Len(out) : out[k].from = from => Merge!Place(out[k]) \in read
      /\ \A p \in read : \E k \in 1..Len(out) : out[k].from = from /\ Merge!Place(out[k]) = p
      /\ \A k, l \in 1..Len(out) : k < l /\ out[k].from = from /\ out[l].from = from
                                     => Merge!Earlier(out[k], out[l])
  BY DEF Track
<1>3. written = read
  <2> HIDE DEF read
  <2>1. \A p \in written : p \in read
    BY <1>1, <1>2
  <2>2. \A p \in read : p \in written
    BY <1>1, <1>2
  <2> QED BY <2>1, <2>2
<1>4. \A k, l \in Merge!Of(from) : k < l => Merge!Earlier(out[k], out[l])
  BY <1>1, <1>2
<1>5. \A p \in places : p.segment \in 0..count /\ p.at \in Nat
  BY DEF Positions
<1>6. read \subseteq places
  BY DEF UpTo
<1>7. ASSUME NEW p \in places \ read
      PROVE  pc # "end" /\ \A q \in read : ~Merge!Earlier(p, q)
  <2>1. p.segment = count /\ ~(p.at <= m)
    BY <1>5 DEF UpTo
  <2>2. pc # "end"
    BY <2>1
  <2>3. ASSUME NEW q \in read
        PROVE  ~Merge!Earlier(p, q)
    <3>1. q \in places /\ (q.segment < count \/ q.at <= m)
      BY DEF UpTo
    <3> QED BY <1>5, <2>1, <3>1 DEF Merge!Earlier
  <2> QED BY <2>2, <2>3
<1> HIDE DEF read, written
<1>8. /\ written \subseteq places
      /\ \A p \in places \ written : pc # "end" /\ \A q \in written : ~Merge!Earlier(p, q)
  BY <1>3, <1>6, <1>7
<1> QED BY <1>4, <1>8 DEF Merge!AllInOrder, written

LEMMA PlacesAre ==
  ASSUME \A q \in DOMAIN Segs : Len(Segs[q].video) \in Nat /\ Len(Segs[q].audio) \in Nat,
         \A q \in DOMAIN Segs : q \in Nat,
         DOMAIN context.pmt2 = 1..Len(context.pmt2)
  PROVE  Merge!VideoPlaces = VideoWanted(Segs, context) /\ Merge!AudioPlaces = AudioWanted(Segs, context)
<1>1. ASSUME NEW p
      PROVE  p \in Merge!VideoPlaces <=> p \in VideoWanted(Segs, context)
  <2>1. p \in Merge!VideoPlaces <=>
          \E n \in DOMAIN Segs :
            /\ p \in [segment : {n}, at : 1..Len(Segs[n].video)]
            /\ Segs[p.segment].video[p.at].pid \notin {NULL, context.map_pid}
    BY SegmentsInFile DEF Merge!VideoPlaces
  <2>2. ASSUME NEW n \in DOMAIN Segs
        PROVE  p \in [segment : {n}, at : 1..Len(Segs[n].video)] <=>
                 /\ p \in [segment : DOMAIN Segs, at : Nat \ {0}]
                 /\ p.segment = n /\ p.at \in 1..Len(Segs[n].video)
    OBVIOUS
  <2>3. p \in VideoWanted(Segs, context) <=>
          /\ p \in [segment : DOMAIN Segs, at : Nat \ {0}] /\ p.at \in 1..Len(Segs[p.segment].video)
          /\ Segs[p.segment].video[p.at].pid \notin {NULL, context.map_pid}
    BY DEF VideoWanted
  <2>4. p \in [segment : DOMAIN Segs, at : Nat \ {0}] => p.segment \in DOMAIN Segs
    OBVIOUS
  <2> QED BY <2>1, <2>2, <2>3, <2>4
<1>2. ASSUME NEW p
      PROVE  p \in Merge!AudioPlaces <=> p \in AudioWanted(Segs, context)
  <2>1. p \in Merge!AudioPlaces <=>
          \E n \in DOMAIN Segs :
            /\ p \in [segment : {n}, at : 1..Len(Segs[n].audio)]
            /\ OfComponent(Segs[p.segment].audio[p.at].pid, context)
    BY SegmentsInFile DEF Merge!AudioPlaces, OfComponent
  <2>2. ASSUME NEW n \in DOMAIN Segs
        PROVE  p \in [segment : {n}, at : 1..Len(Segs[n].audio)] <=>
                 /\ p \in [segment : DOMAIN Segs, at : Nat \ {0}]
                 /\ p.segment = n /\ p.at \in 1..Len(Segs[n].audio)
    OBVIOUS
  <2>3. p \in AudioWanted(Segs, context) <=>
          /\ p \in [segment : DOMAIN Segs, at : Nat \ {0}] /\ p.at \in 1..Len(Segs[p.segment].audio)
          /\ OfComponent(Segs[p.segment].audio[p.at].pid, context)
    BY DEF AudioWanted
  <2>4. p \in [segment : DOMAIN Segs, at : Nat \ {0}] => p.segment \in DOMAIN Segs
    OBVIOUS
  <2> QED BY <2>1, <2>2, <2>3, <2>4
<1> QED BY <1>1, <1>2

LEMMA FileIs ==
  ASSUME FileSoFar, pc \notin {"begin", "failed"}
  PROVE  /\ Merging /\ Numbered(Segs, count) /\ Sound(context) /\ count \in Nat
         /\ i \in Nat /\ j \in Nat
         /\ \A q \in DOMAIN Segs :
              /\ Segs[q].video \in VideoSegments /\ Segs[q].audio \in AudioSegments
              /\ Len(Segs[q].video) \in Nat /\ Len(Segs[q].audio) \in Nat /\ q \in Nat
         /\ pc = "end" => i = Len(Segs[count].video) /\ j = Len(Segs[count].audio)
         /\ Merge!VideoPlaces = VideoWanted(Segs, context)
         /\ Merge!AudioPlaces = AudioWanted(Segs, context)
<1>1. Merging /\ ReadSoFar
  BY DEF FileSoFar, ContextSoFar, Merging
<1>2. /\ Numbered(Segs, count) /\ Sound(context)
      /\ Segs[count].video = Merge!video /\ Segs[count].audio = Merge!audio
      /\ Len(Merge!video) \in Nat \ {0} /\ Len(Merge!audio) \in Nat \ {0}
  BY <1>1, PresentSegment
<1>3. count \in Nat /\ i \in Nat /\ j \in Nat
      /\ (pc = "end" => i = Len(Segs[count].video) /\ j = Len(Segs[count].audio))
  BY <1>1, <1>2 DEF ReadSoFar, Merging
<1>4. ASSUME NEW q \in DOMAIN Segs
      PROVE  /\ Segs[q].video \in VideoSegments /\ Segs[q].audio \in AudioSegments
             /\ Len(Segs[q].video) \in Nat /\ Len(Segs[q].audio) \in Nat /\ q \in Nat
  <2>1. Segs[q] \in Pairs /\ q \in 0..count
    BY <1>2 DEF Numbered
  <2>2. Segs[q].video \in VideoSegments /\ Segs[q].audio \in AudioSegments
    BY <2>1 DEF Pairs
  <2> QED BY <1>3, <2>1, <2>2, SegmentsAssumption
<1>5. Merge!VideoPlaces = VideoWanted(Segs, context) /\ Merge!AudioPlaces = AudioWanted(Segs, context)
  BY <1>2, <1>4, PlacesAre DEF Sound
<1> QED BY <1>1, <1>2, <1>3, <1>4, <1>5

\* The packets of the file by where they are from.
LEMMA PacketsAre ==
  ASSUME FileSoFar, pc \notin {"begin", "failed"}
  PROVE  \A k \in DOMAIN out :
           /\ out[k].segment \in DOMAIN Segs /\ out[k].from \in {"video", "audio", "map"}
           /\ out[k].from = "video" =>
                /\ out[k].at \in 1..Len(Segs[out[k].segment].video)
                /\ out[k].pid = Segs[out[k].segment].video[out[k].at].pid
           /\ out[k].from = "audio" =>
                \E x : /\ FirstAt(x, context.pmt2, Segs[out[k].segment].audio[out[k].at].pid)
                       /\ out[k].pid = New(context)[x]
           /\ out[k].from = "map" => out[k].pid = context.map_pid /\ out[k].lists = context.pmt
<1> SUFFICES ASSUME NEW k \in DOMAIN out
             PROVE  /\ Known(out[k], Segs, context)
                    /\ out[k].from = "video" => out[k].at \in 1..Len(Segs[out[k].segment].video)
  BY DEF Known
<1>1. PICK T : out \in Seq(T)
  BY DEF FileSoFar
<1>2. k \in 1..Len(out)
  BY <1>1
<1>3. Good(out, Segs, count, context, i, j)
  BY DEF FileSoFar, GoodFile
<1>4. Known(out[k], Segs, context)
  BY <1>2, <1>3 DEF Good
<1>5. ASSUME out[k].from = "video"
      PROVE  out[k].at \in 1..Len(Segs[out[k].segment].video)
  <2>1. Merge!Place(out[k]) \in VideoWanted(Segs, context)
    BY <1>2, <1>3, <1>5 DEF Good, Track, UpTo
  <2>2. [segment |-> out[k].segment, at |-> out[k].at] \in VideoWanted(Segs, context)
    BY <2>1 DEF Merge!Place
  <2> DEFINE q == out[k].segment
             at == out[k].at
  <2>3. [segment |-> q, at |-> at] \in VideoWanted(Segs, context)
    BY <2>2
  <2> HIDE DEF q, at
  <2>4. at \in 1..Len(Segs[q].video)
    BY <2>3, FileIs, WantedAre
  <2> QED BY <2>4 DEF q, at
<1> QED BY <1>4, <1>5

\* Whatever is merged, with the maps of any packets, runs of any lengths, over all
\* segments of a file: no packet of the video gets lost, twice or out of order.
THEOREM VideoAlwaysKept == TransportSpec => []VideoKept
<1>1. FileInv => VideoKept
  <2> SUFFICES ASSUME FileSoFar, pc \notin {"begin", "failed"}
               PROVE  /\ Merge!AllInOrder("video", Merge!VideoPlaces)
                      /\ \A k \in Merge!Of("video") :
                           out[k].pid = Merge!SegmentAt(out[k].segment).video[out[k].at].pid
    BY DEF FileInv, VideoKept, Merge!VideoKept
  <2>1. PICK T : out \in Seq(T)
    BY DEF FileSoFar
  <2> DEFINE places == VideoWanted(Segs, context)
  <2>2. /\ count \in Nat /\ i \in Nat /\ Merge!VideoPlaces = places
        /\ pc = "end" => i = Len(Segs[count].video)
    BY FileIs
  <2>3. places \in SUBSET Positions(count)
    BY FileIs, WantedAre
  <2>4. Track(out, "video", UpTo(places, count, i))
    BY DEF FileSoFar, GoodFile, Good
  <2>5. pc = "end" => \A p \in places : p.segment = count => p.at <= i
    <3>1. \A p \in places : p.at \in Nat /\ p.at \in 1..Len(Segs[p.segment].video)
      BY DEF VideoWanted
    <3> HIDE DEF places
    <3>2. pc = "end" => \A p \in places : p.segment = count => p.at \in Nat /\ p.at \in 1..i
      BY <2>2, <3>1
    <3> QED BY <2>2, <3>2
  <2> HIDE DEF places
  <2>6. Merge!AllInOrder("video", places)
    BY <2>1, <2>2, <2>3, <2>4, <2>5, InOrder
  <2>7. \A k \in Merge!Of("video") : k \in DOMAIN out /\ out[k].from = "video"
    BY DEF Merge!Of
  <2> QED BY <2>2, <2>6, <2>7, PacketsAre, SegmentsInFile
<1> QED BY <1>1, FileInit, FileKept, PTL DEF TransportSpec, allVars

\* Whatever is merged, no packet of an audio component gets lost, twice or out of
\* order, and its new PID is the component's own in the whole file, which its program
\* maps list.  It is no PID of the video below the first new one, unless the new ones
\* run over the greatest PID (mpegts.c:527).
THEOREM AudioAlwaysKept == TransportSpec => []AudioKept
<1>1. FileInv => AudioKept
  <2> DEFINE component(k) == Merge!SegmentAt(out[k].segment).audio[out[k].at].pid
  <2> SUFFICES ASSUME FileSoFar, pc \notin {"begin", "failed"}
               PROVE  /\ Merge!AllInOrder("audio", Merge!AudioPlaces)
                      /\ \A k \in Merge!Of("audio") :
                         /\ \A l \in Merge!Of("audio") :
                              out[k].pid = out[l].pid <=> component(k) = component(l)
                         /\ \A l \in DOMAIN out \ Merge!Of("audio") :
                              out[k].pid = out[l].pid => Merge!MayMeet(out[l].pid)
                         /\ \A l \in Merge!Of("map") : \E c \in DOMAIN out[l].lists : out[k].pid = out[l].lists[c]
    BY DEF FileInv, AudioKept, Merge!AudioKept
  <2>1. PICK T : out \in Seq(T)
    BY DEF FileSoFar
  <2> DEFINE places == AudioWanted(Segs, context)
  <2>2. /\ count \in Nat /\ j \in Nat /\ Merge!AudioPlaces = places
        /\ pc = "end" => j = Len(Segs[count].audio)
    BY FileIs
  <2>3. places \in SUBSET Positions(count)
    BY FileIs, WantedAre
  <2>4. Track(out, "audio", UpTo(places, count, j))
    BY DEF FileSoFar, GoodFile, Good
  <2>5. pc = "end" => \A p \in places : p.segment = count => p.at <= j
    <3>1. \A p \in places : p.at \in Nat /\ p.at \in 1..Len(Segs[p.segment].audio)
      BY DEF AudioWanted
    <3> HIDE DEF places
    <3>2. pc = "end" => \A p \in places : p.segment = count => p.at \in Nat /\ p.at \in 1..j
      BY <2>2, <3>1
    <3> QED BY <2>2, <3>2
  <2> HIDE DEF places
  <2>6. Merge!AllInOrder("audio", places)
    BY <2>1, <2>2, <2>3, <2>4, <2>5, InOrder
  <2>7. Sound(context)
    BY FileIs
  <2>8. \A k \in DOMAIN out : k \in Merge!Of("audio") <=> out[k].from = "audio"
    BY DEF Merge!Of
  <2>9. \A k \in Merge!Of("audio") :
          \E x : FirstAt(x, context.pmt2, component(k)) /\ out[k].pid = New(context)[x]
    <3>1. \A k \in Merge!Of("audio") : k \in DOMAIN out /\ out[k].from = "audio"
      BY DEF Merge!Of
    <3> QED BY <3>1, PacketsAre, SegmentsInFile
  <2>10. ASSUME NEW k \in Merge!Of("audio")
         PROVE  /\ \A l \in Merge!Of("audio") : out[k].pid = out[l].pid <=> component(k) = component(l)
                /\ \A l \in DOMAIN out \ Merge!Of("audio") :
                     out[k].pid = out[l].pid => Merge!MayMeet(out[l].pid)
                /\ \A l \in Merge!Of("map") : \E c \in DOMAIN out[l].lists : out[k].pid = out[l].lists[c]
    <3>1. PICK x : FirstAt(x, context.pmt2, component(k)) /\ out[k].pid = New(context)[x]
      BY <2>9
    <3>2. x \in 1..Len(context.pmt2)
      BY <3>1 DEF FirstAt
    <3>3. /\ \A y \in 1..Len(context.pmt2) : New(context)[x] = New(context)[y] => x = y
          /\ CountedUp(New(context)[x], context)
          /\ Len(context.pmt) - Len(context.pmt2) + x \in DOMAIN context.pmt
          /\ context.pmt[Len(context.pmt) - Len(context.pmt2) + x] = New(context)[x]
      BY <2>7, <3>2 DEF Sound
    <3>4. ASSUME NEW l \in Merge!Of("audio")
          PROVE  out[k].pid = out[l].pid <=> component(k) = component(l)
      <4>1. PICK y : FirstAt(y, context.pmt2, component(l)) /\ out[l].pid = New(context)[y]
        BY <2>9
      <4> DEFINE p == component(k)
                 q == component(l)
      <4>2. FirstAt(x, context.pmt2, p) /\ FirstAt(y, context.pmt2, q)
        BY <3>1, <4>1
      <4> HIDE DEF p, q
      <4>3. x \in Nat /\ y \in Nat /\ y \in 1..Len(context.pmt2)
        BY <2>7, <4>2 DEF FirstAt, Sound
      <4>4. p = q <=> x = y
        BY <4>2, <4>3 DEF FirstAt
      <4>5. out[k].pid = out[l].pid <=> x = y
        BY <3>1, <3>3, <4>1, <4>3
      <4> QED BY <4>4, <4>5 DEF p, q
    <3>5. ASSUME NEW l \in DOMAIN out \ Merge!Of("audio")
          PROVE  out[k].pid = out[l].pid => Merge!MayMeet(out[l].pid)
      BY <3>1, <3>3 DEF CountedUp, Merge!MayMeet, Merge!Gap
    <3>6. ASSUME NEW l \in Merge!Of("map")
          PROVE  \E c \in DOMAIN out[l].lists : out[k].pid = out[l].lists[c]
      <4>1. l \in DOMAIN out /\ out[l].from = "map"
        BY DEF Merge!Of
      <4>2. out[l].lists = context.pmt
        BY <4>1, PacketsAre
      <4> QED BY <3>1, <3>3, <4>2
    <3> QED BY <3>4, <3>5, <3>6
  <2> QED BY <2>2, <2>6, <2>10
<1> QED BY <1>1, FileInit, FileKept, PTL DEF TransportSpec, allVars

LEMMA MergeCardinality == \A S : Merge!Cardinality(S) = Cardinality(S)
BY DEF Merge!Cardinality, Cardinality, Merge!IsFiniteSet, IsFiniteSet

\* Whatever is merged, a player that starts at any segment meets one merged map, and
\* ahead of everything behind the segment's program association.
THEOREM MapAlwaysAhead == TransportSpec => []MapAhead
<1>1. FileInv => MapAhead
  <2> SUFFICES ASSUME FileSoFar, NEW n \in Merge!InFile
               PROVE  LET maps   == {l \in Merge!Of("map") : out[l].segment = n}
                          others == {k \in DOMAIN out \ Merge!Of("map") : out[k].segment = n}
                      IN /\ Merge!Cardinality(maps) <= 1
                         /\ Merge!SegmentAt(n).video[1].pid = PAT =>
                              \A k, m \in others : k < m => \E l \in maps : l < m
    BY DEF FileInv, MapAhead, Merge!MapAhead
  <2> DEFINE maps   == {l \in Merge!Of("map") : out[l].segment = n}
             others == {k \in DOMAIN out \ Merge!Of("map") : out[k].segment = n}
  <2>1. PICK T : out \in Seq(T)
    BY DEF FileSoFar
  <2>2. n \in DOMAIN Segs /\ Segs[n] = Merge!SegmentAt(n)
    BY SegmentsInFile
  <2>3. Announced(out, Segs, n)
    BY <2>2 DEF FileSoFar, GoodFile, Good
  <2>4. /\ \A l : l \in maps <=> l \in 1..Len(out) /\ IsMap(out[l], n)
        /\ \A k \in others : k \in 1..Len(out) /\ out[k].from # "map" /\ out[k].segment = n
    BY <2>1 DEF Merge!Of, IsMap
  <2> HIDE DEF maps, others
  <2>5. \A k, l \in maps : k = l
    BY <2>3, <2>4 DEF Announced
  <2>6. Merge!Cardinality(maps) <= 1
    <3>1. CASE maps = {}
      <4>1. Cardinality(maps) = 0
        BY <3>1, FS_EmptySet
      <4> QED BY <4>1, MergeCardinality
    <3>2. CASE maps # {}
      <4>1. PICK l \in maps : maps = {l}
        BY <2>5, <3>2
      <4>2. Cardinality(maps) = 1
        BY <4>1, FS_Singleton
      <4> QED BY <4>2, MergeCardinality
    <3> QED BY <3>1, <3>2
  <2>7. ASSUME Merge!SegmentAt(n).video[1].pid = PAT, NEW k \in others, NEW m \in others, k < m
        PROVE  \E l \in maps : l < m
    BY <2>2, <2>3, <2>4, <2>7 DEF Announced
  <2> QED BY <2>6, <2>7 DEF maps, others
<1> QED BY <1>1, FileInit, FileKept, PTL DEF TransportSpec, allVars

-----------------------------------------------------------------------------
(* The units of a decrypted segment: positions in lists of packets             *)

\* Numbers of one set are matched with those of another in their order.
Matched(S, T, R) ==
  /\ Cardinality(S) = Cardinality(T)
  /\ \A k \in S, m \in T : Rank(k, S) = Rank(m, T) => <<k, m>> \in R

LEMMA RankWithOneMore ==
  ASSUME NEW S \in SUBSET Nat, IsFiniteSet(S), NEW x \in Nat, \A k \in S : k < x
  PROVE  /\ Cardinality(S) \in Nat /\ Cardinality(S \cup {x}) = Cardinality(S) + 1
         /\ Rank(x, S \cup {x}) = Cardinality(S) + 1
         /\ \A k \in S : /\ Rank(k, S \cup {x}) = Rank(k, S)
                         /\ Rank(k, S) \in Nat /\ Rank(k, S) <= Cardinality(S)
<1>1. x \notin S
  OBVIOUS
<1>2. Cardinality(S) \in Nat /\ Cardinality(S \cup {x}) = Cardinality(S) + 1
  BY <1>1, FS_AddElement, FS_CardinalityType
<1>3. {l \in S \cup {x} : l <= x} = S \cup {x}
  <2>1. \A l \in S \cup {x} : l <= x
    OBVIOUS
  <2> QED BY <2>1
<1>4. ASSUME NEW k \in S
      PROVE  /\ Rank(k, S \cup {x}) = Rank(k, S)
             /\ Rank(k, S) \in Nat /\ Rank(k, S) <= Cardinality(S)
  <2>1. {l \in S \cup {x} : l <= k} = {l \in S : l <= k} /\ {l \in S : l <= k} \in SUBSET S
    OBVIOUS
  <2> QED BY <2>1, FS_Subset, FS_CardinalityType DEF Rank
<1> QED BY <1>2, <1>3, <1>4 DEF Rank

LEMMA MatchedMore ==
  ASSUME NEW S \in SUBSET Nat, IsFiniteSet(S), NEW x \in Nat, \A k \in S : k < x,
         NEW T \in SUBSET Nat, IsFiniteSet(T), NEW y \in Nat, \A k \in T : k < y,
         NEW R, Matched(S, T, R), <<x, y>> \in R
  PROVE  Matched(S \cup {x}, T \cup {y}, R)
<1> DEFINE S2 == S \cup {x}
           T2 == T \cup {y}
<1>1. /\ Cardinality(S) \in Nat /\ Cardinality(S2) = Cardinality(S) + 1
      /\ Rank(x, S2) = Cardinality(S) + 1
      /\ \A k \in S : /\ Rank(k, S2) = Rank(k, S)
                      /\ Rank(k, S) \in Nat /\ Rank(k, S) <= Cardinality(S)
  BY RankWithOneMore
<1>2. /\ Cardinality(T) \in Nat /\ Cardinality(T2) = Cardinality(T) + 1
      /\ Rank(y, T2) = Cardinality(T) + 1
      /\ \A k \in T : /\ Rank(k, T2) = Rank(k, T)
                      /\ Rank(k, T) \in Nat /\ Rank(k, T) <= Cardinality(T)
  BY RankWithOneMore
<1>3. \A k \in S2 : k \in S \/ k = x
  OBVIOUS
<1>4. \A k \in T2 : k \in T \/ k = y
  OBVIOUS
<1>5. Cardinality(S) = Cardinality(T)
      /\ \A k \in S, m \in T : Rank(k, S) = Rank(m, T) => <<k, m>> \in R
  BY DEF Matched
<1> HIDE DEF S2, T2
<1>6. ASSUME NEW k \in S2, NEW m \in T2, Rank(k, S2) = Rank(m, T2) PROVE <<k, m>> \in R
  <2>1. CASE k \in S /\ m \in T
    BY <1>1, <1>2, <1>5, <1>6, <2>1
  <2>2. CASE k \in S /\ m = y
    BY <1>1, <1>2, <1>5, <1>6, <2>2
  <2>3. CASE k = x /\ m \in T
    BY <1>1, <1>2, <1>5, <1>6, <2>3
  <2> QED BY <1>3, <1>4, <2>1, <2>2, <2>3
<1>7. Matched(S2, T2, R)
  BY <1>1, <1>2, <1>5, <1>6 DEF Matched
<1> QED BY <1>7 DEF S2, T2

LEMMA Residues ==
  ASSUME NEW m \in Nat \ {0}, NEW p \in Nat, NEW q \in Nat, NEW a \in 0..(m - 1), NEW b \in 0..(m - 1),
         m * p + a = m * q + b
  PROVE  a = b
<1>1. m * p \in Nat /\ m * q \in Nat
  OBVIOUS
<1>2. CASE p = q
  BY <1>1, <1>2
<1>3. CASE p < q
  <2>1. PICK d \in Nat \ {0} : q = p + d
    <3>1. q - p \in Nat \ {0} /\ q = p + (q - p)
      BY <1>3
    <3> QED BY <3>1
  <2>2. m * q = m * p + m * d /\ m * d \in Nat /\ m * d >= m
    BY <2>1
  <2> QED BY <1>1, <2>2
<1>4. CASE q < p
  <2>1. PICK d \in Nat \ {0} : p = q + d
    <3>1. p - q \in Nat \ {0} /\ p = q + (p - q)
      BY <1>4
    <3> QED BY <3>1
  <2>2. m * p = m * q + m * d /\ m * d \in Nat /\ m * d >= m
    BY <2>1
  <2> QED BY <1>1, <2>2
<1> QED BY <1>2, <1>3, <1>4

\* A counter may be cut at any time.
LEMMA CutCounter ==
  ASSUME NEW m \in Nat \ {0}, NEW a \in Nat, NEW b \in Nat
  PROVE  ((a % m) + b) % m = (a + b) % m
<1> DEFINE r == a % m
           x == (r + b) % m
           y == (a + b) % m
           p == a \div m
           q == (r + b) \div m
           s == (a + b) \div m
<1>1. a = m * p + r /\ p \in Nat /\ r \in Nat
  OBVIOUS
<1> HIDE DEF r, p
<1>2. r + b = m * q + x /\ q \in Nat /\ x \in 0..(m - 1)
  BY <1>1
<1>3. a + b = m * s + y /\ s \in Nat /\ y \in 0..(m - 1)
  BY <1>1
<1> HIDE DEF q, s, x, y
<1>4. m * (p + q) = m * p + m * q /\ m * p \in Nat /\ m * q \in Nat /\ m * s \in Nat
  BY <1>1, <1>2, <1>3
<1>5. m * (p + q) + x = m * s + y
  BY <1>1, <1>2, <1>3, <1>4
<1>6. p + q \in Nat
  BY <1>1, <1>2
<1>7. x = y
  BY <1>2, <1>3, <1>5, <1>6, Residues
<1> QED BY <1>7 DEF x, y, r

\* What the properties read off a list of packets, for any list.
SizeOf(s, pid, k) == SumFunctionOnSet([l \in UnitAt(s, pid, k) |-> s[l].size], UnitAt(s, pid, k))

FoundAt(o, pid, k) ==
  [flags |-> o[k].flags,
   bytes |-> SumFunctionOnSet([l \in UnitAt(o, pid, k) |-> Received(o[l])], UnitAt(o, pid, k))]

Left(flags, n) == IF flags = "none" /\ n = Payload - 1 THEN Payload ELSE n

SentAt(s, pid, k) ==
  [flags |-> s[k].flags, bytes |-> Left(s[k].flags, SizeOf(s, pid, k) - s[k].removed)]

\* t goes on where s ends.
Continues(s, t) ==
  /\ Len(s) \in Nat /\ Len(t) \in Nat /\ Len(s) <= Len(t)
  /\ DOMAIN s = 1..Len(s) /\ DOMAIN t = 1..Len(t)
  /\ \A k \in 1..Len(s) : t[k] = s[k]

LEMMA ListContinues ==
  ASSUME NEW s, NEW u, IsList(s), IsList(u)
  PROVE  /\ Continues(s, s \o u) /\ Len(s \o u) = Len(s) + Len(u)
         /\ Len(s) \in Nat /\ Len(u) \in Nat
         /\ \A x \in 1..Len(u) : (s \o u)[Len(s) + x] = u[x]
<1>1. PICK S : s \in Seq(S)
  BY DEF IsList
<1>2. PICK U : u \in Seq(U)
  BY DEF IsList
<1>3. s \in Seq(S \cup U) /\ u \in Seq(S \cup U)
  BY <1>1, <1>2
<1> QED BY <1>3 DEF Continues

\* su is s and then u.
Lengthens(s, u, su) ==
  /\ Continues(s, su) /\ Len(su) = Len(s) + Len(u) /\ \A x \in 1..Len(u) : su[Len(s) + x] = u[x]

LEMMA ListLengthens ==
  ASSUME NEW s, NEW u, IsList(s), IsList(u)
  PROVE  Lengthens(s, u, s \o u)
BY ListContinues, Zenon DEF Lengthens

LEMMA AppendContinues ==
  ASSUME NEW s, NEW p, IsList(s)
  PROVE  /\ Continues(s, Append(s, p)) /\ Len(Append(s, p)) = Len(s) + 1
         /\ Append(s, p)[Len(s) + 1] = p
<1>1. PICK S : s \in Seq(S)
  BY DEF IsList
<1>2. s \in Seq(S \cup {p}) /\ p \in S \cup {p}
  BY <1>1
<1> QED BY <1>2 DEF Continues

\* The same unit at the same place.
SameUnit(s, t, pid, k) ==
  /\ t[k] = s[k] /\ UnitAt(t, pid, k) = UnitAt(s, pid, k)
  /\ SizeOf(t, pid, k) = SizeOf(s, pid, k) /\ FoundAt(t, pid, k) = FoundAt(s, pid, k)
  /\ SentAt(t, pid, k) = SentAt(s, pid, k)

LEMMA UnitStays ==
  ASSUME NEW s, NEW t, NEW pid, Continues(s, t), NEW k \in Starts(s, pid),
         UnitAt(t, pid, k) = UnitAt(s, pid, k)
  PROVE  SameUnit(s, t, pid, k)
<1>1. \A l \in Of(s, pid) : t[l] = s[l]
  BY DEF Continues, Of
<1>2. UnitAt(s, pid, k) \subseteq Of(s, pid) /\ k \in Of(s, pid)
  BY DEF UnitAt, Starts
<1>3. /\ [l \in UnitAt(t, pid, k) |-> t[l].size] = [l \in UnitAt(s, pid, k) |-> s[l].size]
      /\ [l \in UnitAt(t, pid, k) |-> Received(t[l])] = [l \in UnitAt(s, pid, k) |-> Received(s[l])]
  BY <1>1, <1>2
<1>4. t[k] = s[k]
  BY <1>1, <1>2
<1>5. SizeOf(t, pid, k) = SizeOf(s, pid, k)
  BY <1>3 DEF SizeOf
<1> QED BY <1>3, <1>4, <1>5 DEF SameUnit, FoundAt, SentAt

\* What t has behind s is of others.
OthersBehind(s, t, pid) == \A k \in 1..Len(t) : k > Len(s) => t[k].pid # pid

\* Packets of others change nothing.
LEMMA OthersFollow ==
  ASSUME NEW s, NEW t, NEW pid, Continues(s, t), OthersBehind(s, t, pid)
  PROVE  /\ Of(t, pid) = Of(s, pid) /\ Starts(t, pid) = Starts(s, pid)
         /\ \A k \in Of(s, pid) : t[k] = s[k]
         /\ \A k \in Starts(s, pid) : SameUnit(s, t, pid, k)
<1>1. Of(t, pid) = Of(s, pid) /\ \A k \in Of(s, pid) : t[k] = s[k]
  <2>1. \A k \in 1..Len(s) : k \in 1..Len(t) /\ t[k] = s[k]
    BY DEF Continues
  <2>2. \A k \in 1..Len(t) : k \in 1..Len(s) \/ k > Len(s)
    BY DEF Continues
  <2>3. DOMAIN s = 1..Len(s) /\ DOMAIN t = 1..Len(t)
    BY DEF Continues
  <2> QED BY <2>1, <2>2, <2>3 DEF Of, OthersBehind
<1>2. Starts(t, pid) = Starts(s, pid)
  BY <1>1 DEF Starts
<1>3. \A k \in Starts(s, pid) : UnitAt(t, pid, k) = UnitAt(s, pid, k)
  BY <1>1, <1>2 DEF UnitAt
<1> QED BY <1>1, <1>2, <1>3, UnitStays

\* The place after s, and the places that t has behind s.
Place(s)     == Len(s) + 1
Behind(s, t) == Place(s)..Len(t)

\* What t has behind s is one unit, which starts at y.
OneUnit(s, t, pid, y) ==
  \A k \in 1..Len(t) : k > Len(s) => t[k].pid = pid /\ (t[k].start <=> k = y)

LEMMA UnitFollows ==
  ASSUME NEW s, NEW t, NEW pid, Continues(s, t), Len(t) > Len(s),
         OneUnit(s, t, pid, Place(s))
  PROVE  /\ Of(t, pid) = Of(s, pid) \cup Behind(s, t) /\ Of(s, pid) \subseteq 1..Len(s)
         /\ Starts(t, pid) = Starts(s, pid) \cup {Place(s)}
         /\ Starts(s, pid) \subseteq 1..Len(s)
         /\ UnitAt(t, pid, Place(s)) = Behind(s, t)
         /\ \A k \in Of(s, pid) : t[k] = s[k]
         /\ \A k \in Starts(s, pid) : SameUnit(s, t, pid, k)
<1> DEFINE y   == Place(s)
           new == Behind(s, t)
<1>0. /\ y = Len(s) + 1 /\ Len(s) \in Nat /\ Len(t) \in Nat /\ y \in 1..Len(t)
      /\ new = y..Len(t) /\ DOMAIN s = 1..Len(s) /\ DOMAIN t = 1..Len(t)
  BY DEF Continues, Place, Behind
<1>00. OneUnit(s, t, pid, y)
  OBVIOUS
<1> HIDE DEF y, new
<1>1. \A k \in 1..Len(s) : k \in 1..Len(t) /\ t[k] = s[k]
  BY DEF Continues
<1>2. 1..Len(t) = (1..Len(s)) \cup new
  BY <1>0
<1>3. \A k \in new : k \in 1..Len(t) /\ t[k].pid = pid /\ (t[k].start <=> k = y)
  BY <1>0, <1>00 DEF OneUnit
<1>4. y \in new /\ \A k \in 1..Len(s), l \in new : k < l
  BY <1>0
<1>5. /\ Of(t, pid) = Of(s, pid) \cup new /\ Of(s, pid) \subseteq 1..Len(s)
      /\ \A k \in Of(s, pid) : t[k] = s[k]
  BY <1>0, <1>1, <1>2, <1>3 DEF Of
<1>6. Starts(t, pid) = Starts(s, pid) \cup {y} /\ Starts(s, pid) \subseteq 1..Len(s)
  BY <1>3, <1>4, <1>5 DEF Starts
<1>7. UnitAt(t, pid, y) = new
  <2>1. \A l \in new : y <= l
    BY <1>0
  <2>2. \A l \in Of(s, pid) : ~(y <= l)
    BY <1>0, <1>5
  <2>3. \A m \in Starts(t, pid) : m <= y
    BY <1>0, <1>6
  <2> QED BY <1>5, <2>1, <2>2, <2>3 DEF UnitAt
<1>8. ASSUME NEW k \in Starts(s, pid) PROVE UnitAt(t, pid, k) = UnitAt(s, pid, k)
  <2>1. ~(y <= k) /\ \A l \in new : ~(l < y)
    BY <1>0, <1>6
  <2>2. \A l \in Of(s, pid) : l < y
    BY <1>0, <1>5
  <2> QED BY <1>5, <1>6, <2>1, <2>2 DEF UnitAt
<1>9. \A k \in Starts(s, pid) : SameUnit(s, t, pid, k)
  BY <1>8, UnitStays
<1> QED BY <1>5, <1>6, <1>7, <1>9 DEF y, new

\* One packet more of the unit that started last.
Sized(t) == \A k \in 1..Len(t) : t[k].size \in Nat

Grown(s, t, pid) ==
  \A k \in Starts(s, pid) :
    /\ t[k] = s[k]
    /\ (\E m \in Starts(s, pid) : k < m) => SameUnit(s, t, pid, k)
    /\ (\A m \in Starts(s, pid) : m <= k) =>
         SizeOf(s, pid, k) \in Int /\ SizeOf(t, pid, k) = SizeOf(s, pid, k) + t[Len(t)].size

LEMMA MoreFollows ==
  ASSUME NEW s, NEW t, NEW pid, Continues(s, t), Len(t) = Len(s) + 1,
         t[Len(t)].pid = pid, ~t[Len(t)].start, Sized(t)
  PROVE  Starts(t, pid) = Starts(s, pid) /\ Grown(s, t, pid)
<1> DEFINE n == Len(t)
<1>0. /\ Len(s) \in Nat /\ n = Len(s) + 1 /\ n \notin 1..Len(s) /\ n \in Nat
      /\ DOMAIN s = 1..Len(s) /\ DOMAIN t = 1..n /\ 1..n = (1..Len(s)) \cup {n}
      /\ \A k \in 1..Len(s) : t[k] = s[k] /\ k < n
  BY DEF Continues
<1>1. Of(t, pid) = Of(s, pid) \cup {n} /\ Of(s, pid) \subseteq 1..Len(s)
  BY <1>0 DEF Of
<1>2. Starts(t, pid) = Starts(s, pid) /\ Starts(s, pid) \subseteq 1..Len(s)
  BY <1>0, <1>1 DEF Starts
<1> SUFFICES ASSUME NEW k \in Starts(s, pid)
             PROVE  /\ t[k] = s[k]
                    /\ (\E m \in Starts(s, pid) : k < m) => SameUnit(s, t, pid, k)
                    /\ (\A m \in Starts(s, pid) : m <= k) =>
                         /\ SizeOf(s, pid, k) \in Int
                         /\ SizeOf(t, pid, k) = SizeOf(s, pid, k) + t[n].size
  BY <1>2 DEF Grown
<1>3. t[k] = s[k] /\ k < n /\ k \in Nat
  BY <1>0, <1>2
<1>4. ASSUME NEW m \in Starts(s, pid), k < m PROVE SameUnit(s, t, pid, k)
  <2>1. m < n /\ m \in Nat
    BY <1>0, <1>2
  <2>2. ~(m <= k \/ n < m)
    BY <1>0, <1>3, <1>4, <2>1
  <2>3. UnitAt(t, pid, k) = UnitAt(s, pid, k)
    BY <1>1, <1>2, <2>2 DEF UnitAt
  <2> QED BY <2>3, UnitStays
<1>5. ASSUME \A m \in Starts(s, pid) : m <= k
      PROVE  SizeOf(s, pid, k) \in Int /\ SizeOf(t, pid, k) = SizeOf(s, pid, k) + t[n].size
  <2> DEFINE S == UnitAt(s, pid, k)
             f == [l \in S |-> s[l].size]
             e == [l \in S \cup {n} |-> t[l].size]
  <2>1. UnitAt(t, pid, k) = S \cup {n}
    BY <1>1, <1>2, <1>3, <1>5 DEF UnitAt
  <2>2. S \in SUBSET (1..Len(s))
    BY <1>1 DEF UnitAt
  <2>3. IsFiniteSet(S) /\ n \notin S
    <3>1. IsFiniteSet(1..Len(s))
      BY <1>0, FS_Interval
    <3> HIDE DEF S, n
    <3> QED BY <1>0, <2>2, <3>1, FS_Subset
  <2>4. S \cup {n} \subseteq 1..n
    BY <1>0, <2>2
  <2>5. \A l \in S \cup {n} : e[l] = t[l].size
    OBVIOUS
  <2>6. Integral(e, S \cup {n})
    BY <2>4, <2>5 DEF Integral, Sized
  <2>7. \A l \in S : e[l] = f[l]
    BY <1>0, <2>2
  <2>8. e[n] = t[n].size /\ e[n] \in Int
    BY <1>0 DEF Sized
  <2>9. SizeOf(s, pid, k) = SumFunctionOnSet(f, S)
    BY DEF SizeOf
  <2>10. SizeOf(t, pid, k) = SumFunctionOnSet(e, S \cup {n})
    BY <2>1 DEF SizeOf
  <2> HIDE DEF S, f, e, n
  <2>11. SumFunctionOnSet(f, S) \in Int /\ SumFunctionOnSet(e, S \cup {n}) = e[n] + SumFunctionOnSet(f, S)
    BY <2>3, <2>6, <2>7, SumWithOneMore
  <2> QED BY <2>8, <2>9, <2>10, <2>11
<1> QED BY <1>3, <1>4, <1>5

\* u are the packets of a unit: the first holds `size` of its n bytes, then come `full`
\* packets, and the last holds the rest if there is any.
Cut(u, pid, n, flags, from, size, full, rest) ==
  /\ Len(u) = 1 + full + (IF rest = 0 THEN 0 ELSE 1)
  /\ u[1].flags = flags /\ Received(u[1]) = Left(flags, size)
  /\ n = size + full * Payload + rest
  /\ full * Payload + rest # 0 => Left(flags, size) = size /\ Left(flags, n) = n
  /\ \A x \in 2..(1 + full) : Received(u[x]) = Payload
  /\ rest # 0 => Received(u[2 + full]) = rest
  /\ \A x \in 1..Len(u) : /\ u[x].pid = pid /\ (u[x].start <=> x = 1)
                          /\ u[x].counter = (from + x - 1) % Counters

LEMMA UnitIsWritten ==
  ASSUME NEW pid, NEW n \in Nat, NEW flags \in DOMAIN FlagBytes, NEW from \in Nat,
         NEW u, u = Appended(pid, n, flags, from)
  PROVE  /\ IsList(u)
         /\ \E size, full \in Nat, rest \in 0..(Payload - 1) :
              Cut(u, pid, n, flags, from, size, full, rest)
<1> DEFINE adaptation == Adaptation(flags, n)
           first == FirstPacket(pid, n, flags, from)
           size  == first.size
           m     == n - size
           full  == m \div Payload
           rest  == m % Payload
<1>1. flags \in {"pcr", "mark", "none"} /\ Payload \in Nat /\ Payload > 8
  BY SizesAssumption DEF FlagBytes
<1>2. adaptation \in 0..8
  BY <1>1 DEF Adaptation
<1>3. size = Least(n, Payload - adaptation)
  <2>1. Min({n, Payload - adaptation}) = Least(n, Payload - adaptation)
    <3>1. \E x \in {n, Payload - adaptation} : \A y \in {n, Payload - adaptation} : x <= y
      BY <1>1, <1>2
    <3> HIDE DEF adaptation
    <3> QED BY <1>1, <1>2, <3>1 DEF Min, Least
  <2> QED BY <2>1 DEF FirstPacket, Packet
<1>4. /\ first.pid = pid /\ first.start /\ first.flags = flags
      /\ first.counter = from % Counters
      /\ first.length = (IF adaptation = 0 THEN 0 ELSE Payload - size - 1)
      /\ first.announced = (first.length # 0)
  BY DEF FirstPacket, Packet
<1>5. size \in Nat /\ size <= n
  BY <1>1, <1>2, <1>3 DEF Least
<1>6. Received(first) = Left(flags, size) /\ (m # 0 => Left(flags, size) = size /\ Left(flags, n) = n)
  <2>1. Received(first) = IF first.length # 0 THEN Payload - 1 - first.length ELSE Payload
    BY <1>4 DEF Received
  <2>2. adaptation = CASE flags = "pcr"  -> 8
                       [] flags = "mark" -> 2
                       [] flags = "none" -> IF n >= Payload THEN 0
                                            ELSE IF Payload - n = 1 THEN 1 ELSE 2
    BY DEF Adaptation
  <2> HIDE DEF adaptation, size, first
  <2>3. CASE flags = "pcr"
    BY <1>1, <1>3, <1>4, <1>5, <2>1, <2>2, <2>3 DEF Least, Left
  <2>4. CASE flags = "mark"
    BY <1>1, <1>3, <1>4, <1>5, <2>1, <2>2, <2>4 DEF Least, Left
  <2>5. CASE flags = "none"
    BY <1>1, <1>3, <1>4, <1>5, <2>1, <2>2, <2>5 DEF Least, Left
  <2> QED BY <1>1, <2>3, <2>4, <2>5
<1>7. m \in Nat /\ n = size + m
  BY <1>5
<1> HIDE DEF size, m, first, adaptation
<1>8. full \in Nat /\ rest \in 0..(Payload - 1) /\ m = full * Payload + rest
  BY <1>1, <1>7
<1>9. full * Payload \in Nat /\ n = size + full * Payload + rest
  BY <1>1, <1>5, <1>7, <1>8
<1> DEFINE head   == <<first>>
           middle == [k \in 1..full |-> FullPacket(pid, from + k)]
           last   == LastPacket(pid, rest, from + full + 1)
           tail   == IF rest = 0 THEN <<>> ELSE <<last>>
<1>10. u = (head \o middle) \o tail
  BY DEF Appended, first, m, size
<1>11. IsList(head) /\ Len(head) = 1 /\ head[1] = first
  <2>1. head \in Seq({first})
    OBVIOUS
  <2> QED BY <2>1 DEF IsList
<1>12. /\ IsList(middle) /\ Len(middle) = full
       /\ \A x \in 1..full : middle[x] = FullPacket(pid, from + x)
  <2> HIDE DEF full
  <2>1. DOMAIN middle = 1..full
    OBVIOUS
  <2>2. middle \in Seq({FullPacket(pid, from + k) : k \in 1..full})
    <3> DEFINE P == {FullPacket(pid, from + k) : k \in 1..full}
    <3>1. full \in Nat
      BY <1>8
    <3>2. middle \in [1..full -> P]
      OBVIOUS
    <3> HIDE DEF middle, P
    <3>3. middle \in Seq(P)
      BY <3>1, <3>2
    <3> QED BY <3>3 DEF P
  <2>3. \A x \in 1..full : middle[x] = FullPacket(pid, from + x)
    OBVIOUS
  <2> HIDE DEF middle
  <2> QED BY <1>8, <2>1, <2>2, <2>3 DEF IsList
<1>13. /\ IsList(tail) /\ Len(tail) = IF rest = 0 THEN 0 ELSE 1
       /\ rest # 0 => tail[1] = last
  <2>0. tail = IF rest = 0 THEN <<>> ELSE <<last>>
    OBVIOUS
  <2> HIDE DEF last, rest, tail
  <2>1. <<last>> \in Seq({last}) /\ <<>> \in Seq({last}) /\ Len(<<last>>) = 1 /\ Len(<<>>) = 0
    OBVIOUS
  <2>2. CASE rest = 0
    <3>1. tail = <<>>
      BY <2>0, <2>2
    <3> QED BY <2>1, <2>2, <3>1 DEF IsList
  <2>3. CASE rest # 0
    <3>1. tail = <<last>> /\ <<last>>[1] = last
      BY <2>0, <2>3
    <3>2. IsList(tail) /\ Len(tail) = 1
      BY <2>1, <3>1 DEF IsList
    <3> QED BY <2>3, <3>1, <3>2
  <2> QED BY <2>2, <2>3
<1> HIDE DEF head, middle, tail, full, rest
<1>14. IsList(head \o middle) /\ Len(head \o middle) = 1 + full
       /\ (head \o middle)[1] = first
       /\ \A x \in 1..full : (head \o middle)[1 + x] = FullPacket(pid, from + x)
  <2>1. IsList(head \o middle)
    BY <1>11, <1>12, ListsJoin
  <2>2. Continues(head, head \o middle) /\ Len(head \o middle) = 1 + full
        /\ \A x \in 1..full : (head \o middle)[1 + x] = middle[x]
    <3>1. /\ Continues(head, head \o middle) /\ Len(head \o middle) = Len(head) + Len(middle)
          /\ \A x \in 1..Len(middle) : (head \o middle)[Len(head) + x] = middle[x]
      <4>1. Lengthens(head, middle, head \o middle)
        BY <1>11, <1>12, ListLengthens
      <4> QED BY <4>1, Zenon DEF Lengthens
    <3> QED BY <1>11, <1>12, <3>1
  <2>3. (head \o middle)[1] = head[1]
    BY <1>11, <2>2 DEF Continues
  <2> QED BY <1>11, <1>12, <2>1, <2>2, <2>3
<1>15. /\ Len(u) = 1 + full + (IF rest = 0 THEN 0 ELSE 1)
       /\ u[1] = first
       /\ \A x \in 1..full : u[1 + x] = FullPacket(pid, from + x)
       /\ rest # 0 => u[(1 + full) + 1] = last
  <2>1. /\ Continues(head \o middle, u) /\ Len(u) = 1 + full + Len(tail)
        /\ \A x \in 1..Len(tail) : u[(1 + full) + x] = tail[x]
    <3> DEFINE front == head \o middle
    <3>1. IsList(front) /\ Len(front) = 1 + full /\ u = front \o tail
      BY <1>10, <1>14
    <3> HIDE DEF front
    <3>2. /\ Continues(front, front \o tail) /\ Len(front \o tail) = Len(front) + Len(tail)
          /\ \A x \in 1..Len(tail) : (front \o tail)[Len(front) + x] = tail[x]
      <4>1. Lengthens(front, tail, front \o tail)
        BY <1>13, <3>1, ListLengthens
      <4> QED BY <4>1, Zenon DEF Lengthens
    <3>3. /\ Continues(front, u) /\ Len(u) = 1 + full + Len(tail)
          /\ \A x \in 1..Len(tail) : u[(1 + full) + x] = tail[x]
      BY <3>1, <3>2
    <3> QED BY <3>3 DEF front
  <2>2. \A x \in 1..(1 + full) : u[x] = (head \o middle)[x]
    BY <1>14, <2>1 DEF Continues
  <2>3. u[1] = first
    BY <1>8, <1>14, <2>2
  <2>4. \A x \in 1..full : 1 + x \in 1..(1 + full)
    BY <1>8
  <2>5. \A x \in 1..full : u[1 + x] = FullPacket(pid, from + x)
    BY <1>14, <2>2, <2>4
  <2>6. ASSUME rest # 0 PROVE u[(1 + full) + 1] = last
    <3>1. Len(tail) = 1 /\ tail[1] = last /\ 1 \in 1..Len(tail)
      BY <1>13, <2>6
    <3> QED BY <2>1, <3>1
  <2> QED BY <1>13, <2>1, <2>3, <2>5, <2>6
<1>16. \A x \in 1..full : LET p == FullPacket(pid, from + x)
                          IN /\ p.pid = pid /\ ~p.start /\ Received(p) = Payload
                             /\ p.counter = (from + x) % Counters
  BY DEF FullPacket, Packet, Received
<1>17. /\ last.pid = pid /\ ~last.start /\ last.counter = (from + full + 1) % Counters
       /\ Received(last) = rest
  BY <1>1, <1>8 DEF LastPacket, Packet, Received
<1> HIDE DEF last
<1>18. ASSUME NEW x \in 1..Len(u)
       PROVE  /\ u[x].pid = pid /\ (u[x].start <=> x = 1)
              /\ u[x].counter = (from + x - 1) % Counters
  <2>1. CASE x = 1
    <3>1. from + x - 1 = from
      BY <2>1
    <3> QED BY <1>4, <1>15, <2>1, <3>1
  <2>2. CASE x \in 2..(1 + full)
    <3>1. x - 1 \in 1..full /\ 1 + (x - 1) = x /\ from + (x - 1) = from + x - 1 /\ x # 1
      BY <1>8, <2>2
    <3>2. u[x] = FullPacket(pid, from + (x - 1))
      BY <1>15, <3>1
    <3> QED BY <1>16, <3>1, <3>2
  <2>3. CASE x > 1 + full
    <3>1. rest # 0 /\ x = (1 + full) + 1 /\ x # 1 /\ from + full + 1 = from + x - 1
      BY <1>8, <1>15, <2>3
    <3> QED BY <1>15, <1>17, <3>1
  <2> QED BY <1>8, <2>1, <2>2, <2>3
<1>19. \A x \in 2..(1 + full) : Received(u[x]) = Payload
  <2> SUFFICES ASSUME NEW x \in 2..(1 + full) PROVE Received(u[x]) = Payload
    OBVIOUS
  <2>1. x - 1 \in 1..full /\ 1 + (x - 1) = x
    BY <1>8
  <2>2. u[x] = FullPacket(pid, from + (x - 1))
    BY <1>15, <2>1
  <2> QED BY <1>16, <2>1, <2>2
<1>20. rest # 0 => Received(u[2 + full]) = rest
  <2>1. (1 + full) + 1 = 2 + full
    BY <1>8
  <2> QED BY <1>15, <1>17, <2>1
<1>21. full * Payload + rest # 0 => m # 0
  BY <1>8
<1>22. u[1].flags = flags /\ Received(u[1]) = Left(flags, size)
  BY <1>4, <1>6, <1>15
<1>23. full * Payload + rest # 0 => Left(flags, size) = size /\ Left(flags, n) = n
  BY <1>6, <1>21
<1>24. Cut(u, pid, n, flags, from, size, full, rest)
  BY <1>9, <1>15, <1>18, <1>19, <1>20, <1>22, <1>23 DEF Cut
<1>25. IsList(u)
  BY <1>10, <1>13, <1>14, ListsJoin
<1> QED BY <1>5, <1>8, <1>24, <1>25

\* What a receiver finds in the packets u is in w, behind position a.
ReceivedIn(w, a, u) == \A x \in 1..Len(u) : w[a + x] = Received(u[x])

Run(a, n) == (a + 1)..(a + n)

\* A receiver finds all bytes of the unit.
LEMMA UnitReceived ==
  ASSUME NEW pid, NEW n \in Nat, NEW flags \in DOMAIN FlagBytes, NEW from \in Nat,
         NEW u, u = Appended(pid, n, flags, from), NEW a \in Nat, NEW w, ReceivedIn(w, a, u)
  PROVE  SumFunctionOnSet(w, Run(a, Len(u))) = Left(flags, n)
<1>0. PICK size \in Nat, full \in Nat, rest \in 0..(Payload - 1) :
        Cut(u, pid, n, flags, from, size, full, rest)
  BY UnitIsWritten
<1>1. /\ Len(u) = 1 + full + (IF rest = 0 THEN 0 ELSE 1)
      /\ Received(u[1]) = Left(flags, size)
      /\ n = size + full * Payload + rest
      /\ full * Payload + rest # 0 => Left(flags, size) = size /\ Left(flags, n) = n
      /\ \A x \in 2..(1 + full) : Received(u[x]) = Payload
      /\ rest # 0 => Received(u[2 + full]) = rest
  BY <1>0 DEF Cut
<1> DEFINE M == (a + 2)..(a + 1 + full)
           A == M \cup {a + 1}
<1>2. Payload \in Nat /\ full * Payload \in Nat /\ Left(flags, size) \in Nat
  <2>1. Payload \in Nat
    BY SizesAssumption
  <2> QED BY <2>1 DEF Left
<1>3. IsFiniteSet(M) /\ Cardinality(M) = full
  <2>1. a + 2 \in Int /\ a + 1 + full \in Int /\ (a + 1 + full) - (a + 2) + 1 = full
    BY <1>1
  <2>2. CASE full = 0
    <3>1. M = {}
      BY <2>2
    <3> QED BY <2>2, <3>1, FS_EmptySet
  <2>3. CASE full # 0
    <3>1. a + 2 <= a + 1 + full
      BY <1>1, <2>3
    <3> HIDE DEF M
    <3>2. M = (a + 2)..(a + 1 + full)
      BY DEF M
    <3> QED BY <2>1, <3>1, <3>2, FS_Interval
  <2> QED BY <2>2, <2>3
<1>4. \A x \in M : w[x] = Payload
  <2> SUFFICES ASSUME NEW x \in M PROVE w[x] = Payload
    OBVIOUS
  <2>1. x - a \in 2..(1 + full) /\ x - a \in 1..Len(u) /\ a + (x - a) = x
    BY <1>1
  <2> QED BY <1>1, <2>1 DEF ReceivedIn
<1>5. w[a + 1] = Left(flags, size)
  <2>1. 1 \in 1..Len(u)
    BY <1>1
  <2> QED BY <1>1, <2>1 DEF ReceivedIn
<1>6. SumFunctionOnSet(w, M) = full * Payload
  <2> HIDE DEF M
  <2>1. SumFunctionOnSet(w, M) = Cardinality(M) * Payload
    BY <1>2, <1>3, <1>4, SumOfEqual
  <2> QED BY <1>3, <2>1
<1>7. a + 1 \notin M
  BY <1>1
<1> HIDE DEF M
<1>8. IsFiniteSet(A) /\ Integral(w, A)
  <2>1. IsFiniteSet(A)
    BY <1>3, FS_AddElement
  <2>2. Integral(w, A)
    BY <1>2, <1>4, <1>5 DEF Integral
  <2> QED BY <2>1, <2>2
<1>9. SumFunctionOnSet(w, A) = Left(flags, size) + full * Payload
  <2>1. SumFunctionOnSet(w, M \cup {a + 1}) = w[a + 1] + SumFunctionOnSet(w, M)
    BY <1>3, <1>7, <1>8, SumWithOneMore
  <2> QED BY <1>5, <1>6, <2>1
<1>10. CASE rest = 0
  <2>1. A = Run(a, Len(u))
    BY <1>1, <1>10 DEF M, Run
  <2>2. Left(flags, size) + full * Payload = Left(flags, n)
    <3>1. CASE full * Payload = 0
      <4>1. n = size
        BY <1>1, <1>10, <3>1
      <4> QED BY <1>2, <3>1, <4>1
    <3>2. CASE full * Payload # 0
      BY <1>1, <1>2, <1>10, <3>2
    <3> QED BY <3>1, <3>2
  <2> HIDE DEF A
  <2> QED BY <1>9, <2>1, <2>2
<1>11. CASE rest # 0
  <2> DEFINE z == a + (2 + full)
  <2>1. A \cup {z} = Run(a, Len(u))
    <3>1. Len(u) = 2 + full
      BY <1>1, <1>11
    <3>2. (a + 2)..(a + 1 + full) \cup {a + 1} \cup {a + (2 + full)} = (a + 1)..(a + (2 + full))
      OBVIOUS
    <3> QED BY <3>1, <3>2 DEF M, Run
  <2>2. z \notin A
    BY <1>1 DEF M
  <2>3. w[z] = rest
    <3>1. 2 + full \in 1..Len(u)
      BY <1>1, <1>11
    <3> QED BY <1>1, <1>11, <3>1 DEF ReceivedIn
  <2> HIDE DEF A, z
  <2>4. Integral(w, A \cup {z})
    BY <1>8, <2>3 DEF Integral
  <2>5. SumFunctionOnSet(w, A \cup {z}) = w[z] + SumFunctionOnSet(w, A)
    BY <1>8, <2>2, <2>4, SumWithOneMore
  <2>6. full * Payload + rest # 0
    BY <1>2, <1>11
  <2>7. Left(flags, size) = size /\ Left(flags, n) = n
    BY <1>1, <2>6
  <2>8. SumFunctionOnSet(w, A \cup {z}) = rest + (size + full * Payload)
    BY <1>9, <2>3, <2>5, <2>7
  <2>9. rest + (size + full * Payload) = n
    BY <1>1, <1>2
  <2> QED BY <2>1, <2>7, <2>8, <2>9
<1> QED BY <1>10, <1>11

\* n places behind a are ranked behind those of S, which keep their ranks.
RunRanks(S, a, n) ==
  /\ \A x \in 1..n : Rank(a + x, S \cup Run(a, n)) = Cardinality(S) + x
  /\ \A k \in S : Rank(k, S \cup Run(a, n)) = Rank(k, S) /\ Rank(k, S) \in Nat \ {0}

LEMMA RankInRun ==
  ASSUME NEW a \in Nat, NEW S \in SUBSET (1..a), NEW n \in Nat
  PROVE  /\ IsFiniteSet(S) /\ Cardinality(S) \in Nat
         /\ Cardinality(S \cup Run(a, n)) = Cardinality(S) + n
         /\ RunRanks(S, a, n)
<1> DEFINE all == S \cup Run(a, n)
<1>0. all = S \cup ((a + 1)..(a + n))
  BY DEF Run
<1> HIDE DEF all
<1>1. IsFiniteSet(S) /\ Cardinality(S) \in Nat
  <2>1. IsFiniteSet(1..a)
    BY FS_Interval
  <2> QED BY <2>1, FS_Subset, FS_CardinalityType
<1>2. ASSUME NEW m \in Nat
      PROVE  Cardinality(S \cup ((a + 1)..(a + m))) = Cardinality(S) + m
  <2> DEFINE N == (a + 1)..(a + m)
  <2>1. IsFiniteSet(N) /\ Cardinality(N) = m
    <3>1. CASE m = 0
      <4>1. N = {}
        BY <3>1
      <4> QED BY <3>1, <4>1, FS_EmptySet
    <3>2. CASE m # 0
      <4>1. a + 1 \in Int /\ a + m \in Int /\ a + 1 <= a + m /\ (a + m) - (a + 1) + 1 = m
        BY <3>2
      <4> QED BY <4>1, FS_Interval
    <3> QED BY <3>1, <3>2
  <2>2. S \cap N = {}
    OBVIOUS
  <2> HIDE DEF N
  <2>3. Cardinality(S \cup N) = Cardinality(S) + Cardinality(N) - Cardinality(S \cap N)
    BY <1>1, <2>1, FS_Union
  <2>4. Cardinality(S \cap N) = 0
    BY <2>2, FS_EmptySet
  <2>5. Cardinality(S \cup N) = Cardinality(S) + m
    BY <1>1, <2>1, <2>3, <2>4
  <2> QED BY <2>5 DEF N
<1>3. ASSUME NEW x \in 1..n PROVE Rank(a + x, all) = Cardinality(S) + x
  <2>1. {l \in all : l <= a + x} = S \cup ((a + 1)..(a + x))
    <3>1. \A l \in S : l <= a + x
      OBVIOUS
    <3>2. \A l : l \in (a + 1)..(a + n) /\ l <= a + x <=> l \in (a + 1)..(a + x)
      OBVIOUS
    <3> QED BY <1>0, <3>1, <3>2
  <2>2. x \in Nat
    OBVIOUS
  <2> QED BY <1>2, <2>1, <2>2 DEF Rank
<1>4. ASSUME NEW k \in S PROVE Rank(k, all) = Rank(k, S) /\ Rank(k, S) \in Nat \ {0}
  <2> DEFINE low == {l \in S : l <= k}
  <2>1. {l \in all : l <= k} = low /\ k \in low /\ low \in SUBSET S
    BY <1>0
  <2> HIDE DEF low
  <2>2. IsFiniteSet(low)
    BY <1>1, <2>1, FS_Subset
  <2>3. Cardinality(low) \in Nat /\ Cardinality(low) # 0
    BY <2>1, <2>2, FS_CardinalityType, FS_EmptySet
  <2> QED BY <2>1, <2>3 DEF Rank, low
<1>5. Cardinality(all) = Cardinality(S) + n
  BY <1>0, <1>2
<1> QED BY <1>1, <1>3, <1>4, <1>5 DEF all, RunRanks

-----------------------------------------------------------------------------
(* The units of a decrypted segment: what has been written of those that came in *)

\* The units of the packets s with more than a header, and those of them that are complete
\* because the next one has started.
KeptIn(s, pid)   == {k \in Starts(s, pid) : SizeOf(s, pid, k) > PesHeader}
Followed(s, pid) == {k \in KeptIn(s, pid) : \E m \in Starts(s, pid) : k < m}

\* Places of units in the input and in the output with the same flags and bytes.
Same(s, o, pid) == {p \in Nat \X Nat : FoundAt(o, pid, p[2]) = SentAt(s, pid, p[1])}

CountersRun(o, pid) ==
  \A k \in Of(o, pid) : o[k].counter = (Rank(k, Of(o, pid)) - 1) % Counters

\* The units S of the input s are those of the output o.
Streams(S, s, o, pid) == Matched(S, Starts(o, pid), Same(s, o, pid)) /\ CountersRun(o, pid)

\* What is remembered of the unit that started last.
Current(s, pid, b, r, f) ==
  /\ b \in [size : Nat, whole : BOOLEAN] /\ r \in Nat /\ r <= b.size /\ f \in DOMAIN FlagBytes
  /\ b.whole <=> Starts(s, pid) # {}
  /\ \A k \in Starts(s, pid) : (\A m \in Starts(s, pid) : m <= k) =>
       b.size = SizeOf(s, pid, k) /\ f = s[k].flags /\ r = s[k].removed

LEMMA StartsFinite ==
  ASSUME NEW s, IsList(s), NEW pid
  PROVE  /\ Starts(s, pid) \in SUBSET (1..Len(s)) /\ Of(s, pid) \in SUBSET (1..Len(s))
         /\ Len(s) \in Nat /\ IsFiniteSet(Starts(s, pid))
         /\ Starts(s, pid) # {} =>
              \E k \in Starts(s, pid) : \A m \in Starts(s, pid) : m <= k
<1>1. PICK S : s \in Seq(S)
  BY DEF IsList
<1>2. Len(s) \in Nat /\ DOMAIN s = 1..Len(s)
  BY <1>1
<1>3. Of(s, pid) \in SUBSET (1..Len(s)) /\ Starts(s, pid) \in SUBSET (1..Len(s))
  BY <1>2 DEF Of, Starts
<1>4. IsFiniteSet(1..Len(s))
  BY <1>2, FS_Interval
<1>5. IsFiniteSet(Starts(s, pid))
  BY <1>3, <1>4, FS_Subset
<1>6. Starts(s, pid) \in SUBSET Nat
  BY <1>2, <1>3
<1>7. ASSUME Starts(s, pid) # {}
      PROVE  \E k \in Starts(s, pid) : \A m \in Starts(s, pid) : m <= k
  <2>1. Max(Starts(s, pid)) \in Starts(s, pid)
        /\ \A m \in Starts(s, pid) : m <= Max(Starts(s, pid))
    BY <1>5, <1>6, <1>7, MaxOfFinite
  <2> QED BY <2>1
<1> QED BY <1>2, <1>3, <1>5, <1>7

\* Packets of others in the output.
LEMMA StreamsStay ==
  ASSUME NEW s, NEW o, NEW t, NEW pid, NEW S, Streams(S, s, o, pid), Continues(o, t),
         OthersBehind(o, t, pid)
  PROVE  Streams(S, s, t, pid) /\ Of(t, pid) = Of(o, pid)
<1>1. /\ Of(t, pid) = Of(o, pid) /\ Starts(t, pid) = Starts(o, pid)
      /\ \A k \in Of(o, pid) : t[k] = o[k]
      /\ \A k \in Starts(o, pid) : SameUnit(o, t, pid, k)
  BY OthersFollow
<1>2. CountersRun(t, pid)
  BY <1>1 DEF CountersRun, Streams
<1>3. ASSUME NEW k \in S, NEW m \in Starts(o, pid), <<k, m>> \in Same(s, o, pid)
      PROVE  <<k, m>> \in Same(s, t, pid)
  BY <1>1, <1>3 DEF Same, SameUnit
<1>4. Matched(S, Starts(t, pid), Same(s, t, pid))
  BY <1>1, <1>3 DEF Matched, Streams
<1> QED BY <1>1, <1>2, <1>4 DEF Streams

\* More packets in the input that leave the units S as they are.
LEMMA StreamsKeep ==
  ASSUME NEW s, NEW o, NEW t, NEW pid, NEW S, Streams(S, s, o, pid),
         \A k \in S : SentAt(t, pid, k) = SentAt(s, pid, k)
  PROVE  Streams(S, t, o, pid)
<1>1. ASSUME NEW k \in S, NEW m \in Starts(o, pid), <<k, m>> \in Same(s, o, pid)
      PROVE  <<k, m>> \in Same(t, o, pid)
  BY <1>1 DEF Same
<1> QED BY <1>1 DEF Matched, Streams

UnitOf(pid, b, r, f, c) ==
  IF ~b.whole \/ b.size <= PesHeader THEN <<>> ELSE Appended(pid, b.size - r, f, c)

\* t is o with the packets u behind it.
Joined(o, u, t) == /\ Continues(o, t) /\ Len(u) \in Nat /\ Len(t) = Len(o) + Len(u)
                   /\ \A x \in 1..Len(u) : t[Len(o) + x] = u[x]

\* u is one unit of the PID, counted from c.
UnitFrom(u, pid, c) == \A x \in 1..Len(u) : /\ u[x].pid = pid /\ (u[x].start <=> x = 1)
                                            /\ u[x].counter = (c + x - 1) % Counters

Counted(o, pid, c) == c = Cardinality(Of(o, pid)) % Counters

LEMMA JoinedFollows ==
  ASSUME NEW o, IsList(o), NEW pid, NEW c, NEW u, UnitFrom(u, pid, c), Len(u) # 0,
         NEW t, Joined(o, u, t)
  PROVE  /\ Of(t, pid) = Of(o, pid) \cup Behind(o, t)
         /\ Starts(t, pid) = Starts(o, pid) \cup {Place(o)}
         /\ UnitAt(t, pid, Place(o)) = Behind(o, t)
         /\ \A k \in Of(o, pid) : t[k] = o[k]
         /\ \A k \in Starts(o, pid) : SameUnit(o, t, pid, k)
<1>1. Continues(o, t) /\ Len(o) \in Nat /\ Len(t) > Len(o)
  BY DEF Joined, Continues
<1>2. OneUnit(o, t, pid, Place(o))
  <2> SUFFICES ASSUME NEW k \in 1..Len(t), k > Len(o)
               PROVE  t[k].pid = pid /\ (t[k].start <=> k = Len(o) + 1)
    BY DEF OneUnit, Place
  <2>1. PICK x \in 1..Len(u) : k = Len(o) + x
    <3>1. k - Len(o) \in 1..Len(u) /\ k = Len(o) + (k - Len(o))
      BY <1>1 DEF Joined
    <3> QED BY <3>1
  <2>2. t[k].pid = pid /\ (t[k].start <=> x = 1)
    BY <2>1 DEF Joined, UnitFrom
  <2> QED BY <1>1, <2>1, <2>2
<1> QED BY <1>1, <1>2, UnitFollows

LEMMA JoinedCounts ==
  ASSUME NEW o, IsList(o), NEW pid, NEW c, Counted(o, pid, c), CountersRun(o, pid),
         NEW u, UnitFrom(u, pid, c), NEW t, Joined(o, u, t),
         Of(t, pid) = Of(o, pid) \cup Behind(o, t), \A k \in Of(o, pid) : t[k] = o[k]
  PROVE  CountersRun(t, pid) /\ Counted(t, pid, (c + Len(u)) % Counters)
<1> DEFINE S   == Of(o, pid)
           a   == Len(o)
           m   == Len(u)
           all == Of(t, pid)
           d   == Cardinality(S)
<1>1. S \in SUBSET (1..a) /\ a \in Nat
  BY StartsFinite
<1>2. m \in Nat /\ Len(t) = a + m
  BY DEF Joined
<1>3. all = S \cup Run(a, m)
  BY <1>2 DEF Behind, Place, Run
<1>4. Counters \in Nat \ {0}
  BY SizesAssumption
<1> HIDE DEF S, a, m, all
<1>5. /\ d \in Nat /\ Cardinality(all) = d + m
      /\ \A x \in 1..m : Rank(a + x, all) = d + x
      /\ \A k \in S : Rank(k, all) = Rank(k, S)
  <2>1. /\ Cardinality(S) \in Nat /\ Cardinality(S \cup Run(a, m)) = Cardinality(S) + m
        /\ RunRanks(S, a, m)
    BY <1>1, <1>2, RankInRun
  <2> QED BY <1>3, <2>1 DEF RunRanks
<1> HIDE DEF d
<1>6. CountersRun(t, pid)
  <2> SUFFICES ASSUME NEW k \in all PROVE t[k].counter = (Rank(k, all) - 1) % Counters
    BY DEF CountersRun, all
  <2>1. CASE k \in S
    <3>1. t[k] = o[k] /\ o[k].counter = (Rank(k, S) - 1) % Counters
      BY <2>1 DEF CountersRun, S
    <3> QED BY <1>5, <2>1, <3>1
  <2>2. CASE k \in Run(a, m)
    <3>1. PICK x \in 1..m : k = a + x
      <4>1. k - a \in 1..m /\ k = a + (k - a)
        BY <1>1, <1>2, <2>2 DEF Run
      <4> QED BY <4>1
    <3>2. t[k].counter = (c + x - 1) % Counters
      BY <3>1 DEF Joined, UnitFrom, a, m
    <3>3. c = d % Counters
      BY DEF Counted, d, S
    <3>4. c \in Nat
      BY <1>4, <1>5, <3>3
    <3>5. x - 1 \in Nat /\ c + x - 1 = c + (x - 1) /\ d + x - 1 = d + (x - 1)
      BY <1>2, <1>5, <3>4
    <3>6. ((d % Counters) + (x - 1)) % Counters = (d + (x - 1)) % Counters
      BY <1>4, <1>5, <3>5, CutCounter, Zenon
    <3>7. t[k].counter = ((d % Counters) + (x - 1)) % Counters
      BY <3>2, <3>3, <3>5, Zenon
    <3>8. Rank(k, all) - 1 = d + x - 1
      BY <1>5, <3>1
    <3> QED BY <3>5, <3>6, <3>7, <3>8, Zenon
  <2> QED BY <1>3, <2>1, <2>2
<1>7. Counted(t, pid, (c + Len(u)) % Counters)
  <2>1. c = d % Counters
    BY DEF Counted, d, S
  <2>2. ((d % Counters) + m) % Counters = (d + m) % Counters
    BY <1>2, <1>4, <1>5, CutCounter, Zenon
  <2>3. (c + m) % Counters = Cardinality(all) % Counters
    BY <1>5, <2>1, <2>2, Zenon
  <2> QED BY <2>3 DEF Counted, all, m
<1> QED BY <1>6, <1>7

IsJoint(t, o, u)              == t = o \o u
IsAppended(u, pid, n, f, c) == u = Appended(pid, n, f, c)

\* A unit goes out behind the packets o.
LEMMA UnitGoesOut ==
  ASSUME NEW o, IsList(o), NEW pid, NEW n \in Nat, NEW f \in DOMAIN FlagBytes,
         NEW c \in Nat, Counted(o, pid, c), CountersRun(o, pid),
         NEW u, IsAppended(u, pid, n, f, c), NEW t, IsJoint(t, o, u)
  PROVE  /\ IsList(u) /\ \A x \in 1..Len(u) : u[x].pid = pid
         /\ Starts(t, pid) = Starts(o, pid) \cup {Place(o)}
         /\ \A k \in Starts(o, pid) : SameUnit(o, t, pid, k)
         /\ FoundAt(t, pid, Place(o)) = [flags |-> f, bytes |-> Left(f, n)]
         /\ CountersRun(t, pid)
         /\ Counted(t, pid, (c + Len(u)) % Counters)
<1>1. IsList(u) /\ \E size, full \in Nat, rest \in 0..(Payload - 1) :
                      Cut(u, pid, n, f, c, size, full, rest)
  BY UnitIsWritten DEF IsAppended
<1>2. PICK size \in Nat, full \in Nat, rest \in 0..(Payload - 1) :
        Cut(u, pid, n, f, c, size, full, rest)
  BY <1>1
<1>3. Len(u) \in Nat \ {0} /\ u[1].flags = f /\ UnitFrom(u, pid, c)
  BY <1>2 DEF Cut, UnitFrom
<1>4. Joined(o, u, t) /\ Len(o) \in Nat
  BY <1>1, ListContinues DEF Joined, IsJoint
<1> DEFINE new == Behind(o, t)
<1> HIDE DEF new
<1>5. /\ Of(t, pid) = Of(o, pid) \cup new
      /\ Starts(t, pid) = Starts(o, pid) \cup {Place(o)}
      /\ UnitAt(t, pid, Place(o)) = new
      /\ \A k \in Of(o, pid) : t[k] = o[k]
      /\ \A k \in Starts(o, pid) : SameUnit(o, t, pid, k)
  <2>1. Len(u) # 0
    BY <1>3
  <2> QED BY <1>3, <1>4, <2>1, JoinedFollows DEF new
<1>6. CountersRun(t, pid) /\ Counted(t, pid, (c + Len(u)) % Counters)
  BY <1>3, <1>4, <1>5, JoinedCounts DEF new
<1>7. FoundAt(t, pid, Place(o)) = [flags |-> f, bytes |-> Left(f, n)]
  <2>1. t[Place(o)].flags = f
    <3>1. 1 \in 1..Len(u)
      BY <1>3
    <3> QED BY <1>3, <1>4, <3>1 DEF Joined, Place
  <2> DEFINE w == [l \in new |-> Received(t[l])]
             a == Len(o)
  <2>2. \A x \in 1..Len(u) : a + x \in new /\ t[a + x] = u[x]
    BY <1>3, <1>4 DEF Joined, Behind, Place, new
  <2>3. new = Run(a, Len(u)) /\ a \in Nat
    BY <1>4 DEF Joined, Behind, Place, Run, new
  <2>4. FoundAt(t, pid, Place(o)) = [flags |-> f, bytes |-> SumFunctionOnSet(w, new)]
    BY <1>5, <2>1 DEF FoundAt
  <2> HIDE DEF new, a
  <2>5. ReceivedIn(w, a, u)
    BY <2>2 DEF ReceivedIn
  <2> HIDE DEF w
  <2>6. SumFunctionOnSet(w, new) = Left(f, n)
    BY <2>3, <2>5, UnitReceived DEF IsAppended
  <2> QED BY <2>4, <2>6
<1>8. \A x \in 1..Len(u) : u[x].pid = pid
  BY <1>3 DEF UnitFrom
<1> QED BY <1>1, <1>5, <1>6, <1>7, <1>8

IsUnitOf(u, pid, b, r, f, c) == u = UnitOf(pid, b, r, f, c)

\* The unit that has been collected is written.
LEMMA Flush ==
  ASSUME NEW s, IsList(s), NEW o, IsList(o), NEW pid, NEW b, NEW r, NEW f, Current(s, pid, b, r, f),
         NEW c, Counted(o, pid, c), Streams(Followed(s, pid), s, o, pid),
         NEW u, IsUnitOf(u, pid, b, r, f, c), NEW t, IsJoint(t, o, u)
  PROVE  /\ Streams(KeptIn(s, pid), s, t, pid)
         /\ Counted(t, pid, (c + Len(u)) % Counters)
         /\ IsList(u) /\ \A x \in 1..Len(u) : u[x].pid = pid
<1> DEFINE n == b.size - r
<1>1. /\ b \in [size : Nat, whole : BOOLEAN] /\ r \in Nat /\ r <= b.size /\ n \in Nat
      /\ f \in DOMAIN FlagBytes /\ PesHeader \in Nat /\ Counters \in Nat \ {0}
  BY SizesAssumption DEF Current
<1>2. /\ Of(o, pid) \in SUBSET (1..Len(o)) /\ Starts(o, pid) \in SUBSET (1..Len(o))
      /\ IsFiniteSet(Starts(o, pid)) /\ Len(o) \in Nat
      /\ Starts(s, pid) \in SUBSET (1..Len(s)) /\ IsFiniteSet(Starts(s, pid)) /\ Len(s) \in Nat
  BY StartsFinite
<1>3. c \in Nat
  <2>1. Cardinality(Of(o, pid)) \in Nat
    BY <1>2, RankInRun
  <2> QED BY <1>1, <2>1 DEF Counted
<1>4. CASE ~b.whole \/ b.size <= PesHeader
  <2>1. u = <<>> /\ IsList(u) /\ Len(u) = 0
    <3>1. u = <<>> /\ <<>> \in Seq({}) /\ Len(<<>>) = 0
      BY <1>4 DEF IsUnitOf, UnitOf
    <3> QED BY <3>1 DEF IsList
  <2>2. t = o
    <3>1. PICK O : o \in Seq(O)
      BY DEF IsList
    <3> QED BY <2>1, <3>1 DEF IsJoint
  <2>3. KeptIn(s, pid) = Followed(s, pid)
    <3> SUFFICES ASSUME NEW k \in KeptIn(s, pid) PROVE \E m \in Starts(s, pid) : k < m
      BY DEF Followed
    <3>1. k \in Starts(s, pid) /\ SizeOf(s, pid, k) > PesHeader
      BY DEF KeptIn
    <3>2. b.whole /\ b.size <= PesHeader
      BY <1>4, <3>1 DEF Current
    <3>3. ~(b.size > PesHeader)
      BY <1>1, <3>2
    <3>4. ~(\A m \in Starts(s, pid) : m <= k)
      BY <3>1, <3>3 DEF Current
    <3> QED BY <1>2, <3>1, <3>4
  <2>4. Counted(t, pid, (c + Len(u)) % Counters)
    <3> DEFINE d == Cardinality(Of(o, pid))
    <3>1. d \in Nat
      BY <1>2, RankInRun
    <3>2. c = d % Counters
      BY DEF Counted
    <3> HIDE DEF d
    <3>3. 0 \in Nat /\ d + 0 = d
      BY <3>1
    <3>4. ((d % Counters) + 0) % Counters = (d + 0) % Counters
      BY <1>1, <3>1, <3>3, CutCounter, Zenon
    <3>5. (c + Len(u)) % Counters = d % Counters
      BY <2>1, <3>2, <3>3, <3>4, Zenon
    <3> QED BY <2>2, <3>5 DEF Counted, d
  <2>5. \A x \in 1..Len(u) : u[x].pid = pid
    BY <2>1
  <2> QED BY <2>1, <2>2, <2>3, <2>4, <2>5
<1>5. CASE b.whole /\ ~(b.size <= PesHeader)
  <2>1. IsAppended(u, pid, n, f, c)
    BY <1>5 DEF IsUnitOf, UnitOf, IsAppended
  <2>2. CountersRun(o, pid) /\ Matched(Followed(s, pid), Starts(o, pid), Same(s, o, pid))
    BY DEF Streams
  <2>3. PICK x \in Starts(s, pid) : \A m \in Starts(s, pid) : m <= x
    BY <1>5, StartsFinite DEF Current
  <2>4. b.size = SizeOf(s, pid, x) /\ f = s[x].flags /\ r = s[x].removed
    BY <2>3 DEF Current
  <2>5. SentAt(s, pid, x) = [flags |-> f, bytes |-> Left(f, n)]
    BY <2>4 DEF SentAt
  <2> HIDE DEF n
  <2> DEFINE y == Place(o)
  <2>6. /\ IsList(u) /\ \A z \in 1..Len(u) : u[z].pid = pid
        /\ Starts(t, pid) = Starts(o, pid) \cup {y}
        /\ \A k \in Starts(o, pid) : SameUnit(o, t, pid, k)
        /\ FoundAt(t, pid, y) = [flags |-> f, bytes |-> Left(f, n)]
        /\ CountersRun(t, pid)
        /\ Counted(t, pid, (c + Len(u)) % Counters)
    BY <1>1, <1>3, <2>1, <2>2, UnitGoesOut
  <2>7. KeptIn(s, pid) = Followed(s, pid) \cup {x}
    <3>1. x \in KeptIn(s, pid)
      BY <1>1, <1>5, <2>4 DEF KeptIn
    <3>2. ASSUME NEW k \in KeptIn(s, pid), k # x PROVE k \in Followed(s, pid)
      <4>1. k \in Starts(s, pid)
        BY DEF KeptIn
      <4>2. k < x
        BY <1>2, <2>3, <3>2, <4>1
      <4> QED BY <4>2 DEF Followed
    <3> QED BY <3>1, <3>2 DEF Followed
  <2>8. /\ Followed(s, pid) \in SUBSET Nat /\ IsFiniteSet(Followed(s, pid)) /\ x \in Nat
        /\ \A k \in Followed(s, pid) : k < x
    <3>1. Followed(s, pid) \in SUBSET Starts(s, pid)
      BY DEF Followed, KeptIn
    <3>2. \A k \in Followed(s, pid) : k < x
      <4> SUFFICES ASSUME NEW k \in Followed(s, pid) PROVE k < x
        OBVIOUS
      <4>1. PICK m \in Starts(s, pid) : k < m
        BY DEF Followed
      <4> QED BY <1>2, <2>3, <3>1, <4>1
    <3>3. IsFiniteSet(Followed(s, pid))
      BY <1>2, <3>1, FS_Subset
    <3>4. Followed(s, pid) \in SUBSET Nat /\ x \in Nat
      BY <1>2, <3>1
    <3> QED BY <3>2, <3>3, <3>4
  <2>9. Starts(o, pid) \in SUBSET Nat /\ y \in Nat /\ \A k \in Starts(o, pid) : k < y
    BY <1>2 DEF Place
  <2>10. <<x, y>> \in Same(s, t, pid)
    BY <2>5, <2>6, <2>8, <2>9 DEF Same
  <2>11. Matched(Followed(s, pid), Starts(o, pid), Same(s, t, pid))
    <3>1. ASSUME NEW k \in Followed(s, pid), NEW m \in Starts(o, pid), <<k, m>> \in Same(s, o, pid)
          PROVE  <<k, m>> \in Same(s, t, pid)
      BY <2>6, <3>1 DEF Same, SameUnit
    <3> QED BY <2>2, <3>1 DEF Matched
  <2> HIDE DEF y
  <2>12. Matched(Followed(s, pid) \cup {x}, Starts(o, pid) \cup {y}, Same(s, t, pid))
    BY <1>2, <2>8, <2>9, <2>10, <2>11, MatchedMore
  <2>13. Streams(KeptIn(s, pid), s, t, pid)
    BY <2>6, <2>7, <2>12 DEF Streams
  <2> QED BY <2>6, <2>13
<1> QED BY <1>1, <1>4, <1>5

-----------------------------------------------------------------------------
(* The units of a decrypted segment: what each packet changes                  *)

\* A component while the packets s are read and o are written.
Flowing(pid, s, o, c, b, r, f) ==
  Streams(Followed(s, pid), s, o, pid) /\ Counted(o, pid, c) /\ Current(s, pid, b, r, f)

LEMMA OthersWritten ==
  ASSUME NEW o, IsList(o), NEW u, IsList(u), NEW pid, \A x \in 1..Len(u) : u[x].pid # pid,
         NEW t, IsJoint(t, o, u)
  PROVE  Continues(o, t) /\ OthersBehind(o, t, pid) /\ IsList(t)
<1>1. /\ Continues(o, t) /\ Len(t) = Len(o) + Len(u) /\ Len(o) \in Nat /\ Len(u) \in Nat
      /\ \A x \in 1..Len(u) : t[Len(o) + x] = u[x]
  BY ListContinues DEF IsJoint
<1>2. OthersBehind(o, t, pid)
  <2> SUFFICES ASSUME NEW k \in 1..Len(t), k > Len(o) PROVE t[k].pid # pid
    BY DEF OthersBehind
  <2>1. k - Len(o) \in 1..Len(u) /\ Len(o) + (k - Len(o)) = k
    BY <1>1
  <2>2. t[k] = u[k - Len(o)]
    BY <1>1, <2>1
  <2> QED BY <2>1, <2>2
<1>3. IsList(t)
  BY ListsJoin DEF IsJoint
<1> QED BY <1>1, <1>2, <1>3

LEMMA OtherWritten ==
  ASSUME NEW o, IsList(o), NEW e, NEW pid, e.pid # pid, NEW t, t = Append(o, e)
  PROVE  Continues(o, t) /\ OthersBehind(o, t, pid) /\ IsList(t)
<1>1. /\ Continues(o, t) /\ Len(t) = Len(o) + 1 /\ t[Len(o) + 1] = e
  BY AppendContinues
<1>2. IsList(t) /\ Len(o) \in Nat
  BY ListGrows
<1>3. ASSUME NEW k \in 1..Len(t), k > Len(o) PROVE t[k].pid # pid
  <2>1. k = Len(o) + 1
    BY <1>1, <1>2, <1>3
  <2> QED BY <1>1, <2>1
<1> QED BY <1>1, <1>2, <1>3 DEF OthersBehind

\* Packets of others come in.
LEMMA OthersIn ==
  ASSUME NEW s, NEW t, NEW pid, Continues(s, t), OthersBehind(s, t, pid),
         NEW o, NEW c, NEW b, NEW r, NEW f, Flowing(pid, s, o, c, b, r, f)
  PROVE  Flowing(pid, t, o, c, b, r, f)
<1>1. Starts(t, pid) = Starts(s, pid) /\ \A k \in Starts(s, pid) : SameUnit(s, t, pid, k)
  BY OthersFollow
<1>2. \A k \in Starts(s, pid) : /\ t[k] = s[k] /\ SizeOf(t, pid, k) = SizeOf(s, pid, k)
                                /\ SentAt(t, pid, k) = SentAt(s, pid, k)
  BY <1>1 DEF SameUnit
<1>3. KeptIn(t, pid) = KeptIn(s, pid)
  BY <1>1, <1>2 DEF KeptIn
<1>4. Followed(t, pid) = Followed(s, pid)
  BY <1>1, <1>3 DEF Followed
<1>5. \A k \in Followed(s, pid) : SentAt(t, pid, k) = SentAt(s, pid, k)
  BY <1>2 DEF Followed, KeptIn
<1>6. Streams(Followed(s, pid), s, o, pid)
  BY DEF Flowing
<1>7. Streams(Followed(t, pid), t, o, pid)
  BY <1>4, <1>5, <1>6, StreamsKeep
<1>8. Current(t, pid, b, r, f)
  BY <1>1, <1>2 DEF Current, Flowing
<1> QED BY <1>7, <1>8 DEF Flowing

\* Packets of others go out.
LEMMA OthersOut ==
  ASSUME NEW o, NEW t, NEW pid, Continues(o, t), OthersBehind(o, t, pid),
         NEW s, NEW c, NEW b, NEW r, NEW f, Flowing(pid, s, o, c, b, r, f)
  PROVE  Flowing(pid, s, t, c, b, r, f)
<1>1. Streams(Followed(s, pid), s, o, pid)
  BY DEF Flowing
<1>2. Streams(Followed(s, pid), s, t, pid) /\ Of(t, pid) = Of(o, pid)
  BY <1>1, StreamsStay
<1> QED BY <1>2 DEF Flowing, Counted

\* A unit starts behind one that has been written.
LEMMA UnitBegins ==
  ASSUME NEW s, IsList(s), NEW pid, NEW o, NEW c, Streams(KeptIn(s, pid), s, o, pid), Counted(o, pid, c),
         NEW p \in Packets, p.pid = pid, p.start, NEW t, t = Append(s, p)
  PROVE  Flowing(pid, t, o, c, [size |-> p.size, whole |-> TRUE], p.removed, p.flags)
<1> DEFINE y == Place(s)
<1>1. Continues(s, t) /\ Len(t) = Len(s) + 1 /\ t[y] = p /\ Len(s) \in Nat
  BY AppendContinues DEF Place, Continues
<1>2. y = Len(s) + 1 /\ Behind(s, t) = {y} /\ y \in Nat
  BY <1>1 DEF Place, Behind
<1>3. OneUnit(s, t, pid, y)
  <2> SUFFICES ASSUME NEW k \in 1..Len(t), k > Len(s)
               PROVE  t[k].pid = pid /\ (t[k].start <=> k = y)
    BY DEF OneUnit
  <2>1. k = y
    BY <1>1, <1>2
  <2> QED BY <1>1, <2>1
<1>4. Len(t) > Len(s)
  BY <1>1
<1>5. /\ Starts(t, pid) = Starts(s, pid) \cup {y} /\ Starts(s, pid) \subseteq 1..Len(s)
      /\ UnitAt(t, pid, y) = Behind(s, t)
      /\ \A k \in Starts(s, pid) : SameUnit(s, t, pid, k)
  BY <1>1, <1>3, <1>4, UnitFollows
<1>6. p.size \in Nat /\ p.removed \in Nat /\ p.removed <= p.size /\ p.flags \in DOMAIN FlagBytes
  <2>1. /\ p.flags \in DOMAIN FlagBytes /\ p.size \in 0..(Payload - FlagBytes[p.flags])
        /\ p.removed \in 0..p.size
    BY PacketsAssumption
  <2>2. FlagBytes[p.flags] \in Nat /\ Payload \in Nat
    BY <2>1, SizesAssumption DEF FlagBytes
  <2> QED BY <2>1, <2>2
<1>7. SizeOf(t, pid, y) = p.size
  <2> DEFINE w == [l \in {y} |-> t[l].size]
  <2>1. SizeOf(t, pid, y) = SumFunctionOnSet(w, {y})
    BY <1>2, <1>5 DEF SizeOf
  <2>2. w[y] = p.size
    BY <1>1
  <2> HIDE DEF w
  <2>3. IsFiniteSet({}) /\ y \notin {} /\ {} \cup {y} = {y}
    BY FS_EmptySet
  <2>4. Integral(w, {} \cup {y})
    BY <1>6, <2>2 DEF Integral
  <2>5. SumFunctionOnSet(w, {} \cup {y}) = w[y] + SumFunctionOnSet(w, {})
    BY <2>3, <2>4, SumWithOneMore
  <2>6. SumFunctionOnSet(w, {}) = 0
    BY SumOfNothing
  <2>7. SumFunctionOnSet(w, {y}) = w[y] + 0
    BY <2>3, <2>5, <2>6, Zenon
  <2> QED BY <1>6, <2>1, <2>2, <2>7
<1> HIDE DEF y
<1>8. \A k \in Starts(s, pid) : k < y /\ k \in Nat
  BY <1>1, <1>2, <1>5
<1>9. \A k \in Starts(s, pid) : SizeOf(t, pid, k) = SizeOf(s, pid, k)
                                /\ SentAt(t, pid, k) = SentAt(s, pid, k)
  BY <1>5 DEF SameUnit
<1>10. Followed(t, pid) = KeptIn(s, pid)
  <2>1. ASSUME NEW k \in KeptIn(s, pid) PROVE k \in Followed(t, pid)
    BY <1>5, <1>8, <1>9 DEF KeptIn, Followed
  <2>2. ASSUME NEW k \in Followed(t, pid) PROVE k \in KeptIn(s, pid)
    <3>1. k \in Starts(s, pid) \cup {y} /\ SizeOf(t, pid, k) > PesHeader
          /\ \E m \in Starts(s, pid) \cup {y} : k < m
      BY <1>5 DEF Followed, KeptIn
    <3>2. k # y
      BY <1>2, <1>8, <3>1
    <3> QED BY <1>9, <3>1, <3>2 DEF KeptIn
  <2> QED BY <2>1, <2>2
<1>11. Streams(Followed(t, pid), t, o, pid)
  <2>1. \A k \in KeptIn(s, pid) : SentAt(t, pid, k) = SentAt(s, pid, k)
    BY <1>9 DEF KeptIn
  <2>2. Streams(KeptIn(s, pid), t, o, pid)
    BY <2>1, StreamsKeep
  <2> QED BY <1>10, <2>2
<1>12. Current(t, pid, [size |-> p.size, whole |-> TRUE], p.removed, p.flags)
  <2>1. \A k \in Starts(t, pid) : (\A m \in Starts(t, pid) : m <= k) => k = y
    BY <1>2, <1>5, <1>8
  <2>2. Starts(t, pid) # {}
    BY <1>5
  <2> QED BY <1>1, <1>6, <1>7, <2>1, <2>2 DEF Current
<1> QED BY <1>11, <1>12 DEF Flowing

\* A packet that goes on with a unit.
LEMMA UnitGoesOn ==
  ASSUME NEW s, IsList(s), NEW pid, NEW o, NEW c, NEW b, NEW r, NEW f, Flowing(pid, s, o, c, b, r, f),
         NEW p \in Packets, p.pid = pid, ~p.start, NEW t, t = Append(s, p), Sized(t)
  PROVE  Flowing(pid, t, o, c, [b EXCEPT !.size = @ + p.size], r, f)
<1>1. Continues(s, t) /\ Len(t) = Len(s) + 1 /\ t[Len(t)] = p
  BY AppendContinues
<1>2. /\ Starts(t, pid) = Starts(s, pid)
      /\ \A k \in Starts(s, pid) :
           /\ t[k] = s[k]
           /\ (\E m \in Starts(s, pid) : k < m) => SameUnit(s, t, pid, k)
           /\ (\A m \in Starts(s, pid) : m <= k) =>
                SizeOf(s, pid, k) \in Int /\ SizeOf(t, pid, k) = SizeOf(s, pid, k) + t[Len(t)].size
  <2>1. t[Len(t)].pid = pid /\ ~t[Len(t)].start
    BY <1>1
  <2>2. Starts(t, pid) = Starts(s, pid) /\ Grown(s, t, pid)
    BY <1>1, <2>1, MoreFollows
  <2> QED BY <2>2 DEF Grown
<1>3. p.size \in Nat
  <2>1. /\ p.flags \in DOMAIN FlagBytes /\ p.size \in 0..(Payload - FlagBytes[p.flags])
    BY PacketsAssumption
  <2>2. FlagBytes[p.flags] \in Nat /\ Payload \in Nat
    BY <2>1, SizesAssumption DEF FlagBytes
  <2> QED BY <2>1, <2>2
<1>4. Followed(t, pid) = Followed(s, pid)
  BY <1>2 DEF Followed, KeptIn, SameUnit
<1>5. \A k \in Followed(s, pid) : SentAt(t, pid, k) = SentAt(s, pid, k)
  BY <1>2 DEF Followed, KeptIn, SameUnit
<1>6. Streams(Followed(t, pid), t, o, pid)
  BY <1>4, <1>5, StreamsKeep DEF Flowing
<1>7. Current(t, pid, [b EXCEPT !.size = @ + p.size], r, f)
  <2> DEFINE e == [b EXCEPT !.size = @ + p.size]
  <2>1. /\ b \in [size : Nat, whole : BOOLEAN] /\ r \in Nat /\ r <= b.size /\ f \in DOMAIN FlagBytes
        /\ b.whole <=> Starts(s, pid) # {}
        /\ \A k \in Starts(s, pid) : (\A m \in Starts(s, pid) : m <= k) =>
             b.size = SizeOf(s, pid, k) /\ f = s[k].flags /\ r = s[k].removed
    BY DEF Flowing, Current
  <2>2. e \in [size : Nat, whole : BOOLEAN] /\ e.size = b.size + p.size /\ e.whole = b.whole
    BY <1>3, <2>1
  <2> HIDE DEF e
  <2>3. r <= e.size
    BY <1>3, <2>1, <2>2
  <2>4. ASSUME NEW k \in Starts(t, pid), \A m \in Starts(t, pid) : m <= k
        PROVE  e.size = SizeOf(t, pid, k) /\ f = t[k].flags /\ r = t[k].removed
    <3>1. k \in Starts(s, pid) /\ \A m \in Starts(s, pid) : m <= k
      BY <1>2, <2>4
    <3>2. b.size = SizeOf(s, pid, k) /\ f = s[k].flags /\ r = s[k].removed
      BY <2>1, <3>1
    <3>3. t[k] = s[k] /\ SizeOf(t, pid, k) = SizeOf(s, pid, k) + t[Len(t)].size
      BY <1>2, <3>1
    <3> QED BY <1>1, <2>2, <3>2, <3>3
  <2>5. Current(t, pid, e, r, f)
    BY <1>2, <2>1, <2>2, <2>3, <2>4 DEF Current
  <2> QED BY <2>5 DEF e
<1> QED BY <1>6, <1>7 DEF Flowing

-----------------------------------------------------------------------------
(* The units of a decrypted segment: the inductive invariant                   *)

Flow(pid) == Flowing(pid, input, out, counter[pid], buffer[pid], removed[pid], pcr[pid])

StreamsSoFar ==
  /\ input \in Seq(Packets) /\ counter \in [Collected -> Nat]
  /\ pc # "done" => \A pid \in Collected : Flow(pid)
  /\ pc = "done" => \A pid \in Collected : Streams(KeptIn(input, pid), input, out, pid)

UnitsInv == job = "decrypt" => StreamsSoFar

LEMMA UnitsBegin == TransportInit => UnitsInv
<1> SUFFICES ASSUME TransportInit, job = "decrypt" PROVE StreamsSoFar
  BY DEF UnitsInv
<1>1. /\ input = <<>> /\ out = <<>> /\ pc = "start"
      /\ buffer  = [p \in Collected |-> Empty]
      /\ pcr     = [p \in Collected |-> "none"]
      /\ removed = [p \in Collected |-> 0]
      /\ counter = [p \in Collected |-> 0]
  BY DEF TransportInit, Init
<1>2. ASSUME NEW pid \in Collected PROVE Flow(pid)
  <2>1. DOMAIN input = {} /\ DOMAIN out = {}
    BY <1>1
  <2>2. Of(input, pid) = {} /\ Of(out, pid) = {}
    BY <2>1 DEF Of
  <2>3. Starts(input, pid) = {} /\ Starts(out, pid) = {}
    BY <2>2 DEF Starts
  <2>4. Followed(input, pid) = {}
    BY <2>3 DEF Followed, KeptIn
  <2>5. Streams(Followed(input, pid), input, out, pid)
    BY <2>2, <2>3, <2>4 DEF Streams, Matched, CountersRun
  <2>6. Counted(out, pid, counter[pid])
    <3>1. Counters \in Nat \ {0} /\ 0 % Counters = 0
      BY SizesAssumption
    <3>2. Cardinality({}) = 0 /\ counter[pid] = 0
      BY <1>1, FS_EmptySet
    <3> QED BY <2>2, <3>1, <3>2 DEF Counted
  <2>7. Current(input, pid, buffer[pid], removed[pid], pcr[pid])
    BY <1>1, <2>3 DEF Current, Empty, FlagBytes
  <2> QED BY <2>5, <2>6, <2>7 DEF Flow, Flowing
<1>3. input \in Seq(Packets) /\ counter \in [Collected -> Nat]
  BY <1>1
<1> QED BY <1>1, <1>2, <1>3 DEF StreamsSoFar

LEMMA UnitIs ==
  ASSUME NEW pid
  PROVE  IsUnitOf(Unit(pid), pid, buffer[pid], removed[pid], pcr[pid], counter[pid])
BY DEF IsUnitOf, UnitOf, Unit

\* The unit of a component goes out.
LEMMA UnitWritten ==
  ASSUME IsList(input), NEW o, IsList(o), NEW pid,
         Flowing(pid, input, o, counter[pid], buffer[pid], removed[pid], pcr[pid])
  PROVE  /\ Streams(KeptIn(input, pid), input, o \o Unit(pid), pid)
         /\ Counted(o \o Unit(pid), pid, (counter[pid] + Len(Unit(pid))) % Counters)
         /\ IsList(Unit(pid)) /\ IsList(o \o Unit(pid))
         /\ \A x \in 1..Len(Unit(pid)) : Unit(pid)[x].pid = pid
<1> DEFINE u == Unit(pid)
           t == o \o u
<1>1. IsUnitOf(u, pid, buffer[pid], removed[pid], pcr[pid], counter[pid])
  BY UnitIs
<1>2. IsJoint(t, o, u)
  BY DEF IsJoint
<1>3. /\ Current(input, pid, buffer[pid], removed[pid], pcr[pid])
      /\ Counted(o, pid, counter[pid]) /\ Streams(Followed(input, pid), input, o, pid)
  BY DEF Flowing
<1> HIDE DEF u, t
<1>4. /\ Streams(KeptIn(input, pid), input, t, pid)
      /\ Counted(t, pid, (counter[pid] + Len(u)) % Counters)
      /\ IsList(u) /\ \A x \in 1..Len(u) : u[x].pid = pid
  BY <1>1, <1>2, <1>3, Flush
<1>5. IsList(t)
  BY <1>2, <1>4, ListsJoin DEF IsJoint
<1> QED BY <1>4, <1>5 DEF u, t

LEMMA UnitsStep ==
  ASSUME DecryptInv, StreamsSoFar, Next
  PROVE  StreamsSoFar'
<1>1. pc # "done"
  BY DEF Next, Refuse, Start, EndOfSegment, ReadMap, UnitStart, Collect, CopyPacket, Read
<1>2. /\ pmt \in Maps /\ IsList(input) /\ IsList(out)
      /\ input \in Seq(Packets) /\ counter \in [Collected -> Nat]
      /\ \A pid \in Collected : Flow(pid)
      /\ Buffers(buffer, removed, pcr)
  BY <1>1 DEF DecryptInv, StreamsSoFar
<1>3. NULL \notin Collected /\ MapPid \notin Collected
      /\ (audio_PID = NULL \/ audio_PID # video_PID)
  BY <1>2, PidsAssumption DEF Collected, audio_PID, video_PID
<1>4. CASE Refuse \/ Start
  <2>1. UNCHANGED <<pmt, input, buffer, pcr, removed, counter, out>> /\ pc' # "done"
    BY <1>4 DEF Refuse, Start
  <2>2. Collected' = Collected
    BY <2>1, SamePids
  <2>3. \A pid \in Collected : Flow(pid)'
    BY <1>2, <2>1 DEF Flow
  <2> QED BY <1>2, <2>1, <2>2, <2>3 DEF StreamsSoFar
<1>5. CASE EndOfSegment
  <2> DEFINE Rest(pid) == IF pid = NULL THEN <<>> ELSE Unit(pid)
             a == Rest(audio_PID)
             v == Rest(video_PID)
             o == out \o a
  <2>1. /\ pc' = "done" /\ out' = o \o v
        /\ UNCHANGED <<pmt, input, counter>>
    BY <1>5 DEF EndOfSegment
  <2>2. Collected' = Collected
    BY <2>1, SamePids
  <2>3. ASSUME NEW pid \in Collected
        PROVE  IsList(Unit(pid)) /\ \A x \in 1..Len(Unit(pid)) : Unit(pid)[x].pid = pid
    BY <1>2, UnitWritten DEF Flow
  <2>4. IsList(<<>>) /\ Len(<<>>) = 0
    <3>1. <<>> \in Seq({}) /\ Len(<<>>) = 0
      OBVIOUS
    <3> QED BY <3>1 DEF IsList
  <2>5. IsList(a) /\ (\A x \in 1..Len(a) : a[x].pid = audio_PID /\ audio_PID \in Collected)
    <3>1. CASE audio_PID = NULL
      <4>1. a = <<>>
        BY <3>1
      <4> QED BY <2>4, <4>1
    <3>2. CASE audio_PID # NULL
      <4>1. a = Unit(audio_PID) /\ audio_PID \in Collected
        BY <3>2 DEF Collected
      <4> QED BY <2>3, <4>1
    <3> QED BY <3>1, <3>2
  <2>6. IsList(v) /\ (\A x \in 1..Len(v) : v[x].pid = video_PID /\ video_PID \in Collected)
    <3>1. CASE video_PID = NULL
      <4>1. v = <<>>
        BY <3>1
      <4> QED BY <2>4, <4>1
    <3>2. CASE video_PID # NULL
      <4>1. v = Unit(video_PID) /\ video_PID \in Collected
        BY <3>2 DEF Collected
      <4> QED BY <2>3, <4>1
    <3> QED BY <3>1, <3>2
  <2>7. IsList(o)
    BY <1>2, <2>5, ListsJoin
  <2>8. ASSUME NEW pid \in Collected PROVE Streams(KeptIn(input, pid), input, out', pid)
    <3>1. CASE pid = audio_PID
      <4>1. a = Unit(pid)
        BY <1>3, <3>1
      <4>2. Streams(KeptIn(input, pid), input, o, pid)
        BY <1>2, <4>1, UnitWritten DEF Flow
      <4>3. IsJoint(out', o, v)
        BY <2>1 DEF IsJoint
      <4>4. \A x \in 1..Len(v) : v[x].pid # pid
        BY <1>3, <2>6, <3>1
      <4> HIDE DEF a, v, o
      <4>5. Continues(o, out') /\ OthersBehind(o, out', pid)
        BY <2>6, <2>7, <4>3, <4>4, OthersWritten
      <4> QED BY <4>2, <4>5, StreamsStay
    <3>2. CASE pid # audio_PID
      <4>1. pid = video_PID /\ v = Unit(pid)
        BY <1>3, <3>2 DEF Collected
      <4>2. IsJoint(o, out, a)
        BY DEF IsJoint
      <4>3. \A x \in 1..Len(a) : a[x].pid # pid
        BY <2>5, <3>2
      <4> HIDE DEF a, v, o
      <4>4. Continues(out, o) /\ OthersBehind(out, o, pid)
        BY <1>2, <2>5, <4>2, <4>3, OthersWritten
      <4>5. Flowing(pid, input, o, counter[pid], buffer[pid], removed[pid], pcr[pid])
        BY <1>2, <4>4, OthersOut DEF Flow
      <4>6. Streams(KeptIn(input, pid), input, o \o Unit(pid), pid)
        BY <1>2, <2>7, <4>5, UnitWritten
      <4> QED BY <2>1, <4>1, <4>6
    <3> QED BY <3>1, <3>2
  <2>9. input' = input /\ counter' = counter /\ pc' = "done"
    BY <2>1
  <2> HIDE DEF a, v, o
  <2> QED BY <1>2, <2>2, <2>8, <2>9 DEF StreamsSoFar
<1>6. ASSUME NEW p \in Packets, Read(p)
      PROVE  /\ pmt' = pmt /\ pc' # "done" /\ Collected' = Collected
             /\ input' = Append(input, p) /\ input' \in Seq(Packets) /\ Sized(input')
             /\ \A pid \in Collected : pid # p.pid => Continues(input, input')
                                                      /\ OthersBehind(input, input', pid)
  <2>1. pmt' = pmt /\ pc' = pc /\ input' = Append(input, p)
    BY <1>6 DEF Read
  <2>2. input' \in Seq(Packets)
    BY <1>2, <2>1
  <2>3. \A q \in Packets : q.size \in Nat
    <3> SUFFICES ASSUME NEW q \in Packets PROVE q.size \in Nat
      OBVIOUS
    <3>1. q.flags \in DOMAIN FlagBytes /\ q.size \in 0..(Payload - FlagBytes[q.flags])
      BY PacketsAssumption
    <3>2. FlagBytes[q.flags] \in Nat /\ Payload \in Nat
      BY <3>1, SizesAssumption DEF FlagBytes
    <3> QED BY <3>1, <3>2
  <2>4. Sized(input')
    BY <2>2, <2>3 DEF Sized
  <2>5. ASSUME NEW pid \in Collected, pid # p.pid
        PROVE  Continues(input, input') /\ OthersBehind(input, input', pid)
    BY <1>2, <2>1, <2>5, OtherWritten
  <2>6. Collected' = Collected
    BY <2>1, SamePids
  <2> QED BY <1>1, <2>1, <2>2, <2>4, <2>5, <2>6
<1>7. ASSUME NEW p \in Packets, ReadMap(p) \/ CopyPacket(p)
      PROVE  StreamsSoFar'
  <2>1. Read(p) /\ p.pid \notin Collected /\ UNCHANGED <<buffer, pcr, removed, counter>>
    BY <1>3, <1>7 DEF ReadMap, CopyPacket
  <2>2. out' = out \/ \E e : out' = Append(out, e) /\ e.pid = p.pid
    BY <1>7 DEF ReadMap, CopyPacket
  <2>3. /\ pc' # "done" /\ Collected' = Collected /\ input' \in Seq(Packets)
        /\ \A pid \in Collected : Continues(input, input') /\ OthersBehind(input, input', pid)
    BY <1>6, <2>1
  <2>4. ASSUME NEW pid \in Collected PROVE Flow(pid)'
    <3>1. Flowing(pid, input', out, counter[pid], buffer[pid], removed[pid], pcr[pid])
      BY <1>2, <2>3, OthersIn DEF Flow
    <3>2. Flowing(pid, input', out', counter[pid], buffer[pid], removed[pid], pcr[pid])
      <4>1. CASE out' = out
        BY <3>1, <4>1
      <4>2. ASSUME NEW e, out' = Append(out, e), e.pid = p.pid
            PROVE  Flowing(pid, input', out', counter[pid], buffer[pid], removed[pid], pcr[pid])
        <5>1. Continues(out, out') /\ OthersBehind(out, out', pid)
          BY <1>2, <2>1, <4>2, OtherWritten
        <5> QED BY <3>1, <5>1, OthersOut
      <4> QED BY <2>2, <4>1, <4>2
    <3> QED BY <2>1, <3>2 DEF Flow
  <2>5. counter' \in [Collected' -> Nat]
    BY <1>2, <2>1, <2>3
  <2> QED BY <2>3, <2>4, <2>5 DEF StreamsSoFar
<1>8. ASSUME NEW p \in Packets, UnitStart(p)
      PROVE  StreamsSoFar'
  <2> DEFINE x == p.pid
             u == Unit(x)
             c == (counter[x] + Len(u)) % Counters
  <2>1. /\ Read(p) /\ x \in Collected /\ p.start /\ out' = out \o u
        /\ counter' = [counter EXCEPT ![x] = c]
        /\ buffer' = [buffer EXCEPT ![x] = [size |-> p.size, whole |-> TRUE]]
        /\ pcr' = [pcr EXCEPT ![x] = p.flags] /\ removed' = [removed EXCEPT ![x] = p.removed]
    BY <1>8 DEF UnitStart
  <2>2. /\ pc' # "done" /\ Collected' = Collected /\ input' \in Seq(Packets)
        /\ input' = Append(input, p)
        /\ \A pid \in Collected : pid # x => Continues(input, input')
                                             /\ OthersBehind(input, input', pid)
    BY <1>6, <2>1
  <2>3. /\ buffer'[x] = [size |-> p.size, whole |-> TRUE] /\ pcr'[x] = p.flags
        /\ removed'[x] = p.removed /\ counter'[x] = c
        /\ \A pid \in Collected : pid # x =>
             /\ buffer'[pid] = buffer[pid] /\ pcr'[pid] = pcr[pid]
             /\ removed'[pid] = removed[pid] /\ counter'[pid] = counter[pid]
    BY <1>2, <2>1 DEF Buffers
  <2>4. /\ Streams(KeptIn(input, x), input, out', x) /\ Counted(out', x, c)
        /\ IsList(u) /\ \A k \in 1..Len(u) : u[k].pid = x
    BY <1>2, <2>1, UnitWritten DEF Flow
  <2> HIDE DEF x, u, c
  <2>5. Flow(x)'
    <3>1. p.pid = x
      BY DEF x
    <3>2. Flowing(x, input', out', c, [size |-> p.size, whole |-> TRUE], p.removed, p.flags)
      BY <1>2, <2>1, <2>2, <2>4, <3>1, UnitBegins
    <3>3. x' = x
      BY DEF x
    <3>4. Flowing(x, input', out', counter'[x], buffer'[x], removed'[x], pcr'[x])
      BY <2>3, <3>2
    <3> QED BY <3>4 DEF Flow, x
  <2>6. ASSUME NEW pid \in Collected, pid # x PROVE Flow(pid)'
    <3>1. IsJoint(out', out, u)
      BY <2>1 DEF IsJoint
    <3>2. Continues(out, out') /\ OthersBehind(out, out', pid)
      <4>1. \A k \in 1..Len(u) : u[k].pid # pid
        BY <2>4, <2>6
      <4>2. IsList(out) /\ IsList(u)
        BY <1>2, <2>4
      <4> QED BY <3>1, <4>1, <4>2, OthersWritten
    <3>3. Flowing(pid, input', out, counter[pid], buffer[pid], removed[pid], pcr[pid])
      BY <1>2, <2>2, <2>6, OthersIn DEF Flow
    <3>4. Flowing(pid, input', out', counter[pid], buffer[pid], removed[pid], pcr[pid])
      BY <3>2, <3>3, OthersOut
    <3>5. Flowing(pid, input', out', counter'[pid], buffer'[pid], removed'[pid], pcr'[pid])
      BY <2>3, <2>6, <3>4
    <3> QED BY <3>5 DEF Flow
  <2>7. counter' \in [Collected' -> Nat]
    <3>1. c \in Nat
      <4>1. counter[x] \in Nat /\ Len(u) \in Nat /\ Counters \in Nat \ {0}
        BY <1>2, <2>1, <2>4, ListGrows, SizesAssumption
      <4> QED BY <4>1 DEF c
    <3> QED BY <1>2, <2>1, <2>2, <3>1
  <2>8. \A pid \in Collected : Flow(pid)'
    BY <2>5, <2>6
  <2> QED BY <2>2, <2>7, <2>8 DEF StreamsSoFar
<1>9. ASSUME NEW p \in Packets, Collect(p)
      PROVE  StreamsSoFar'
  <2> DEFINE x == p.pid
             b == [buffer[x] EXCEPT !.size = @ + p.size]
  <2>1. /\ Read(p) /\ x \in Collected /\ ~p.start
        /\ buffer' = [buffer EXCEPT ![x] = b]
        /\ UNCHANGED <<pcr, removed, counter, out>>
    BY <1>2, <1>9 DEF Collect, Buffers
  <2>2. /\ pc' # "done" /\ Collected' = Collected /\ input' \in Seq(Packets)
        /\ input' = Append(input, p) /\ Sized(input')
        /\ \A pid \in Collected : pid # x => Continues(input, input')
                                             /\ OthersBehind(input, input', pid)
    BY <1>6, <2>1
  <2>3. /\ buffer'[x] = b
        /\ \A pid \in Collected : pid # x => buffer'[pid] = buffer[pid]
    BY <1>2, <2>1 DEF Buffers
  <2>4. Flowing(x, input', out, counter[x], b, removed[x], pcr[x])
    <3>1. Flowing(x, input, out, counter[x], buffer[x], removed[x], pcr[x])
      BY <1>2, <2>1 DEF Flow
    <3> QED BY <1>2, <2>1, <2>2, <3>1, UnitGoesOn
  <2> HIDE DEF b, x
  <2>5. Flow(x)'
    <3>1. Flowing(x, input', out', counter'[x], buffer'[x], removed'[x], pcr'[x])
      BY <2>1, <2>3, <2>4
    <3> QED BY <3>1 DEF Flow, x
  <2>6. ASSUME NEW pid \in Collected, pid # x PROVE Flow(pid)'
    <3>1. Flowing(pid, input', out, counter[pid], buffer[pid], removed[pid], pcr[pid])
      BY <1>2, <2>2, <2>6, OthersIn DEF Flow
    <3>2. Flowing(pid, input', out', counter'[pid], buffer'[pid], removed'[pid], pcr'[pid])
      BY <2>1, <2>3, <2>6, <3>1
    <3> QED BY <3>2 DEF Flow
  <2>7. counter' \in [Collected' -> Nat]
    BY <1>2, <2>1, <2>2
  <2>8. \A pid \in Collected : Flow(pid)'
    BY <2>5, <2>6
  <2> QED BY <2>2, <2>7, <2>8 DEF StreamsSoFar
<1> QED BY <1>4, <1>5, <1>7, <1>8, <1>9 DEF Next

LEMMA UnitsKept == FitInv /\ UnitsInv /\ [TransportNext]_allVars => UnitsInv'
<1> SUFFICES ASSUME FitInv, UnitsInv, [TransportNext]_allVars PROVE UnitsInv'
  OBVIOUS
<1>1. CASE job = "decrypt" /\ Next /\ UNCHANGED <<job, merge_vars>>
  BY <1>1, UnitsStep DEF FitInv, UnitsInv
<1>2. CASE job = "merge" /\ job' = job
  BY <1>2 DEF UnitsInv
<1>3. CASE UNCHANGED allVars
  <2>1. UNCHANGED <<job, pc, out, pmt, input, buffer, pcr, removed, counter>>
    BY <1>3 DEF allVars, decrypt_vars
  <2>2. Collected' = Collected
    BY <2>1, SamePids
  <2>3. \A pid : Flow(pid)' <=> Flow(pid)
    BY <2>1 DEF Flow
  <2> QED BY <2>1, <2>2, <2>3 DEF UnitsInv, StreamsSoFar
<1> QED BY <1>1, <1>2, <1>3 DEF TransportNext

\* When a segment is decrypted, what a receiver reassembles is
\* what came in: every unit with more than a header, once and in its order, with the flags
\* of its own first packet and its bytes less those that the decryption takes, in packets
\* whose counters run on; for packets of any sizes, and audio and video in any order.
THEOREM AlwaysRestored == TransportSpec => []Restored
<1>1. ASSUME UnitsInv PROVE Restored
  <2> SUFFICES ASSUME job = "decrypt", NEW pid \in Collected
               PROVE  /\ pc = "done" =>
                           /\ Cardinality(UnitsIn(pid)) = Cardinality(UnitsOut(pid))
                           /\ \A k \in UnitsIn(pid), m \in UnitsOut(pid) :
                                Rank(k, UnitsIn(pid)) = Rank(m, UnitsOut(pid)) =>
                                  [flags |-> out[m].flags, bytes |-> BytesOut(pid, m)] = AsSent(pid, k)
                      /\ \A k \in Of(out, pid) : out[k].counter = (Rank(k, Of(out, pid)) - 1) % Counters
    BY DEF Restored, StreamsRestored
  <2>1. \E S : Streams(S, input, out, pid) /\ (pc = "done" => S = KeptIn(input, pid))
    <3>1. CASE pc = "done"
      BY <1>1, <3>1 DEF UnitsInv, StreamsSoFar
    <3>2. CASE pc # "done"
      BY <1>1, <3>2 DEF UnitsInv, StreamsSoFar, Flow, Flowing
    <3> QED BY <3>1, <3>2
  <2>2. \A k \in Of(out, pid) : out[k].counter = (Rank(k, Of(out, pid)) - 1) % Counters
    BY <2>1 DEF Streams, CountersRun
  <2>3. ASSUME pc = "done"
        PROVE  Matched(KeptIn(input, pid), Starts(out, pid), Same(input, out, pid))
    BY <2>1, <2>3 DEF Streams
  <2>4. UnitsIn(pid) = KeptIn(input, pid) /\ UnitsOut(pid) = Starts(out, pid)
    BY DEF UnitsIn, UnitsOut, KeptIn, BytesIn, SizeOf
  <2>5. \A k : SentAt(input, pid, k) = AsSent(pid, k)
    BY DEF SentAt, AsSent, SizeOf, BytesIn, Left
  <2>6. \A m : FoundAt(out, pid, m) = [flags |-> out[m].flags, bytes |-> BytesOut(pid, m)]
    BY DEF FoundAt, BytesOut
  <2>7. \A k, m : <<k, m>> \in Same(input, out, pid) =>
          [flags |-> out[m].flags, bytes |-> BytesOut(pid, m)] = AsSent(pid, k)
    BY <2>5, <2>6 DEF Same
  <2> QED BY <2>2, <2>3, <2>4, <2>7 DEF Matched
<1>2. FitInv /\ UnitsInv /\ [TransportNext]_allVars => FitInv' /\ UnitsInv'
  BY DecryptKept, UnitsKept
<1>3. TransportInit => FitInv /\ UnitsInv
  BY DecryptInit, UnitsBegin
<1>4. UnitsInv => Restored
  BY <1>1
<1> QED BY <1>2, <1>3, <1>4, PTL DEF TransportSpec, allVars

=============================================================================
