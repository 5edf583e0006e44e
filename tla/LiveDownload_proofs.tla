------------------------ MODULE LiveDownload_proofs ------------------------
(***************************************************************************)
(* Proofs about LiveDownload, for every numbering bound, retry limit,      *)
(* start offset, duration limit and segment durations.                     *)
(***************************************************************************)
EXTENDS LiveDownload, FoldTheorems, TLAPS

USE MaxSeqAssumption DEF Seqs

-----------------------------------------------------------------------------
(* Playlists *)

LEMMA NullFacts == NULL \notin Seqs /\ NULL \notin Playlists
  BY NullAssumption

\* The numbering of a parsed playlist stays within the bound, and its last
\* segment is the greatest.
LEMMA PlaylistFacts ==
  ASSUME NEW p \in Playlists
  PROVE  /\ p.first \in Seqs /\ p.count \in Nat /\ p.endlist \in BOOLEAN
         /\ LastSeq(p) \in Seqs
         /\ Segs(p) \subseteq Seqs
         /\ \A s \in Segs(p) : p.first <= s /\ s <= LastSeq(p)
         /\ p.count # 0 => p.first \in Segs(p) /\ LastSeq(p) \in Segs(p)
         /\ p.count = 0 => Segs(p) = {}
<1>1. /\ p.first \in Seqs /\ p.count \in 0..(MaxSeq + 1) /\ p.endlist \in BOOLEAN
      /\ p.first + p.count <= MaxSeq + 1
  BY DEF Playlists
<1>2. LastSeq(p) \in Seqs
  BY <1>1 DEF LastSeq
<1>3. \A s \in Segs(p) : p.first <= s /\ s <= LastSeq(p)
  BY <1>1 DEF Segs, LastSeq
<1>4. p.count # 0 => p.first \in Segs(p)
  BY <1>1 DEF Segs
<1>5. p.count # 0 => LastSeq(p) \in Segs(p)
  BY <1>1 DEF Segs, LastSeq
<1>6. p.count = 0 => Segs(p) = {}
  BY <1>1 DEF Segs
<1>7. Segs(p) \subseteq Seqs /\ p.count \in Nat
  BY <1>1 DEF Segs
<1> QED BY <1>1, <1>2, <1>3, <1>4, <1>5, <1>6, <1>7

\* The block the updater adds is not empty, is new, and is within the bound.
LEMMA FirstNewFacts ==
  ASSUME TypeOK, new_me \in Playlists, LastSeq(new_me) > last_media_sequence
  PROVE  /\ FirstNew \in Seqs /\ LastSeq(new_me) \in Seqs
         /\ FirstNew <= LastSeq(new_me)
         /\ FirstNew > last_media_sequence
         /\ FirstNew..LastSeq(new_me) \subseteq Seqs
<1>1. /\ new_me.first \in Seqs /\ LastSeq(new_me) \in Seqs /\ new_me.count # 0
      /\ new_me.first <= LastSeq(new_me)
  BY PlaylistFacts DEF LastSeq, TypeOK
<1>2. last_media_sequence \in Seqs
  BY DEF TypeOK
<1> QED BY <1>1, <1>2 DEF FirstNew

-----------------------------------------------------------------------------
(* Type correctness *)

LEMMA InitType == Init => TypeOK
<1> SUFFICES ASSUME Init PROVE TypeOK
  OBVIOUS
<1>1. PICK p \in Playlists : Init!(p)
  BY DEF Init
<1>2. /\ p.first \in Seqs /\ LastSeq(p) \in Seqs /\ Segs(p) \subseteq Seqs
      /\ \A s \in Segs(p) : s <= LastSeq(p)
  BY PlaylistFacts
<1>3. next \in [Seqs -> Seqs \cup {NULL}]
  BY <1>1, <1>2
<1>4. written \in Seq(Seqs)
  BY <1>1
<1> QED BY <1>1, <1>2, <1>3, <1>4 DEF TypeOK

LEMMA MainType == TypeOK /\ ThreadsOK /\ Main => TypeOK'
<1> SUFFICES ASSUME TypeOK, ThreadsOK, Main PROVE TypeOK'
  OBVIOUS
<1> USE NullFacts DEF TypeOK, listVars, windowVars, flagVars, mainVars, updVars, outVars
<1>1. CASE MainTrim
  <2>1. /\ first_media_segment' \in Seqs \cup {NULL}
        /\ heap' \subseteq Seqs /\ listed' \subseteq Seqs
    BY <1>1 DEF MainTrim
  <2> QED BY <1>1, <2>1 DEF MainTrim
<1>2. CASE MainCreateThread
  BY <1>2 DEF MainCreateThread, ThreadsOK
<1>3. CASE MainSeesFailure
  BY <1>3 DEF MainSeesFailure
<1>4. CASE MainTake
  BY <1>4 DEF MainTake
<1>5. CASE MainFixTail
  BY <1>5 DEF MainFixTail
<1>6. CASE MainFindsEmpty
  BY <1>6 DEF MainFindsEmpty
<1>7. CASE MainResume
  BY <1>7 DEF MainResume
<1>8. CASE MainFetch
  BY <1>8 DEF MainFetch
<1>9. CASE MainRetry
  BY <1>9 DEF MainRetry, MayRetry
<1>10. CASE MainSkip
  BY <1>10 DEF MainSkip, FreeSegment
<1>11. CASE MainInvalidSize
  BY <1>11 DEF MainInvalidSize, FreeSegment
<1>12. CASE MainReachLimit
  <2>1. ms \in Seqs /\ downloaded_ms' \in Nat /\ result' \in {0, 1}
    BY <1>12, DurationAssumption DEF MainReachLimit
  <2>2. FreeSegment(FALSE) /\ UNCHANGED <<written, skipped>>
    BY <1>12 DEF MainReachLimit
  <2> QED BY <2>1, <2>2 DEF FreeSegment
<1>13. CASE MainWriteFails
  <2>1. ms \in Seqs /\ downloaded_ms' \in Nat /\ result' \in {0, 1}
    BY <1>13, DurationAssumption DEF MainWriteFails
  <2>2. FreeSegment(FALSE) /\ UNCHANGED <<written, skipped>>
    BY <1>13 DEF MainWriteFails
  <2> QED BY <2>1, <2>2 DEF FreeSegment
<1>14. CASE MainWrite
  <2>1. written' \in Seq(Seqs)
    BY <1>14 DEF MainWrite
  <2>2. downloaded_ms' \in Nat
    BY <1>14, DurationAssumption DEF MainWrite
  <2> QED BY <1>14, <2>1, <2>2 DEF MainWrite, FreeSegment
<1>15. CASE MainStop
  BY <1>15 DEF MainStop
<1>16. CASE MainJoin
  BY <1>16 DEF MainJoin
<1> QED
  BY <1>1, <1>2, <1>3, <1>4, <1>5, <1>6, <1>7, <1>8, <1>9, <1>10, <1>11, <1>12,
     <1>13, <1>14, <1>15, <1>16 DEF Main

LEMMA UpdaterType == TypeOK /\ ThreadsOK /\ Updater => TypeOK'
<1> SUFFICES ASSUME TypeOK, ThreadsOK, Updater PROVE TypeOK'
  OBVIOUS
<1> USE NullFacts DEF TypeOK, listVars, windowVars, flagVars, mainVars, updVars, outVars
<1>1. CASE UpdStart
  BY <1>1 DEF UpdStart
<1>2. CASE UpdEnded
  BY <1>2 DEF UpdEnded
<1>3. CASE UpdLock
  BY <1>3 DEF UpdLock
<1>4. CASE UpdResume
  BY <1>4 DEF UpdResume
<1>5. CASE UpdFetchList
  BY <1>5 DEF UpdFetchList
<1>6. CASE UpdFetchFails
  BY <1>6 DEF UpdFetchFails
<1>7. CASE UpdParseError
  BY <1>7 DEF UpdParseError
<1>8. CASE UpdFail
  <2>1. /\ upc = "fail" /\ upc' = "exited" /\ failed' = TRUE /\ main_waiting' = FALSE
        /\ UNCHANGED <<mtx, first_media_segment, last_media_segment, next, heap, listed>>
        /\ UNCHANGED <<first_media_sequence, last_media_sequence, is_endlist, stop>>
        /\ UNCHANGED <<mpc, ms, retries, downloaded_ms, result>>
        /\ UNCHANGED <<new_me, upd_endlist, list_extended, written, skipped>>
    BY <1>8 DEF UpdFail
  <2>2. /\ upc' \in {"off", "start", "loop", "wait", "fetch", "fail", "compare", "extend", "unlock", "exited"}
        /\ new_me' \in Playlists \cup {NULL}
        /\ upc' \in {"compare", "extend", "unlock"} <=> new_me' # NULL
    BY <2>1
  <2>3. /\ mpc' \in {"fixtail", "fetch", "refused", "error", "process"} <=> ms' # NULL
        /\ failed' \in BOOLEAN /\ main_waiting' \in BOOLEAN
    BY <2>1
  <2> QED BY <2>1, <2>2, <2>3
<1>9. CASE UpdSame
  BY <1>9 DEF UpdSame
<1>10. CASE UpdFlags
  BY <1>10, PlaylistFacts DEF UpdFlags
<1>11. CASE UpdExtend
  <2>1. /\ FirstNew \in Seqs /\ LastSeq(new_me) \in Seqs
        /\ FirstNew..LastSeq(new_me) \subseteq Seqs
    BY <1>11, FirstNewFacts, ThreadsOK DEF UpdExtend, ThreadsOK
  <2>2. next' \in [Seqs -> Seqs \cup {NULL}]
    BY <1>11, <2>1 DEF UpdExtend
  <2>3. heap' \subseteq Seqs /\ listed' \subseteq Seqs
    BY <1>11, <2>1 DEF UpdExtend
  <2> QED BY <1>11, <2>1, <2>2, <2>3 DEF UpdExtend
<1>12. CASE UpdNothingNew
  BY <1>12 DEF UpdNothingNew
<1>13. CASE UpdUnlock
  <2>1. main_waiting' \in BOOLEAN
    BY <1>13, Zenon DEF UpdUnlock
  <2>2. /\ mtx' = "free" /\ new_me' = NULL /\ list_extended' = FALSE /\ upc' = "loop"
        /\ UNCHANGED <<listVars, windowVars, stop, failed, mainVars, upd_endlist, outVars>>
    BY <1>13 DEF UpdUnlock
  <2> QED BY <2>1, <2>2
<1> QED
  BY <1>1, <1>2, <1>3, <1>4, <1>5, <1>6, <1>7, <1>8, <1>9, <1>10, <1>11, <1>12,
     <1>13 DEF Updater

LEMMA SpuriousType == TypeOK /\ MainSpuriousWakeup => TypeOK'
<1> SUFFICES ASSUME TypeOK, MainSpuriousWakeup PROVE TypeOK'
  OBVIOUS
<1>1. main_waiting' \in BOOLEAN
  BY DEF MainSpuriousWakeup
<1>2. UNCHANGED <<mtx, listVars, windowVars, stop, failed, mainVars, updVars, outVars>>
  BY DEF MainSpuriousWakeup
<1> QED
  BY <1>1, <1>2 DEF TypeOK, listVars, windowVars, mainVars, updVars, outVars

LEMMA StutterType == TypeOK /\ UNCHANGED vars => TypeOK'
  BY DEF TypeOK, vars, listVars, windowVars, flagVars, mainVars, updVars, outVars

LEMMA NextType == TypeOK /\ ThreadsOK /\ [Next]_vars => TypeOK'
  BY MainType, UpdaterType, SpuriousType, StutterType DEF Next, Terminating

LEMMA InitThreads == Init => ThreadsOK
  BY DEF Init, ThreadsOK

LEMMA NextThreads == TypeOK /\ ThreadsOK /\ [Next]_vars => ThreadsOK'
<1> SUFFICES ASSUME TypeOK, ThreadsOK, [Next]_vars PROVE ThreadsOK'
  OBVIOUS
<1> USE DEF TypeOK, ThreadsOK, vars, listVars, windowVars, flagVars, mainVars,
            updVars, outVars
<1>1. CASE MainTrim \/ MainCreateThread \/ MainSeesFailure
  BY <1>1 DEF MainTrim, MainCreateThread, MainSeesFailure
<1>2. CASE MainTake \/ MainFixTail \/ MainFindsEmpty
  BY <1>2 DEF MainTake, MainFixTail, MainFindsEmpty
<1>3. CASE MainResume \/ MainFetch \/ MainRetry \/ MainStop \/ MainJoin
  BY <1>3 DEF MainResume, MainFetch, MainRetry, MayRetry, MainStop, MainJoin
<1>4. CASE MainSkip \/ MainInvalidSize
  BY <1>4 DEF MainSkip, MainInvalidSize, FreeSegment
<1>5. CASE MainReachLimit \/ MainWriteFails \/ MainWrite
  BY <1>5 DEF MainReachLimit, MainWriteFails, MainWrite, FreeSegment
<1>6. CASE UpdStart \/ UpdEnded \/ UpdLock \/ UpdResume
  BY <1>6 DEF UpdStart, UpdEnded, UpdLock, UpdResume
<1>7. CASE UpdFetchList \/ UpdFetchFails \/ UpdParseError \/ UpdFail
  BY <1>7 DEF UpdFetchList, UpdFetchFails, UpdParseError, UpdFail
<1>8. CASE UpdSame \/ UpdFlags \/ UpdNothingNew \/ UpdUnlock
  BY <1>8 DEF UpdSame, UpdFlags, UpdNothingNew, UpdUnlock
<1>9. CASE UpdExtend
  BY <1>9 DEF UpdExtend
<1>10. CASE MainSpuriousWakeup
  BY <1>10 DEF MainSpuriousWakeup
<1>11. CASE UNCHANGED vars
  BY <1>11
<1> QED
  BY <1>1, <1>2, <1>3, <1>4, <1>5, <1>6, <1>7, <1>8, <1>9, <1>10, <1>11
     DEF Next, Main, Updater, Terminating

\* Type correctness of the two threads' shared and local state.
THEOREM TypeCorrect == Safety => []TypeOK
  BY InitType, InitThreads, NextType, NextThreads, PTL DEF Safety

-----------------------------------------------------------------------------
(* The list: order, head, tail and links *)

ListOK == OrderOK /\ HeadOK /\ TailOK /\ LinksOK /\ RecordedInOrder

\* A step that leaves the list and main's segment alone preserves ListOK.
LEMMA QuietStep ==
  ASSUME ListOK,
         UNCHANGED <<first_media_segment, last_media_segment, next, heap, ms,
                     last_media_sequence, written>>,
         mpc # "fixtail" \/ mpc' = "fixtail"
  PROVE  ListOK'
<1> USE DEF Pending, Recorded
<1>1. OrderOK'
  BY DEF ListOK, OrderOK
<1>2. HeadOK'
  BY DEF ListOK, HeadOK
<1>3. TailOK'
  BY DEF ListOK, TailOK
<1>4. LinksOK'
  BY DEF ListOK, LinksOK
<1>5. RecordedInOrder'
  BY DEF ListOK, RecordedInOrder
<1> QED BY <1>1, <1>2, <1>3, <1>4, <1>5 DEF ListOK

\* Freeing main's segment leaves the pending segments as they are.
LEMMA FreePending ==
  ASSUME heap' = heap \ {ms}, ms' = NULL, TypeOK
  PROVE  Pending' = Pending /\ heap' = Pending
  BY NullFacts DEF Pending, TypeOK

\* An iteration that ends with main's segment freed and not written.
LEMMA FreeStep ==
  ASSUME TypeOK, ThreadsOK, ListOK, heap' = heap \ {ms}, ms' = NULL,
         mpc' # "fixtail", mpc # "fixtail",
         UNCHANGED <<first_media_segment, last_media_segment, next,
                     last_media_sequence, written>>
  PROVE  ListOK'
<1>1. Pending' = Pending /\ heap' = Pending /\ heap' \subseteq heap
  BY FreePending
<1>2. OrderOK'
  BY <1>1 DEF ListOK, OrderOK, Recorded
<1>3. HeadOK'
  BY <1>1 DEF ListOK, HeadOK
<1>4. TailOK'
  BY <1>1 DEF ListOK, TailOK
<1>5. LinksOK'
  BY <1>1 DEF ListOK, LinksOK
<1>6. RecordedInOrder'
  BY DEF ListOK, RecordedInOrder
<1> QED BY <1>2, <1>3, <1>4, <1>5, <1>6 DEF ListOK

\* What Append does to the set of recorded segments.
LEMMA RecordedAppend ==
  ASSUME TypeOK, ms \in Seqs, written' = Append(written, ms)
  PROVE  /\ Recorded' = Recorded \cup {ms}
         /\ Len(written') = Len(written) + 1
         /\ written'[Len(written) + 1] = ms
         /\ \A i \in 1..Len(written) : written'[i] = written[i] /\ written[i] \in Recorded
         /\ DOMAIN written = 1..Len(written)
         /\ DOMAIN written' = 1..(Len(written) + 1)
         /\ Len(written) \in Nat
<1>1. written \in Seq(Seqs) /\ Len(written) \in Nat /\ DOMAIN written = 1..Len(written)
  BY DEF TypeOK
<1>2. /\ Len(written') = Len(written) + 1 /\ DOMAIN written' = 1..(Len(written) + 1)
      /\ written'[Len(written) + 1] = ms
      /\ \A i \in 1..Len(written) : written'[i] = written[i]
  BY <1>1
<1>3. \A i \in 1..Len(written) : written[i] \in Recorded
  BY <1>1 DEF Recorded
<1>4. Recorded' \subseteq Recorded \cup {ms}
  BY <1>1, <1>2 DEF Recorded
<1>5. Recorded \cup {ms} \subseteq Recorded'
  <2>1. ms \in Recorded'
    BY <1>1, <1>2 DEF Recorded
  <2>2. SUFFICES ASSUME NEW i \in DOMAIN written PROVE written[i] \in Recorded'
    BY <2>1 DEF Recorded
  <2> QED BY <1>1, <1>2 DEF Recorded
<1> QED BY <1>1, <1>2, <1>3, <1>4, <1>5

LEMMA WriteStep == TypeOK /\ ThreadsOK /\ ListOK /\ MainWrite => ListOK'
<1> SUFFICES ASSUME TypeOK, ThreadsOK, ListOK, MainWrite PROVE ListOK'
  OBVIOUS
<1>1. /\ ms \in Seqs /\ ms # NULL
      /\ heap' = heap \ {ms} /\ ms' = NULL /\ mpc = "process" /\ mpc' = "loop"
      /\ written' = Append(written, ms)
      /\ UNCHANGED <<first_media_segment, last_media_segment, next, last_media_sequence>>
  BY NullFacts DEF TypeOK, MainWrite, FreeSegment, windowVars
<1>2. Pending' = Pending /\ heap' = Pending /\ heap' \subseteq heap
  BY <1>1, FreePending
<1>3. OrderOK'
  <2>1. Recorded' = Recorded \cup {ms}
    BY <1>1, RecordedAppend
  <2>2. ms \in heap /\ \A s \in Pending : ms < s
    BY <1>1 DEF ListOK, OrderOK
  <2>3. \A r \in Recorded : r <= last_media_sequence /\ \A s \in heap : r < s
    BY DEF ListOK, OrderOK
  <2>4. \A s \in heap : s <= last_media_sequence
    BY DEF ListOK, OrderOK
  <2> QED BY <1>1, <1>2, <2>1, <2>2, <2>3, <2>4 DEF OrderOK
<1>4. HeadOK'
  BY <1>1, <1>2 DEF ListOK, HeadOK
<1>5. TailOK'
  BY <1>1, <1>2 DEF ListOK, TailOK
<1>6. LinksOK'
  BY <1>1, <1>2 DEF ListOK, LinksOK
<1>7. RecordedInOrder'
  <2>1. \A r \in Recorded : r < ms
    BY <1>1 DEF ListOK, OrderOK
  <2>2. \A i, j \in DOMAIN written : i < j => written[i] < written[j]
    BY DEF ListOK, RecordedInOrder
  <2>3. SUFFICES ASSUME NEW i \in DOMAIN written', NEW j \in DOMAIN written', i < j
                 PROVE  written'[i] < written'[j]
    BY DEF RecordedInOrder
  <2>4. i \in 1..Len(written) /\ j \in 1..(Len(written) + 1)
    BY <1>1, <2>3, RecordedAppend
  <2>5. CASE j = Len(written) + 1
    BY <1>1, <2>1, <2>4, <2>5, RecordedAppend
  <2>6. CASE j \in 1..Len(written)
    BY <1>1, <2>2, <2>3, <2>4, <2>6, RecordedAppend
  <2> QED BY <2>4, <2>5, <2>6, <1>1, RecordedAppend
<1> QED BY <1>3, <1>4, <1>5, <1>6, <1>7 DEF ListOK

LEMMA TrimStep == TypeOK /\ ThreadsOK /\ ListOK /\ MainTrim => ListOK'
<1> SUFFICES ASSUME TypeOK, ThreadsOK, ListOK, MainTrim PROVE ListOK'
  OBVIOUS
<1> USE DEF listVars, windowVars, outVars
<1>1. CASE first_media_segment = last_media_segment
  BY <1>1, QuietStep DEF MainTrim
<1>2. CASE first_media_segment # last_media_segment
  <2>1. PICK s \in heap : /\ first_media_segment' = s
                          /\ heap' = {x \in heap : x >= s}
    BY <1>2 DEF MainTrim
  <2>2. /\ ms = NULL /\ ms' = NULL /\ mpc # "fixtail" /\ mpc' # "fixtail"
        /\ UNCHANGED <<last_media_segment, next, last_media_sequence, written>>
    BY <1>2 DEF MainTrim, TypeOK
  <2>3. Pending = heap /\ Pending' = heap' /\ heap \subseteq Seqs /\ NULL \notin heap
    BY <2>1, <2>2, NullFacts DEF Pending, TypeOK
  <2>4. OrderOK'
    BY <2>1, <2>2, <2>3 DEF ListOK, OrderOK, Recorded
  <2>5. HeadOK'
    BY <2>1, <2>2, <2>3 DEF HeadOK
  <2>6. TailOK'
    BY <2>1, <2>2, <2>3 DEF ListOK, TailOK
  <2>7. LinksOK'
    <3>1. SUFFICES ASSUME NEW t \in heap, t >= s
                   PROVE IF next[t] = NULL THEN \A x \in heap' : x <= t
                         ELSE /\ next[t] \in heap' /\ t < next[t]
                              /\ \A x \in heap' : t < x => next[t] <= x
      BY <2>1, <2>2, <2>3 DEF LinksOK
    <3>2. IF next[t] = NULL THEN \A x \in heap : x <= t
          ELSE /\ next[t] \in heap /\ t < next[t]
               /\ \A x \in heap : t < x => next[t] <= x
      BY <2>3 DEF ListOK, LinksOK
    <3>3. CASE next[t] = NULL
      BY <2>1, <3>2, <3>3
    <3>4. CASE next[t] # NULL
      <4>1. next[t] \in heap /\ t < next[t] /\ \A x \in heap : t < x => next[t] <= x
        BY <3>2, <3>4
      <4>2. next[t] \in heap'
        <5>1. s \in Seqs /\ t \in Seqs /\ next[t] \in Seqs
          BY <2>3, <4>1
        <5>2. next[t] >= s
          BY <3>1, <4>1, <5>1
        <5> QED BY <2>1, <4>1, <5>2
      <4> QED BY <2>1, <3>4, <4>1, <4>2
    <3> QED BY <3>3, <3>4
  <2>8. RecordedInOrder'
    BY <2>2 DEF ListOK, RecordedInOrder
  <2> QED BY <2>4, <2>5, <2>6, <2>7, <2>8 DEF ListOK
<1> QED BY <1>1, <1>2

LEMMA TakeStep == TypeOK /\ ThreadsOK /\ ListOK /\ MainTake => ListOK'
<1> SUFFICES ASSUME TypeOK, ThreadsOK, ListOK, MainTake PROVE ListOK'
  OBVIOUS
<1>1. /\ first_media_segment # NULL /\ ms = NULL
      /\ ms' = first_media_segment /\ first_media_segment' = next[first_media_segment]
      /\ mpc = "loop" /\ mpc' = "fixtail"
      /\ UNCHANGED <<last_media_segment, next, heap, last_media_sequence, written>>
  BY DEF MainTake, TypeOK, windowVars, outVars
<1>2. Pending = heap /\ heap \subseteq Seqs /\ Pending' = heap \ {first_media_segment}
  BY <1>1, NullFacts DEF Pending, TypeOK
<1>3. /\ first_media_segment \in heap
      /\ \A s \in heap : first_media_segment <= s
  BY <1>1, <1>2 DEF ListOK, HeadOK
<1>4. OrderOK'
  BY <1>1, <1>2, <1>3 DEF ListOK, OrderOK, Recorded
<1>5. HeadOK'
  <2>1. LET f == first_media_segment
        IN IF next[f] = NULL THEN \A x \in heap : x <= f
           ELSE /\ next[f] \in heap /\ f < next[f]
                /\ \A x \in heap : f < x => next[f] <= x
    BY <1>2, <1>3 DEF ListOK, LinksOK
  <2>2. \A x \in heap : x = first_media_segment \/ first_media_segment < x
    BY <1>2, <1>3
  <2>3. CASE next[first_media_segment] = NULL
    BY <1>1, <1>2, <1>3, <2>1, <2>2, <2>3 DEF HeadOK
  <2>4. CASE next[first_media_segment] # NULL
    BY <1>1, <1>2, <1>3, <2>1, <2>2, <2>4 DEF HeadOK
  <2> QED BY <2>3, <2>4
<1>6. TailOK'
  <2>1. CASE first_media_segment' = NULL
    BY <1>1, <1>5, <2>1 DEF TailOK, HeadOK
  <2>2. CASE first_media_segment' # NULL
    <3>1. first_media_segment' \in heap /\ first_media_segment' # first_media_segment
      BY <1>2, <1>5, <2>2 DEF HeadOK
    <3>2. /\ last_media_segment # NULL /\ last_media_segment \in heap
          /\ \A s \in heap : s <= last_media_segment
      BY <1>1, <1>2, <1>3 DEF ListOK, TailOK
    <3>3. last_media_segment # first_media_segment
      BY <1>2, <1>3, <3>1, <3>2
    <3> QED BY <1>1, <1>2, <2>2, <3>2, <3>3 DEF TailOK
  <2> QED BY <2>1, <2>2
<1>7. LinksOK'
  BY <1>1, <1>2, <1>3 DEF ListOK, LinksOK
<1>8. RecordedInOrder'
  BY <1>1 DEF ListOK, RecordedInOrder
<1> QED BY <1>4, <1>5, <1>6, <1>7, <1>8 DEF ListOK

LEMMA FixTailStep == TypeOK /\ ThreadsOK /\ ListOK /\ MainFixTail => ListOK'
<1> SUFFICES ASSUME TypeOK, ThreadsOK, ListOK, MainFixTail PROVE ListOK'
  OBVIOUS
<1>1. /\ last_media_segment' = IF first_media_segment = NULL
                               THEN NULL ELSE last_media_segment
      /\ mpc' = "fetch"
      /\ UNCHANGED <<first_media_segment, next, heap, ms, last_media_sequence, written>>
  BY DEF MainFixTail, windowVars, outVars
<1> USE DEF ListOK, Pending, Recorded
<1>2. OrderOK' /\ HeadOK' /\ LinksOK' /\ RecordedInOrder'
  BY <1>1 DEF OrderOK, HeadOK, LinksOK, RecordedInOrder
<1>3. TailOK'
  BY <1>1 DEF TailOK, HeadOK
<1> QED BY <1>2, <1>3

LEMMA FindsEmptyStep == TypeOK /\ ThreadsOK /\ ListOK /\ MainFindsEmpty => ListOK'
<1> SUFFICES ASSUME TypeOK, ThreadsOK, ListOK, MainFindsEmpty PROVE ListOK'
  OBVIOUS
<1>1. /\ last_media_segment' = NULL /\ first_media_segment = NULL
      /\ UNCHANGED <<first_media_segment, next, heap, ms, last_media_sequence, written>>
  BY DEF MainFindsEmpty, windowVars, outVars
<1> USE DEF ListOK, Pending, Recorded
<1>2. OrderOK' /\ HeadOK' /\ LinksOK' /\ RecordedInOrder'
  BY <1>1 DEF OrderOK, HeadOK, LinksOK, RecordedInOrder
<1>3. TailOK'
  BY <1>1 DEF TailOK, HeadOK
<1> QED BY <1>2, <1>3

LEMMA ExtendStep == TypeOK /\ ThreadsOK /\ ListOK /\ UpdExtend => ListOK'
<1> SUFFICES ASSUME TypeOK, ThreadsOK, ListOK, UpdExtend PROVE ListOK'
  OBVIOUS
<1> DEFINE a == FirstNew
           z == LastSeq(new_me)
           added == a..z
<1>1. /\ new_me \in Playlists /\ z > last_media_sequence
      /\ mtx = "upd" /\ mpc # "fixtail" /\ mpc' = mpc /\ ms' = ms /\ written' = written
      /\ heap' = heap \cup added
      /\ next' = [s \in Seqs |-> CASE s = last_media_segment -> a
                                   [] s \in added /\ s # z    -> s + 1
                                   [] s = z                   -> NULL
                                   [] OTHER                   -> next[s]]
      /\ first_media_segment' = IF last_media_segment = NULL
                                THEN a ELSE first_media_segment
      /\ last_media_segment' = z /\ last_media_sequence' = z
  BY DEF UpdExtend, TypeOK, ThreadsOK, mainVars, outVars
<1>2. /\ a \in Seqs /\ z \in Seqs /\ a <= z /\ a > last_media_sequence
      /\ added \subseteq Seqs /\ last_media_sequence \in Seqs
  BY <1>1, FirstNewFacts DEF TypeOK
<1>3. /\ heap \subseteq Seqs /\ ms \notin added
      /\ \A s \in heap : s <= last_media_sequence /\ s \notin added /\ s < a
  BY <1>2, NullFacts DEF ListOK, OrderOK, TypeOK
<1>4. Pending' = Pending \cup added /\ Pending \subseteq heap
  BY <1>1, <1>3 DEF Pending
<1> HIDE DEF a, z
<1>5. OrderOK'
  <2>1. \A s \in heap' : s <= last_media_sequence'
    BY <1>1, <1>2, <1>3
  <2>2. ms' # NULL => ms' \in heap' /\ \A s \in Pending' : ms' < s
    BY <1>1, <1>2, <1>3, <1>4 DEF ListOK, OrderOK
  <2>3. Recorded' = Recorded /\ Recorded \subseteq Seqs
    BY <1>1 DEF Recorded, TypeOK
  <2>4. \A r \in Recorded : r <= last_media_sequence /\ \A s \in heap : r < s
    BY DEF ListOK, OrderOK
  <2>5. \A r \in Recorded' : r <= last_media_sequence' /\ \A s \in heap' : r < s
    BY <1>1, <1>2, <1>3, <2>3, <2>4
  <2> QED BY <2>1, <2>2, <2>5 DEF OrderOK
<1>6. ASSUME last_media_segment = NULL PROVE HeadOK' /\ TailOK' /\ LinksOK'
  <2>1. Pending = {} /\ Pending' = added
    BY <1>1, <1>4, <1>6 DEF ListOK, TailOK
  <2>2. HeadOK' /\ TailOK'
    BY <1>1, <1>2, <1>6, <2>1, NullFacts DEF HeadOK, TailOK
  <2>3. LinksOK'
    <3>1. SUFFICES ASSUME NEW s \in added
                   PROVE IF next'[s] = NULL THEN \A x \in added : x <= s
                         ELSE /\ next'[s] \in added /\ s < next'[s]
                              /\ \A x \in added : s < x => next'[s] <= x
      BY <2>1 DEF LinksOK
    <3>2. s \in Seqs /\ s # last_media_segment
      BY <1>2, <1>6, NullFacts
    <3>3. CASE s # z
      BY <1>1, <1>2, <3>2, <3>3, NullFacts
    <3>4. CASE s = z
      BY <1>1, <1>2, <3>2, <3>4
    <3> QED BY <3>3, <3>4
  <2> QED BY <2>2, <2>3
<1>7. ASSUME last_media_segment # NULL PROVE HeadOK' /\ TailOK' /\ LinksOK'
  <2>1. /\ last_media_segment \in Pending
        /\ \A s \in Pending : s <= last_media_segment
    BY <1>1, <1>7 DEF ListOK, TailOK
  <2>2. HeadOK' /\ TailOK'
    <3>1. first_media_segment # NULL /\ first_media_segment \in Pending
      BY <2>1, NullFacts DEF ListOK, HeadOK
    <3> QED BY <1>1, <1>2, <1>3, <1>4, <1>7, <2>1, <3>1, NullFacts
            DEF ListOK, HeadOK, TailOK
  <2>3. LinksOK'
    <3>1. SUFFICES ASSUME NEW s \in Pending'
                   PROVE IF next'[s] = NULL THEN \A x \in Pending' : x <= s
                         ELSE /\ next'[s] \in Pending' /\ s < next'[s]
                              /\ \A x \in Pending' : s < x => next'[s] <= x
      BY DEF LinksOK
    <3>2. s \in Seqs
      BY <1>2, <1>3, <1>4
    <3>3. CASE s = last_media_segment
      <4>1. next'[s] = a /\ a \in added /\ a # NULL
        <5>1. a \in added /\ a # NULL
          BY <1>2, NullFacts
        <5>2. next'[s] = CASE s = last_media_segment -> a
                           [] s \in added /\ s # z    -> s + 1
                           [] s = z                   -> NULL
                           [] OTHER                   -> next[s]
          BY <1>1, <3>2
        <5>3. s \notin added /\ s # z
          BY <1>2, <1>3, <1>4, <2>1, <3>3
        <5> QED BY <3>3, <5>1, <5>2, <5>3
      <4>2. s < a /\ \A x \in Pending' : s < x => x \in added
        BY <1>2, <1>3, <1>4, <2>1, <3>3
      <4> QED BY <1>2, <1>4, <4>1, <4>2
    <3>4. CASE s \in Pending /\ s # last_media_segment
      <4>1. next'[s] = next[s]
        BY <1>1, <1>2, <1>3, <1>4, <3>2, <3>4
      <4>2. next[s] # NULL
        BY <1>3, <1>4, <2>1, <3>2, <3>4 DEF ListOK, LinksOK
      <4>3. /\ next[s] \in Pending /\ s < next[s]
            /\ \A x \in Pending : s < x => next[s] <= x
        BY <3>4, <4>2 DEF ListOK, LinksOK
      <4>4. next[s] \in Seqs /\ next[s] < a
        BY <1>3, <1>4, <4>3
      <4>5. \A x \in added : next[s] <= x
        BY <1>2, <4>4
      <4> QED BY <1>4, <4>1, <4>2, <4>3, <4>5
    <3>5. CASE s \in added /\ s # z
      <4>1. next'[s] = s + 1
        BY <1>1, <1>3, <1>4, <2>1, <3>2, <3>5
      <4> QED BY <1>2, <1>3, <1>4, <3>2, <3>5, <4>1, NullFacts
    <3>6. CASE s = z
      <4>1. next'[s] = NULL
        BY <1>1, <1>2, <1>3, <1>4, <2>1, <3>2, <3>6
      <4> QED BY <1>2, <1>3, <1>4, <3>2, <3>6, <4>1
    <3> QED BY <1>4, <3>3, <3>4, <3>5, <3>6
  <2> QED BY <2>2, <2>3
<1>8. RecordedInOrder'
  BY <1>1 DEF ListOK, RecordedInOrder
<1> QED BY <1>5, <1>6, <1>7, <1>8 DEF ListOK

LEMMA InitList == Init => ListOK
<1> SUFFICES ASSUME Init PROVE ListOK
  OBVIOUS
<1>1. PICK p \in Playlists : Init!(p)
  BY DEF Init
<1>2. /\ heap = Segs(p) /\ Pending = Segs(p) /\ Recorded = {} /\ Segs(p) \subseteq Seqs
      /\ last_media_sequence = LastSeq(p) /\ LastSeq(p) \in Seqs /\ p.first \in Seqs
      /\ \A s \in Segs(p) : p.first <= s /\ s <= LastSeq(p)
      /\ ms = NULL /\ mpc = "start"
  BY <1>1, PlaylistFacts, NullFacts DEF Pending, Recorded
<1>3. OrderOK
  BY <1>2 DEF OrderOK
<1>4. HeadOK
  BY <1>1, <1>2, PlaylistFacts, NullFacts DEF HeadOK
<1>5. TailOK
  BY <1>1, <1>2, PlaylistFacts, NullFacts DEF TailOK
<1>6. LinksOK
  <2>1. SUFFICES ASSUME NEW s \in Segs(p)
                 PROVE IF next[s] = NULL THEN \A x \in Segs(p) : x <= s
                       ELSE /\ next[s] \in Segs(p) /\ s < next[s]
                            /\ \A x \in Segs(p) : s < x => next[s] <= x
    BY <1>2 DEF LinksOK
  <2>2. next[s] = IF s # LastSeq(p) THEN s + 1 ELSE NULL
    BY <1>1, <1>2
  <2>3. CASE s = LastSeq(p)
    BY <1>2, <2>2, <2>3
  <2>4. CASE s # LastSeq(p)
    <3>1. next[s] = s + 1 /\ s \in Seqs /\ s < LastSeq(p)
      BY <1>2, <2>2, <2>4
    <3>2. p.count # 0 /\ LastSeq(p) \in Segs(p)
      BY PlaylistFacts
    <3>3. s + 1 \in Segs(p)
      <4>1. p.first <= s + 1 /\ s + 1 <= LastSeq(p) /\ s + 1 \in Seqs
        BY <1>2, <3>1
      <4>2. LastSeq(p) < p.first + p.count /\ p.count \in Nat /\ p.first \in Seqs
        BY <3>2, PlaylistFacts DEF Segs
      <4> QED BY <1>2, <4>1, <4>2 DEF Segs
    <3> QED BY <1>2, <3>1, <3>3, NullFacts
  <2> QED BY <2>3, <2>4
<1>7. RecordedInOrder
  BY <1>1 DEF RecordedInOrder
<1> QED BY <1>3, <1>4, <1>5, <1>6, <1>7 DEF ListOK

LEMMA NextList == TypeOK /\ ThreadsOK /\ ListOK /\ [Next]_vars => ListOK'
<1> SUFFICES ASSUME TypeOK, ThreadsOK, ListOK, [Next]_vars PROVE ListOK'
  OBVIOUS
<1> DEFINE Quiet == /\ UNCHANGED <<first_media_segment, last_media_segment, next, heap,
                                   ms, last_media_sequence, written>>
                    /\ mpc # "fixtail" \/ mpc' = "fixtail"
           Freed == /\ heap' = heap \ {ms} /\ ms' = NULL
                    /\ mpc' # "fixtail" /\ mpc # "fixtail"
                    /\ UNCHANGED <<first_media_segment, last_media_segment, next,
                                   last_media_sequence, written>>
<1> USE DEF vars, listVars, windowVars, flagVars, mainVars, updVars, outVars
<1>1. CASE MainTrim
  BY <1>1, TrimStep
<1>2. CASE MainTake
  BY <1>2, TakeStep
<1>3. CASE MainFixTail
  BY <1>3, FixTailStep
<1>4. CASE MainFindsEmpty
  BY <1>4, FindsEmptyStep
<1>5. CASE MainWrite
  BY <1>5, WriteStep
<1>6. CASE UpdExtend
  BY <1>6, ExtendStep
<1>7. CASE MainSkip \/ MainInvalidSize \/ MainReachLimit \/ MainWriteFails
  <2>1. Freed
    BY <1>7 DEF MainSkip, MainInvalidSize, MainReachLimit, MainWriteFails, FreeSegment
  <2> QED BY <2>1, FreeStep
<1>8. CASE \/ MainCreateThread \/ MainSeesFailure \/ MainResume \/ MainFetch
           \/ MainRetry \/ MainStop \/ MainJoin \/ MainSpuriousWakeup
  <2>1. Quiet
    BY <1>8 DEF MainCreateThread, MainSeesFailure, MainResume, MainFetch, MainRetry,
                MayRetry, MainStop, MainJoin, MainSpuriousWakeup
  <2> QED BY <2>1, QuietStep
<1>9. CASE \/ UpdStart \/ UpdEnded \/ UpdLock \/ UpdResume \/ UpdFetchList
           \/ UpdFetchFails \/ UpdParseError \/ UpdFail
  <2>1. Quiet
    BY <1>9 DEF UpdStart, UpdEnded, UpdLock, UpdResume, UpdFetchList, UpdFetchFails,
                UpdParseError, UpdFail
  <2> QED BY <2>1, QuietStep
<1>10. CASE UpdSame \/ UpdFlags \/ UpdNothingNew \/ UpdUnlock \/ UNCHANGED vars
  <2>1. Quiet
    BY <1>10 DEF UpdSame, UpdFlags, UpdNothingNew, UpdUnlock
  <2> QED BY <2>1, QuietStep
<1> QED
  BY <1>1, <1>2, <1>3, <1>4, <1>5, <1>6, <1>7, <1>8, <1>9, <1>10
     DEF Next, Main, Updater, Terminating

-----------------------------------------------------------------------------
(* The end tag and the outcome *)

LEMMA NextEnd == TypeOK /\ ThreadsOK /\ EndOK /\ [Next]_vars => EndOK'
<1> SUFFICES ASSUME TypeOK, ThreadsOK, EndOK, [Next]_vars PROVE EndOK'
  OBVIOUS
<1> USE DEF TypeOK, EndOK, vars, listVars, windowVars, flagVars, mainVars, updVars, outVars
<1>1. CASE MainCreateThread
  BY <1>1 DEF MainCreateThread, ThreadsOK
<1>2. CASE MainTrim \/ MainSeesFailure \/ MainTake \/ MainFixTail \/ MainFindsEmpty
  BY <1>2 DEF MainTrim, MainSeesFailure, MainTake, MainFixTail, MainFindsEmpty
<1>3. CASE MainResume \/ MainFetch \/ MainRetry \/ MainStop \/ MainJoin
  BY <1>3 DEF MainResume, MainFetch, MainRetry, MainStop, MainJoin
<1>4. CASE MainSkip \/ MainInvalidSize \/ MainReachLimit \/ MainWriteFails \/ MainWrite
  BY <1>4 DEF MainSkip, MainInvalidSize, MainReachLimit, MainWriteFails, MainWrite,
              FreeSegment
<1>5. CASE UpdStart \/ UpdEnded \/ UpdLock \/ UpdResume
  BY <1>5 DEF UpdStart, UpdEnded, UpdLock, UpdResume
<1>6. CASE UpdFetchList \/ UpdFetchFails \/ UpdParseError \/ UpdFail
  BY <1>6 DEF UpdFetchList, UpdFetchFails, UpdParseError, UpdFail
<1>7. CASE UpdSame \/ UpdFlags \/ UpdExtend \/ UpdNothingNew \/ UpdUnlock
  BY <1>7 DEF UpdSame, UpdFlags, UpdExtend, UpdNothingNew, UpdUnlock
<1>8. CASE MainSpuriousWakeup \/ UNCHANGED vars
  BY <1>8 DEF MainSpuriousWakeup
<1> QED
  BY <1>1, <1>2, <1>3, <1>4, <1>5, <1>6, <1>7, <1>8 DEF Next, Main, Updater, Terminating

\* A step that changes neither the outcome nor what is listed.
LEMMA QuietOutcome ==
  ASSUME OutcomeOK,
         UNCHANGED <<result, downloaded_ms, is_endlist, heap, listed, written, skipped>>,
         Stopped' <=> Stopped,
         Stopped => mtx' = mtx \/ mtx' = "free"
  PROVE  OutcomeOK'
  BY DEF OutcomeOK, LimitReached, WithinLimit, Recorded

LEMMA MainOutcome ==
  ASSUME TypeOK, ThreadsOK, ListOK, EndOK, OutcomeOK, Main
  PROVE  OutcomeOK'
<1> USE DEF listVars, windowVars, flagVars, mainVars, updVars, outVars
<1>1. CASE MainTrim
  <2>1. /\ mpc = "start" /\ mpc' = "create" /\ heap' = listed'
        /\ written' = <<>> /\ skipped' = {} /\ UNCHANGED <<result, downloaded_ms>>
    <3>1. written = <<>> /\ skipped = {} /\ ~Stopped
      BY <1>1 DEF MainTrim, ThreadsOK, Stopped
    <3>2. listed = heap
      BY <3>1 DEF OutcomeOK, Recorded
    <3> QED BY <1>1, <3>1, <3>2 DEF MainTrim
  <2> QED BY <2>1 DEF OutcomeOK, Stopped, LimitReached, WithinLimit, Recorded
<1>2. CASE MainSeesFailure
  BY <1>2 DEF MainSeesFailure, OutcomeOK, Stopped
<1>3. CASE MainFindsEmpty
  <2>1. /\ ms = NULL /\ Pending = {} /\ heap = {} /\ mtx = "free" /\ mtx' = mtx /\ ~Stopped
    BY <1>3, NullFacts DEF MainFindsEmpty, TypeOK, ListOK, HeadOK, Pending, Stopped
  <2>2. UNCHANGED <<result, downloaded_ms, is_endlist, heap, listed, written, skipped>>
    BY <1>3 DEF MainFindsEmpty
  <2>3. CASE is_endlist
    BY <1>3, <2>1, <2>2, <2>3
       DEF MainFindsEmpty, OutcomeOK, Stopped, LimitReached, WithinLimit, Recorded
  <2>4. CASE ~is_endlist
    <3>1. ~Stopped'
      BY <1>3, <2>4 DEF MainFindsEmpty, Stopped
    <3> QED BY <2>1, <2>2, <3>1 DEF OutcomeOK, LimitReached, WithinLimit, Recorded
  <2> QED BY <2>3, <2>4
<1>4. CASE MainCreateThread \/ MainTake \/ MainFixTail \/ MainResume \/ MainFetch \/ MainRetry
  <2>1. UNCHANGED <<result, downloaded_ms, is_endlist, heap, listed, written, skipped>>
    BY <1>4 DEF MainCreateThread, MainTake, MainFixTail, MainResume, MainFetch, MainRetry
  <2>2. ~Stopped /\ ~Stopped'
    <3>1. CASE MainFetch
      BY <3>1 DEF MainFetch, Stopped
    <3>2. CASE MainRetry
      BY <3>2 DEF MainRetry, MayRetry, Stopped
    <3>3. CASE MainCreateThread \/ MainTake \/ MainFixTail \/ MainResume
      BY <3>3 DEF MainCreateThread, MainTake, MainFixTail, MainResume, Stopped
    <3> QED BY <1>4, <3>1, <3>2, <3>3
  <2> QED BY <2>1, <2>2, QuietOutcome
<1>5. CASE MainStop \/ MainJoin
  <2>1. /\ UNCHANGED <<result, downloaded_ms, is_endlist, heap, listed, written, skipped>>
        /\ Stopped /\ Stopped' /\ mtx' = mtx
    BY <1>5 DEF MainStop, MainJoin, Stopped
  <2> QED BY <2>1, QuietOutcome
<1>6. CASE MainSkip
  <2>1. /\ ms \in heap /\ ~Stopped /\ ~Stopped'
        /\ heap' = heap \ {ms} /\ skipped' = skipped \cup {ms}
        /\ UNCHANGED <<result, downloaded_ms, listed, written>>
    BY <1>6 DEF MainSkip, FreeSegment, TypeOK, ListOK, OrderOK, Stopped
  <2> QED BY <2>1 DEF OutcomeOK, LimitReached, WithinLimit, Recorded
<1>7. CASE MainInvalidSize \/ MainWriteFails
  BY <1>7 DEF MainInvalidSize, MainWriteFails, FreeSegment, OutcomeOK, Stopped
<1>8. CASE MainReachLimit
  BY <1>8 DEF MainReachLimit, FreeSegment, OutcomeOK, Stopped, LimitReached, WithinLimit
<1>9. CASE MainWrite
  <2>1. /\ ms \in Seqs /\ ms \in heap /\ ~Stopped /\ ~Stopped'
        /\ heap' = heap \ {ms} /\ written' = Append(written, ms)
        /\ ~LimitReached' /\ UNCHANGED <<result, listed, skipped>>
    BY <1>9, NullFacts DEF MainWrite, FreeSegment, TypeOK, ListOK, OrderOK, Stopped,
                           LimitReached, WithinLimit
  <2>2. Recorded' = Recorded \cup {ms}
    BY <2>1, RecordedAppend
  <2> QED BY <2>1, <2>2 DEF OutcomeOK
<1> QED
  BY <1>1, <1>2, <1>3, <1>4, <1>5, <1>6, <1>7, <1>8, <1>9 DEF Main

LEMMA UpdaterOutcome ==
  ASSUME TypeOK, ThreadsOK, ListOK, EndOK, OutcomeOK, Updater
  PROVE  OutcomeOK'
<1> USE DEF listVars, windowVars, flagVars, mainVars, updVars, outVars
<1>1. CASE \/ UpdStart \/ UpdEnded \/ UpdLock \/ UpdResume \/ UpdFetchList \/ UpdFetchFails
           \/ UpdParseError \/ UpdFail \/ UpdSame \/ UpdNothingNew
  <2>1. /\ UNCHANGED <<result, downloaded_ms, is_endlist, heap, listed, written, skipped>>
        /\ mpc' = mpc /\ mtx' = mtx
    BY <1>1 DEF UpdStart, UpdEnded, UpdLock, UpdResume, UpdFetchList, UpdFetchFails,
                UpdParseError, UpdFail, UpdSame, UpdNothingNew
  <2> QED BY <2>1, QuietOutcome DEF Stopped
<1>2. CASE UpdUnlock
  <2>1. /\ UNCHANGED <<result, downloaded_ms, is_endlist, heap, listed, written, skipped>>
        /\ mpc' = mpc /\ mtx' = "free"
    BY <1>2 DEF UpdUnlock
  <2> QED BY <2>1, QuietOutcome DEF Stopped
<1>3. CASE UpdFlags
  <2>1. /\ UNCHANGED <<result, downloaded_ms, heap, listed, written, skipped, mpc>>
        /\ ~is_endlist
    BY <1>3 DEF UpdFlags, EndOK
  <2> QED BY <2>1 DEF OutcomeOK, Stopped, LimitReached, WithinLimit, Recorded
<1>4. CASE UpdExtend
  <2> DEFINE added == FirstNew..LastSeq(new_me)
  <2>1. /\ UNCHANGED <<result, downloaded_ms, written, skipped, mpc>>
        /\ mtx = "upd" /\ heap' = heap \cup added /\ listed' = listed \cup added
    BY <1>4 DEF UpdExtend, ThreadsOK
  <2> QED BY <2>1 DEF OutcomeOK, Stopped, LimitReached, WithinLimit, Recorded
<1> QED
  BY <1>1, <1>2, <1>3, <1>4 DEF Updater

LEMMA InitOutcome == Init => EndOK /\ OutcomeOK
<1> SUFFICES ASSUME Init PROVE EndOK /\ OutcomeOK
  OBVIOUS
<1>1. /\ mpc = "start" /\ is_endlist = FALSE /\ upd_endlist = FALSE
      /\ result = 0 /\ downloaded_ms = 0 /\ listed = heap
      /\ written = <<>> /\ skipped = {}
  BY DEF Init
<1>2. ~LimitReached
  BY <1>1, DurationAssumption DEF LimitReached, WithinLimit
<1>3. Recorded = {}
  BY <1>1 DEF Recorded
<1> QED BY <1>1, <1>2, <1>3 DEF EndOK, OutcomeOK, Stopped

LEMMA NextOutcome ==
  TypeOK /\ ThreadsOK /\ ListOK /\ EndOK /\ OutcomeOK /\ [Next]_vars => OutcomeOK'
<1>1. OutcomeOK /\ (MainSpuriousWakeup \/ UNCHANGED vars) => OutcomeOK'
  <2> SUFFICES ASSUME OutcomeOK, MainSpuriousWakeup \/ UNCHANGED vars PROVE OutcomeOK'
    OBVIOUS
  <2>1. /\ UNCHANGED <<result, downloaded_ms, is_endlist, heap, listed, written, skipped>>
        /\ mpc' = mpc /\ mtx' = mtx
    BY DEF MainSpuriousWakeup, vars, listVars, windowVars, flagVars, mainVars, outVars
  <2> QED BY <2>1, QuietOutcome DEF Stopped
<1> QED BY <1>1, MainOutcome, UpdaterOutcome DEF Next, Terminating

-----------------------------------------------------------------------------
(* The inductive invariant and what follows from it *)

LEMMA IInvParts == IInv <=> TypeOK /\ ThreadsOK /\ ListOK /\ EndOK /\ OutcomeOK
  BY DEF IInv, ListOK

\* The list, the threads and the outcome stay consistent in every step.
THEOREM Inductive == Safety => []IInv
<1>1. Init => IInv
  BY InitType, InitThreads, InitList, InitOutcome, IInvParts
<1>2. IInv /\ [Next]_vars => IInv'
  <2> SUFFICES ASSUME IInv, [Next]_vars PROVE IInv'
    OBVIOUS
  <2>1. TypeOK' /\ ThreadsOK' /\ ListOK' /\ EndOK' /\ OutcomeOK'
    BY IInvParts, NextType, NextThreads, NextList, NextEnd, NextOutcome
  <2> QED BY <2>1 DEF IInv, ListOK
<1> QED BY <1>1, <1>2, PTL DEF Safety

\* Segments reach the output in playlist order, none of them twice.
THEOREM InOrder == Safety => []RecordedInOrder
<1>1. IInv => RecordedInOrder
  BY DEF IInv
<1> QED BY <1>1, Inductive, PTL

\* The updater never splices onto a segment main has taken off the list.
THEOREM SpliceIsSafe == Safety => []SpliceSafe
<1>1. IInv => SpliceSafe
  BY NullFacts DEF IInv, ThreadsOK, HeadOK, TailOK, SpliceSafe
<1> QED BY <1>1, Inductive, PTL

\* While the recording runs no listed segment is lost.
THEOREM NoneLost == Safety => []EverySegmentAccounted
<1>1. IInv => EverySegmentAccounted
  BY DEF IInv, OutcomeOK, Stopped, EverySegmentAccounted
<1> QED BY <1>1, Inductive, PTL

\* A recording that ends cleanly has seen the end and left nothing over.
THEOREM CleanFinish == Safety => []CleanFinishComplete
<1>1. IInv => CleanFinishComplete
  BY DEF IInv, OutcomeOK, Stopped, CleanFinishComplete, Pending
<1> QED BY <1>1, Inductive, PTL

LEMMA LeastIsMin ==
  ASSUME NEW S \in SUBSET Seqs, NEW m \in S, \A x \in S : m <= x
  PROVE  Min(S) = m
<1>1. \E x \in S : \A y \in S : x <= y
  OBVIOUS
<1>2. Min(S) \in S /\ \A y \in S : Min(S) <= y
  BY <1>1, Zenon DEF Min
<1>3. Min(S) <= m /\ m <= Min(S) /\ m \in Seqs /\ Min(S) \in Seqs
  BY <1>2
<1> QED BY <1>3

LEMMA GreatestIsMax ==
  ASSUME NEW S \in SUBSET Seqs, NEW m \in S, \A x \in S : x <= m
  PROVE  Max(S) = m
<1>1. \E x \in S : \A y \in S : x >= y
  OBVIOUS
<1>2. Max(S) \in S /\ \A y \in S : Max(S) >= y
  BY <1>1, Zenon DEF Max
<1>3. Max(S) >= m /\ m >= Max(S) /\ m \in Seqs /\ Max(S) \in Seqs
  BY <1>2
<1> QED BY <1>3

\* Whenever the mutex is free the list is its pending segments in order.
THEOREM ListStaysIntact == Safety => []ListIntact
<1>1. ASSUME IInv, mtx = "free"
      PROVE  first_media_segment = (IF Pending = {} THEN NULL ELSE Min(Pending))
  <2>1. Pending \subseteq Seqs /\ NULL \notin Pending
    BY <1>1, NullFacts DEF IInv, TypeOK, Pending
  <2> QED BY <1>1, <2>1, LeastIsMin DEF IInv, HeadOK
<1>2. ASSUME IInv, mtx = "free"
      PROVE  last_media_segment = (IF Pending = {} THEN NULL ELSE Max(Pending))
  <2>1. Pending \subseteq Seqs /\ NULL \notin Pending
    BY <1>2, NullFacts DEF IInv, TypeOK, Pending
  <2>2. mpc # "fixtail"
    BY <1>2 DEF IInv, ThreadsOK
  <2> QED BY <1>2, <2>1, <2>2, GreatestIsMax DEF IInv, TailOK
<1>3. ASSUME IInv, NEW s \in Pending
      PROVE  LET above == {x \in Pending : x > s}
             IN next[s] = IF above = {} THEN NULL ELSE Min(above)
  <2> DEFINE above == {x \in Pending : x > s}
  <2>1. Pending \subseteq Seqs /\ NULL \notin Pending
    BY <1>3, NullFacts DEF IInv, TypeOK, Pending
  <2>2. CASE next[s] = NULL
    <3>1. \A x \in Pending : x <= s
      BY <1>3, <2>2 DEF IInv, LinksOK
    <3>2. ASSUME NEW x \in Pending PROVE ~(x > s)
      BY <1>3, <2>1, <3>1
    <3>3. above = {}
      BY <3>2
    <3> QED BY <2>2, <3>3
  <2>3. CASE next[s] # NULL
    <3>1. next[s] \in above /\ \A x \in above : next[s] <= x
      BY <1>3, <2>1, <2>3 DEF IInv, LinksOK
    <3>2. above \subseteq Seqs
      BY <2>1
    <3>3. Min(above) = next[s]
      <4> HIDE DEF above
      <4> QED BY <3>1, <3>2, LeastIsMin
    <3> QED BY <3>1, <3>3
  <2> QED BY <2>2, <2>3
<1>4. IInv => ListIntact
  BY <1>1, <1>2, <1>3 DEF ListIntact
<1> QED BY <1>4, Inductive, PTL

-----------------------------------------------------------------------------
(* The duration limit *)

\* What is on disk was counted, and was within the limit when it was written.
DurationOK == WrittenMs \in Nat /\ WrittenMs <= downloaded_ms /\ DurationLimit

\* A segment more is its duration more.
LEMMA WrittenMsAppend ==
  ASSUME TypeOK, NEW s \in Seqs, written' = Append(written, s), WrittenMs \in Nat
  PROVE  WrittenMs' = DurationMs[s] + WrittenMs
<1> DEFINE n == Len(written)
           S == 1..n
           x == n + 1
           f == [i \in DOMAIN written |-> DurationMs[written[i]]]
           e == [i \in DOMAIN written' |-> DurationMs[written'[i]]]
<1>1. /\ written \in Seq(Seqs) /\ n \in Nat /\ DOMAIN written = 1..n
      /\ DOMAIN written' = 1..(n + 1) /\ written'[n + 1] = s
      /\ \A i \in 1..n : written'[i] = written[i] /\ written[i] \in Seqs
  BY DEF TypeOK
<1>2. 1..(n + 1) = S \cup {x} /\ x \notin S /\ IsFiniteSet(S)
  <2>1. IsFiniteSet(S)
    BY <1>1, FS_Interval
  <2>2. 1..(n + 1) = S \cup {x} /\ x \notin S
    BY <1>1
  <2> QED BY <2>1, <2>2
<1>3. DOMAIN f = S /\ DOMAIN e = S \cup {x} /\ (\A i \in S : e[i] = f[i]) /\ e[x] = DurationMs[s]
  BY <1>1, <1>2
<1>4. Integral(e, S \cup {x})
  BY <1>1, <1>2, DurationAssumption DEF Integral
<1>5. WrittenMs = SumFunctionOnSet(f, DOMAIN f) /\ WrittenMs' = SumFunctionOnSet(e, DOMAIN e)
  BY DEF WrittenMs, SumFunction
<1> HIDE DEF e, f, S, x
<1>6. SumFunctionOnSet(e, S \cup {x}) = e[x] + SumFunctionOnSet(f, S)
  BY <1>2, <1>3, <1>4, SumWithOneMore
<1> QED BY <1>3, <1>5, <1>6

LEMMA NextDuration == TypeOK /\ ThreadsOK /\ DurationOK /\ [Next]_vars => DurationOK'
<1> SUFFICES ASSUME TypeOK, ThreadsOK, DurationOK, [Next]_vars PROVE DurationOK'
  OBVIOUS
<1>1. downloaded_ms \in Nat /\ (mpc = "process" => ms \in Seqs /\ DurationMs[ms] \in Nat)
  BY NullFacts, DurationAssumption DEF TypeOK
<1>2. CASE MainWrite
  <2>1. /\ ms \in Seqs /\ DurationMs[ms] \in Nat /\ written' = Append(written, ms)
        /\ downloaded_ms' = downloaded_ms + DurationMs[ms] /\ WithinLimit(downloaded_ms')
    BY <1>1, <1>2 DEF MainWrite
  <2>2. WrittenMs' = DurationMs[ms] + WrittenMs
    BY <2>1, WrittenMsAppend DEF DurationOK
  <2>3. WrittenMs' \in Nat /\ WrittenMs' <= downloaded_ms'
    BY <1>1, <2>1, <2>2 DEF DurationOK
  <2>4. LiveDurationMs > 0 => WrittenMs' <= LiveDurationMs
    BY <1>1, <2>1, <2>3, DurationAssumption DEF WithinLimit
  <2> QED BY <2>3, <2>4 DEF DurationOK, DurationLimit
<1>3. CASE ~MainWrite
  <2>1. UNCHANGED written /\ downloaded_ms' \in Nat /\ downloaded_ms <= downloaded_ms'
    <3>1. CASE Main
      BY <1>1, <1>3, <3>1 DEF Main, MainTrim, MainCreateThread, MainSeesFailure, MainTake,
         MainFixTail, MainFindsEmpty, MainResume, MainFetch, MainRetry, MainSkip,
         MainInvalidSize, MainReachLimit, MainWriteFails, MainStop, MainJoin, FreeSegment,
         outVars
    <3>2. CASE Updater
      BY <1>1, <3>2 DEF Updater, UpdStart, UpdEnded, UpdLock, UpdResume, UpdFetchList,
         UpdFetchFails, UpdParseError, UpdFail, UpdSame, UpdFlags, UpdExtend, UpdNothingNew,
         UpdUnlock, outVars, mainVars
    <3>3. CASE MainSpuriousWakeup \/ UNCHANGED vars
      BY <1>1, <3>3 DEF MainSpuriousWakeup, vars, outVars, mainVars
    <3> QED BY <3>1, <3>2, <3>3 DEF Next, Terminating
  <2>2. WrittenMs' = WrittenMs
    BY <2>1 DEF WrittenMs
  <2> QED BY <1>1, <2>1, <2>2 DEF DurationOK, DurationLimit
<1> QED BY <1>2, <1>3

LEMMA InitDuration == Init => DurationOK
<1> SUFFICES ASSUME Init PROVE DurationOK
  OBVIOUS
<1>1. written = <<>> /\ downloaded_ms = 0
  BY DEF Init
<1> DEFINE f == [i \in DOMAIN written |-> DurationMs[written[i]]]
<1>2. DOMAIN f = {}
  BY <1>1
<1>3. WrittenMs = SumFunctionOnSet(f, DOMAIN f)
  BY DEF WrittenMs, SumFunction
<1> HIDE DEF f
<1>4. WrittenMs = 0
  BY <1>2, <1>3, SumOfNothing
<1> QED BY <1>1, <1>4, DurationAssumption DEF DurationOK, DurationLimit

\* With option -i the segments on disk never add up to more than the limit,
\* however long they are: the one that would cross it is dropped.
THEOREM DurationIsLimited == Safety => []DurationLimit
<1>1. TypeOK /\ ThreadsOK /\ DurationOK /\ [Next]_vars => DurationOK'
  BY NextDuration
<1>2. IInv => TypeOK /\ ThreadsOK
  BY DEF IInv
<1>3. DurationOK => DurationLimit
  BY DEF DurationOK
<1> QED BY <1>1, <1>2, <1>3, InitDuration, Inductive, PTL DEF Safety

-----------------------------------------------------------------------------
(* LiveDownload implements LiveRecording: every step is a step of the        *)
(* recording or leaves it alone.                                             *)

Ended == is_endlist /\ mtx # "upd"

\* What an observer of the recording sees.
Seen == <<Pending, ms, written, last_media_sequence, Ended, Status>>

LEMMA StatusBy ==
  ASSUME TypeOK
  PROVE  /\ mpc = "start" => Status = "starting"
         /\ mpc # "start" /\ ~Stopped => Status = "recording"
         /\ Stopped /\ result # 0 => Status = "failed"
         /\ Stopped /\ result = 0 /\ LimitReached => Status = "limited"
         /\ Stopped /\ result = 0 /\ ~LimitReached => Status = "complete"
  BY DEF TypeOK, Status, Stopped

\* Status depends on nothing but main's control state and its two verdicts.
LEMMA SameStatus ==
  ASSUME TypeOK, TypeOK', UNCHANGED <<result, downloaded_ms>>,
         (mpc = "start") <=> (mpc' = "start"), Stopped <=> Stopped'
  PROVE  Status' = Status
<1>1. LimitReached' <=> LimitReached
  BY DEF LimitReached, WithinLimit
<1> QED BY <1>1 DEF Status, Stopped

LEMMA InitRecording == Init => Recording!Init
<1> SUFFICES ASSUME Init PROVE Recording!Init
  OBVIOUS
<1>1. TypeOK /\ ListOK
  BY InitType, InitList
<1>2. /\ ms = NULL /\ mpc = "start" /\ written = <<>> /\ is_endlist = FALSE
  BY DEF Init
<1>3. Status = "starting"
  BY <1>1, <1>2, StatusBy
<1>4. Pending \subseteq Seqs /\ \A s \in Pending : s <= last_media_sequence
  BY <1>1 DEF ListOK, OrderOK, TypeOK, Pending
<1> QED BY <1>1, <1>2, <1>3, <1>4 DEF Recording!Init, TypeOK

\* Steps that an observer does not see.
LEMMA Unseen ==
  ASSUME IInv, TypeOK',
         UNCHANGED <<heap, ms, written, last_media_sequence, result, downloaded_ms>>,
         (mpc = "start") <=> (mpc' = "start"), Stopped <=> Stopped',
         Ended <=> Ended'
  PROVE  UNCHANGED Seen
<1>1. Status' = Status
  BY SameStatus DEF IInv
<1>2. Pending' = Pending
  BY DEF Pending
<1>3. Ended' = Ended
  BY Zenon DEF Ended
<1> QED BY <1>1, <1>2, <1>3 DEF Seen

LEMMA MainRecording ==
  ASSUME IInv, TypeOK', Main
  PROVE  Recording!Next \/ UNCHANGED Seen
<1> USE DEF listVars, windowVars, flagVars, mainVars, updVars, outVars
<1>0. TypeOK /\ ThreadsOK /\ ListOK /\ OutcomeOK /\ Ended \in BOOLEAN
  BY DEF IInv, ListOK, Ended
<1>1. CASE MainTrim
  <2>1. /\ ms = NULL /\ ms' = NULL /\ mpc = "start" /\ mpc' = "create"
        /\ UNCHANGED <<written, last_media_sequence, is_endlist, mtx>>
    BY <1>0, <1>1 DEF MainTrim, TypeOK
  <2>2. Status = "starting" /\ Status' = "recording"
    BY <1>0, <2>1, StatusBy DEF Stopped, Status
  <2>3. Pending = heap /\ Pending' = heap' /\ heap \subseteq Seqs
    BY <1>0, <2>1, NullFacts DEF Pending, TypeOK
  <2>4. \E s \in Seqs : heap' = {x \in heap : x >= s} /\ (heap # {} => heap' # {})
    <3>1. CASE first_media_segment = last_media_segment
      <4>1. heap' = heap
        BY <1>1, <3>1 DEF MainTrim
      <4>2. \A x \in heap : x >= 0
        BY <2>3
      <4>3. heap = {x \in heap : x >= 0}
        BY <4>2
      <4>4. 0 \in Seqs
        OBVIOUS
      <4> QED BY <4>1, <4>3, <4>4
    <3>2. CASE first_media_segment # last_media_segment
      <4>1. PICK s \in heap : heap' = {x \in heap : x >= s}
        BY <1>1, <3>2 DEF MainTrim
      <4>2. s \in heap'
        BY <2>3, <4>1
      <4> QED BY <2>3, <4>1, <4>2
    <3> QED BY <3>1, <3>2
  <2>5. Recording!Begin
    BY <2>1, <2>2, <2>3, <2>4 DEF Recording!Begin
  <2> QED BY <2>5 DEF Recording!Next
<1>2. CASE MainSeesFailure
  <2>1. /\ ms = NULL /\ mpc = "loop" /\ mpc' = "stop" /\ result' = 1
        /\ UNCHANGED <<heap, ms, written, last_media_sequence, is_endlist, mtx>>
    BY <1>0, <1>2 DEF MainSeesFailure, TypeOK
  <2>2. Status = "recording" /\ Status' = "failed"
    BY <1>0, <2>1, StatusBy DEF Stopped, Status
  <2>3. Recording!GiveUp
    BY <2>1, <2>2 DEF Recording!GiveUp, Pending
  <2> QED BY <2>3 DEF Recording!Next
<1>3. CASE MainTake
  <2>1. /\ ms = NULL /\ ms' = first_media_segment /\ mpc = "loop" /\ mpc' = "fixtail"
        /\ mtx = "free" /\ mtx' = "main" /\ first_media_segment # NULL
        /\ UNCHANGED <<heap, written, last_media_sequence, is_endlist>>
    BY <1>0, <1>3 DEF MainTake, TypeOK
  <2>2. Status = "recording" /\ Status' = "recording"
    BY <1>0, <2>1, StatusBy DEF Stopped, Status
  <2>3. /\ Pending = heap /\ Pending' = heap \ {first_media_segment}
        /\ first_media_segment \in Pending
        /\ \A x \in Pending : first_media_segment <= x
    BY <1>0, <2>1, NullFacts DEF Pending, TypeOK, ListOK, HeadOK
  <2>4. Ended' = Ended
    BY <2>1 DEF Ended
  <2>5. Recording!Take
    BY <2>1, <2>2, <2>3, <2>4 DEF Recording!Take, Ended
  <2> QED BY <2>5 DEF Recording!Next
<1>4. CASE MainFindsEmpty
  <2>1. /\ ms = NULL /\ Pending = {} /\ mpc = "loop" /\ mtx = "free"
        /\ UNCHANGED <<heap, ms, written, last_media_sequence, is_endlist, mtx,
                       result, downloaded_ms>>
    BY <1>0, <1>4 DEF MainFindsEmpty, TypeOK, ListOK, HeadOK
  <2>2. CASE is_endlist
    <3>1. mpc' = "stop" /\ result' = 0 /\ ~LimitReached'
      BY <1>0, <1>4, <2>1, <2>2
         DEF MainFindsEmpty, OutcomeOK, Stopped, LimitReached, WithinLimit
    <3>2. Status = "recording" /\ Status' = "complete"
      BY <1>0, <2>1, <3>1, StatusBy DEF Stopped, Status
    <3>3. Recording!Complete
      BY <2>1, <2>2, <3>2 DEF Recording!Complete, Pending
    <3> QED BY <3>3 DEF Recording!Next
  <2>3. CASE ~is_endlist
    <3>1. mpc' = "wait" /\ (Ended <=> Ended') /\ (Stopped <=> Stopped')
      BY <1>4, <2>1, <2>3 DEF MainFindsEmpty, Ended, Stopped
    <3> QED BY <2>1, <3>1, Unseen
  <2> QED BY <2>2, <2>3
<1>5. CASE MainCreateThread \/ MainResume \/ MainFetch \/ MainRetry
  <2>1. /\ UNCHANGED <<heap, ms, written, last_media_sequence, result, downloaded_ms,
                       is_endlist, mtx>>
        /\ mpc \notin {"start", "stop", "join", "done"}
    BY <1>5 DEF MainCreateThread, MainResume, MainFetch, MainRetry, MayRetry
  <2>2. mpc' \notin {"start", "stop", "join", "done"}
    <3>1. CASE MainFetch
      BY <3>1 DEF MainFetch
    <3>2. CASE MainCreateThread \/ MainResume \/ MainRetry
      BY <3>2 DEF MainCreateThread, MainResume, MainRetry
    <3> QED BY <1>5, <3>1, <3>2
  <2> QED BY <2>1, <2>2, Unseen DEF Stopped, Ended
<1>6. CASE MainFixTail
  <2>1. /\ UNCHANGED <<heap, ms, written, last_media_sequence, result, downloaded_ms,
                       is_endlist>>
        /\ mtx = "main" /\ mtx' = "free"
        /\ mpc = "fixtail" /\ mpc' = "fetch"
    BY <1>0, <1>6 DEF MainFixTail, ThreadsOK
  <2> QED BY <2>1, Unseen DEF Stopped, Ended
<1>7. CASE MainStop \/ MainJoin
  <2>1. /\ UNCHANGED <<heap, ms, written, last_media_sequence, result, downloaded_ms,
                       is_endlist, mtx>>
        /\ Stopped /\ Stopped' /\ mpc # "start" /\ mpc' # "start"
    BY <1>7 DEF MainStop, MainJoin, Stopped
  <2> QED BY <2>1, Unseen DEF Ended
<1>8. ASSUME MainSkip \/ MainInvalidSize \/ MainReachLimit \/ MainWriteFails \/ MainWrite
      PROVE  /\ ms # NULL /\ ms' = NULL /\ Pending' = Pending /\ Ended' = Ended
             /\ Status = "recording"
             /\ UNCHANGED <<last_media_sequence, is_endlist, mtx>>
  <2>1. /\ heap' = heap \ {ms} /\ ms' = NULL /\ UNCHANGED <<is_endlist, mtx, last_media_sequence>>
        /\ mpc \in {"error", "refused", "process"}
    BY <1>8 DEF MainSkip, MainInvalidSize, MainReachLimit, MainWriteFails, MainWrite,
                FreeSegment
  <2>2. Pending' = Pending
    BY <1>0, <2>1, FreePending
  <2>3. Status = "recording" /\ ms # NULL
    BY <1>0, <2>1, StatusBy DEF Stopped, TypeOK
  <2>4. Ended' = Ended
    BY <2>1 DEF Ended
  <2> QED BY <2>1, <2>2, <2>3, <2>4
<1>9. CASE MainSkip
  <2>1. mpc' = "loop" /\ UNCHANGED written
    BY <1>9 DEF MainSkip, FreeSegment
  <2>2. Status' = "recording"
    BY <2>1 DEF Status
  <2>3. Recording!Skip
    BY <1>8, <1>9, <2>1, <2>2 DEF Recording!Skip, Ended
  <2> QED BY <2>3 DEF Recording!Next
<1>10. CASE MainWrite
  <2>1. mpc' = "loop" /\ written' = Append(written, ms)
    BY <1>10 DEF MainWrite, FreeSegment
  <2>2. Status' = "recording"
    BY <2>1 DEF Status
  <2>3. Recording!Record
    BY <1>8, <1>10, <2>1, <2>2 DEF Recording!Record, Ended
  <2> QED BY <2>3 DEF Recording!Next
<1>11. CASE MainInvalidSize \/ MainReachLimit \/ MainWriteFails
  <2>1. Status' \in {"limited", "failed"} /\ UNCHANGED written
    <3>1. CASE MainInvalidSize \/ MainWriteFails
      BY <3>1 DEF MainInvalidSize, MainWriteFails, FreeSegment, Status
    <3>2. CASE MainReachLimit
      <4>1. LimitReached' /\ mpc' = "stop" /\ UNCHANGED written
        BY <3>2 DEF MainReachLimit, FreeSegment, LimitReached, WithinLimit
      <4> QED BY <4>1 DEF Status
    <3> QED BY <1>11, <3>1, <3>2
  <2>2. Recording!GiveUp
    BY <1>8, <1>11, <2>1 DEF Recording!GiveUp, Ended
  <2> QED BY <2>2 DEF Recording!Next
<1> QED
  BY <1>1, <1>2, <1>3, <1>4, <1>5, <1>6, <1>7, <1>9, <1>10, <1>11 DEF Main

LEMMA UpdaterRecording ==
  ASSUME IInv, TypeOK', Updater
  PROVE  Recording!Next \/ UNCHANGED Seen
<1> USE DEF listVars, windowVars, flagVars, mainVars, updVars, outVars
<1>0. TypeOK /\ ThreadsOK /\ ListOK /\ EndOK /\ Ended \in BOOLEAN
  BY DEF IInv, ListOK, Ended
<1>1. CASE \/ UpdStart \/ UpdEnded \/ UpdLock \/ UpdResume \/ UpdFetchList \/ UpdFetchFails
           \/ UpdParseError \/ UpdFail \/ UpdSame \/ UpdNothingNew
  <2>1. UNCHANGED <<heap, ms, written, last_media_sequence, result, downloaded_ms, mpc,
                    is_endlist, mtx>>
    BY <1>1 DEF UpdStart, UpdEnded, UpdLock, UpdResume, UpdFetchList, UpdFetchFails,
                UpdParseError, UpdFail, UpdSame, UpdNothingNew
  <2> QED BY <2>1, Unseen DEF Stopped, Ended
<1>2. CASE UpdFlags
  <2>1. /\ UNCHANGED <<heap, ms, written, last_media_sequence, result, downloaded_ms, mpc>>
        /\ mtx' = "upd" /\ ~is_endlist
    BY <1>0, <1>2 DEF UpdFlags, EndOK
  <2> QED BY <2>1, Unseen DEF Stopped, Ended
<1>3. CASE UpdUnlock
  <2>1. /\ UNCHANGED <<heap, ms, written, last_media_sequence, result, downloaded_ms, mpc,
                       is_endlist>>
        /\ mtx' = "free" /\ mtx = "upd"
    BY <1>0, <1>3 DEF UpdUnlock, ThreadsOK
  <2>2. Pending' = Pending /\ Status' = Status
    BY <1>0, <2>1, SameStatus DEF Pending, Stopped
  <2>3. CASE is_endlist
    <3>1. Recording!EndOfStream
      BY <1>0, <2>1, <2>2, <2>3 DEF Recording!EndOfStream, TypeOK
    <3> QED BY <3>1 DEF Recording!Next
  <2>4. CASE ~is_endlist
    BY <2>1, <2>4, Unseen DEF Stopped, Ended
  <2> QED BY <2>3, <2>4
<1>4. CASE UpdExtend
  <2> DEFINE a == FirstNew
             z == LastSeq(new_me)
  <2>1. /\ heap' = heap \cup a..z /\ last_media_sequence' = z
        /\ z > last_media_sequence /\ new_me \in Playlists
        /\ UNCHANGED <<ms, written, result, downloaded_ms, mpc, is_endlist, mtx>>
        /\ mtx = "upd"
    BY <1>0, <1>4 DEF UpdExtend, ThreadsOK, TypeOK
  <2>2. a \in Seqs /\ z \in Seqs /\ last_media_sequence < a /\ a <= z
    BY <1>0, <2>1, FirstNewFacts DEF TypeOK
  <2>3. Status' = Status
    BY <1>0, <2>1, SameStatus DEF Stopped
  <2>4. ms \notin a..z
    BY <1>0, <2>1, <2>2, NullFacts DEF ListOK, OrderOK, TypeOK
  <2>5. Pending' = Pending \cup a..z
    BY <2>1, <2>4 DEF Pending
  <2> HIDE DEF a, z
  <2>6. Recording!Announce
    BY <2>1, <2>2, <2>3, <2>5 DEF Recording!Announce
  <2> QED BY <2>6 DEF Recording!Next
<1> QED BY <1>1, <1>2, <1>3, <1>4 DEF Updater

\* Whatever the threads do, every step is a step of the recording that
\* LiveRecording describes, or is invisible in it.
THEOREM Implements == Safety => Recording!Safety
<1>1. IInv /\ IInv' /\ [Next]_vars => [Recording!Next]_Seen
  <2> SUFFICES ASSUME IInv, IInv', [Next]_vars PROVE [Recording!Next]_Seen
    OBVIOUS
  <2>1. CASE MainSpuriousWakeup \/ UNCHANGED vars
    <3>1. UNCHANGED <<heap, ms, written, last_media_sequence, result, downloaded_ms, mpc,
                      is_endlist, mtx>>
      BY <2>1 DEF MainSpuriousWakeup, vars, listVars, windowVars, mainVars, outVars
    <3> QED BY <3>1, Unseen DEF Stopped, Ended, IInv
  <2>2. CASE Main \/ Updater
    BY <2>2, MainRecording, UpdaterRecording DEF IInv
  <2> QED BY <2>1, <2>2 DEF Next, Terminating
<1>2. [Recording!Next]_Seen => [Recording!Next]_(Recording!vars)
  BY DEF Seen, Ended, Recording!vars
<1>3. IInv /\ IInv' /\ [Next]_vars => [Recording!Next]_(Recording!vars)
  BY <1>1, <1>2
<1> QED BY InitRecording, <1>3, Inductive, PTL DEF Safety, Recording!Safety

=============================================================================
