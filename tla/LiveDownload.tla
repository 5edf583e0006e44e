---------------------------- MODULE LiveDownload ----------------------------
(***************************************************************************)
(* Live recording: the download loop (download_live_hls) and the thread    *)
(* that refreshes the media playlist (hls_playlist_update_thread) share    *)
(* one linked list of segments, guarded by one mutex and two condition     *)
(* variables.  A segment node is identified by its sequence number.        *)
(*                                                                         *)
(* Every step touches shared state at most once, or does so while it holds *)
(* the mutex.  What the two threads do with the network, with keys and     *)
(* with the output is a choice between the outcomes the code tells apart.  *)
(***************************************************************************)
EXTENDS Naturals, Sequences, FiniteSetsExt, Functions

CONSTANTS NULL,                    \* the null pointer
          MaxSeq,                  \* greatest sequence number (INT_MAX in C)
          SegmentDownloadRetries,  \* option -w
          LiveStartOffsetMs,       \* option -s, in milliseconds
          LiveDurationMs,          \* option -i in milliseconds, 0: no limit
          DurationMs               \* duration of each segment (EXTINF)

Seqs == 0..MaxSeq

ASSUME MaxSeqAssumption   == MaxSeq \in Nat
ASSUME RetriesAssumption  == SegmentDownloadRetries \in Nat
ASSUME DurationAssumption == /\ LiveStartOffsetMs \in Nat
                             /\ LiveDurationMs \in Nat
                             /\ DurationMs \in [Seqs -> Nat]

\* What the parser keeps of a playlist: the numbers of its segments are
\* consecutive, and a playlist that would number past MaxSeq is rejected.
Playlists ==
  {p \in [first : Seqs, count : 0..(MaxSeq + 1), endlist : BOOLEAN] :
     p.first + p.count <= MaxSeq + 1}

ASSUME NullAssumption == NULL \notin Nat \cup Playlists

Segs(p)    == {s \in Seqs : p.first <= s /\ s < p.first + p.count}
LastSeq(p) == IF p.count = 0 THEN 0 ELSE p.first + p.count - 1

VARIABLES
  mtx,                   \* media_playlist_mtx: "free" or its holder
  \* the playlist both threads work on (me)
  first_media_segment, last_media_segment, next,
  first_media_sequence, last_media_sequence, is_endlist,
  heap,                  \* nodes allocated and not yet freed
  \* hls_playlist_updater_params
  stop, failed,
  main_waiting,          \* main waits on the empty condition, not yet signalled
  \* locals of download_live_hls
  mpc, ms, retries, downloaded_ms, result,
  \* locals of hls_playlist_update_thread
  upc, new_me, upd_endlist, list_extended,
  \* observations
  listed,                \* every segment that was ever on the list
  written,               \* segments completely written, in order
  skipped                \* segments given up after download errors

listVars   == <<first_media_segment, last_media_segment, next, heap, listed>>
windowVars == <<first_media_sequence, last_media_sequence, is_endlist>>
flagVars   == <<stop, failed, main_waiting>>
outVars    == <<written, skipped>>
mainVars   == <<mpc, ms, retries, downloaded_ms, result>>
updVars    == <<upc, new_me, upd_endlist, list_extended>>
vars       == <<mtx, listVars, windowVars, flagVars, mainVars, updVars, outVars>>

\* The segments still on the list: those allocated but not in main's hands.
Pending == heap \ {ms}

-----------------------------------------------------------------------------
(* The first playlist has been parsed and is not ended: main.c chose live. *)

Init ==
  \E p \in Playlists :
    /\ ~p.endlist
    /\ mtx = "free"
    /\ first_media_segment = IF p.count = 0 THEN NULL ELSE p.first
    /\ last_media_segment  = IF p.count = 0 THEN NULL ELSE LastSeq(p)
    /\ next = [s \in Seqs |-> IF s \in Segs(p) /\ s # LastSeq(p)
                              THEN s + 1 ELSE NULL]
    /\ first_media_sequence = p.first
    /\ last_media_sequence = LastSeq(p)
    /\ is_endlist = FALSE
    /\ heap = Segs(p) /\ listed = Segs(p)
    /\ stop = FALSE /\ failed = FALSE /\ main_waiting = FALSE
    /\ mpc = "start" /\ ms = NULL /\ retries = 0
    /\ downloaded_ms = 0 /\ result = 0
    /\ upc = "off" /\ new_me = NULL
    /\ upd_endlist = FALSE /\ list_extended = FALSE
    /\ written = <<>> /\ skipped = {}

-----------------------------------------------------------------------------
(* download_live_hls *)

\* Playing time of the listed segments from s on.
SuffixMs(s) == MapThenSumSet(LAMBDA x : DurationMs[x], {x \in heap : x >= s})

\* The walk back from the last segment stops at the first one whose suffix
\* covers the start offset; when none does, nothing is removed.
IsTrimStart(s) ==
  \/ /\ SuffixMs(s) >= LiveStartOffsetMs
     /\ \A x \in heap : x > s => SuffixMs(x) < LiveStartOffsetMs
  \/ /\ \A x \in heap : SuffixMs(x) < LiveStartOffsetMs
     /\ s = first_media_segment

MainTrim ==
  /\ mpc = "start"
  /\ IF first_media_segment # last_media_segment
     THEN \E s \in heap : /\ IsTrimStart(s)
                          /\ first_media_segment' = s
                          /\ heap' = {x \in heap : x >= s}
                          /\ listed' = {x \in heap : x >= s}
     ELSE UNCHANGED <<first_media_segment, heap, listed>>
  /\ mpc' = "create"
  /\ UNCHANGED <<mtx, last_media_segment, next, windowVars, flagVars, ms, retries,
                 downloaded_ms, result, updVars, outVars>>

MainCreateThread ==
  /\ mpc = "create"
  /\ mpc' = "loop"
  /\ upc' = "start"
  /\ UNCHANGED <<mtx, listVars, windowVars, flagVars, ms, retries, downloaded_ms,
                 result, new_me, upd_endlist, list_extended, outVars>>

\* One critical section: lock, see the updater's failure, unlock.
MainSeesFailure ==
  /\ mpc = "loop" /\ mtx = "free"
  /\ failed
  /\ result' = 1
  /\ mpc' = "stop"
  /\ UNCHANGED <<mtx, listVars, windowVars, flagVars, ms, retries, downloaded_ms,
                 updVars, outVars>>

\* Lock and pop the head; the tail pointer is repaired by MainFixTail.
MainTake ==
  /\ mpc = "loop" /\ mtx = "free"
  /\ ~failed
  /\ first_media_segment # NULL
  /\ mtx' = "main"
  /\ ms' = first_media_segment
  /\ first_media_segment' = next[first_media_segment]
  /\ mpc' = "fixtail"
  /\ UNCHANGED <<last_media_segment, next, heap, listed, windowVars, flagVars,
                 retries, downloaded_ms, result, updVars, outVars>>

\* Fault: popping the last segment leaves the tail pointer on it.
MainFixTail_KeepsTail ==
  /\ mpc = "fixtail"
  /\ mtx' = "free"
  /\ retries' = 0
  /\ mpc' = "fetch"
  /\ UNCHANGED <<first_media_segment, last_media_segment, next, heap, listed, windowVars, flagVars,
                 ms, downloaded_ms, result, updVars, outVars>>

MainFixTail ==
  /\ mpc = "fixtail"
  /\ last_media_segment' = IF first_media_segment = NULL
                           THEN NULL ELSE last_media_segment
  /\ mtx' = "free"
  /\ retries' = 0
  /\ mpc' = "fetch"
  /\ UNCHANGED <<first_media_segment, next, heap, listed, windowVars, flagVars,
                 ms, downloaded_ms, result, updVars, outVars>>

\* The list is empty: ask for a refresh and wait, or stop after the end tag.
\* pthread_cond_wait releases the mutex and starts to wait in one step.
MainFindsEmpty ==
  /\ mpc = "loop" /\ mtx = "free"
  /\ ~failed
  /\ first_media_segment = NULL
  /\ last_media_segment' = NULL
  /\ main_waiting' = ~is_endlist
  /\ mpc' = IF is_endlist THEN "stop" ELSE "wait"
  /\ UNCHANGED <<mtx, first_media_segment, next, heap, listed, windowVars, stop,
                 failed, ms, retries, downloaded_ms, result, updVars, outVars>>

\* Signalled: the wait returns once the mutex is free, which is then unlocked.
MainResume ==
  /\ mpc = "wait" /\ ~main_waiting /\ mtx = "free"
  /\ mpc' = "loop"
  /\ UNCHANGED <<mtx, listVars, windowVars, flagVars, ms, retries, downloaded_ms,
                 result, updVars, outVars>>

\* POSIX lets a wait on a condition variable return without a signal.
MainSpuriousWakeup ==
  /\ mpc = "wait" /\ main_waiting
  /\ main_waiting' = FALSE
  /\ UNCHANGED <<mtx, listVars, windowVars, stop, failed, mainVars, updVars, outVars>>

\* A transfer of the segment: accepted, refused (401, 403, 410), or failed
\* in a way that may pass.
MainFetch ==
  /\ mpc = "fetch"
  /\ mpc' \in {"process", "refused", "error"}
  /\ UNCHANGED <<mtx, listVars, windowVars, flagVars, ms, retries, downloaded_ms,
                 result, updVars, outVars>>

\* The condition under which a failed transfer is tried again.
MayRetry ==
  /\ mpc = "error"
  /\ retries <= SegmentDownloadRetries
  /\ ms > first_media_sequence

\* The failure path reads the start of the server's window under the mutex.
MainRetry ==
  /\ mtx = "free"
  /\ MayRetry
  /\ retries' = retries + 1
  /\ mpc' = "fetch"
  /\ UNCHANGED <<mtx, listVars, windowVars, flagVars, ms, downloaded_ms, result,
                 updVars, outVars>>

\* media_segment_cleanup at the end of an iteration, and the test of download.
FreeSegment(continue) ==
  /\ heap' = heap \ {ms}
  /\ ms' = NULL
  /\ mpc' = IF continue THEN "loop" ELSE "stop"
  /\ UNCHANGED <<mtx, first_media_segment, last_media_segment, next, listed,
                 windowVars, flagVars, retries, updVars>>

MainSkip ==
  /\ mpc \in {"error", "refused"} /\ mtx = "free"
  /\ ~MayRetry
  /\ skipped' = skipped \cup {ms}
  /\ FreeSegment(TRUE)
  /\ UNCHANGED <<downloaded_ms, result, written>>

\* Fault: an unusable response is reported but the loop goes on.
MainInvalidSize_GoesOn ==
  /\ mpc = "process"
  /\ result' = 1
  /\ FreeSegment(TRUE)
  /\ UNCHANGED <<downloaded_ms, written, skipped>>

\* The response is empty or longer than INT_MAX.
MainInvalidSize ==
  /\ mpc = "process"
  /\ result' = 1
  /\ FreeSegment(FALSE)
  /\ UNCHANGED <<downloaded_ms, written, skipped>>

WithinLimit(ms_total) == LiveDurationMs = 0 \/ ms_total <= LiveDurationMs

\* The segment that crosses the limit has been fetched and is dropped.
MainReachLimit ==
  /\ mpc = "process"
  /\ downloaded_ms' = downloaded_ms + DurationMs[ms]
  /\ ~WithinLimit(downloaded_ms')
  /\ FreeSegment(FALSE)
  /\ UNCHANGED <<result, written, skipped>>

\* Decrypting, opening the output, the initialization section, the write or
\* closing the output fails.
MainWriteFails ==
  /\ mpc = "process"
  /\ downloaded_ms' = downloaded_ms + DurationMs[ms]
  /\ WithinLimit(downloaded_ms')
  /\ result' = 1
  /\ FreeSegment(FALSE)
  /\ UNCHANGED <<written, skipped>>

\* Fault: the limit is tested before the segment's own duration is added.
MainWrite_ChecksTotalBefore ==
  /\ mpc = "process"
  /\ downloaded_ms' = downloaded_ms + DurationMs[ms]
  /\ WithinLimit(downloaded_ms)
  /\ written' = Append(written, ms)
  /\ FreeSegment(TRUE)
  /\ UNCHANGED <<result, skipped>>

MainWrite ==
  /\ mpc = "process"
  /\ downloaded_ms' = downloaded_ms + DurationMs[ms]
  /\ WithinLimit(downloaded_ms')
  /\ written' = Append(written, ms)
  /\ FreeSegment(TRUE)
  /\ UNCHANGED <<result, skipped>>

\* Fault: the updater is joined without being told to stop.
MainStop_NoFlag ==
  /\ mpc = "stop" /\ mtx = "free"
  /\ mpc' = "join"
  /\ UNCHANGED <<mtx, listVars, windowVars, stop, failed, main_waiting, ms, retries,
                 downloaded_ms, result, updVars, outVars>>

MainStop ==
  /\ mpc = "stop" /\ mtx = "free"
  /\ stop' = TRUE
  /\ mpc' = "join"
  /\ UNCHANGED <<mtx, listVars, windowVars, failed, main_waiting, ms, retries,
                 downloaded_ms, result, updVars, outVars>>

MainJoin ==
  /\ mpc = "join" /\ upc = "exited"
  /\ mpc' = "done"
  /\ UNCHANGED <<mtx, listVars, windowVars, flagVars, ms, retries, downloaded_ms,
                 result, updVars, outVars>>

-----------------------------------------------------------------------------
(* hls_playlist_update_thread *)

\* Reads is_endlist without the mutex: only this thread changes it.
UpdStart ==
  /\ upc = "start"
  /\ upd_endlist' = is_endlist
  /\ upc' = "loop"
  /\ UNCHANGED <<mtx, listVars, windowVars, flagVars, mainVars, new_me,
                 list_extended, outVars>>

UpdEnded ==
  /\ upc = "loop"
  /\ upd_endlist
  /\ upc' = "exited"
  /\ UNCHANGED <<mtx, listVars, windowVars, flagVars, mainVars, new_me,
                 upd_endlist, list_extended, outVars>>

\* Lock; without a stop request wait for the refresh delay, else unlock and end.
UpdLock ==
  /\ upc = "loop" /\ mtx = "free"
  /\ ~upd_endlist
  /\ upc' = IF stop THEN "exited" ELSE "wait"
  /\ UNCHANGED <<mtx, listVars, windowVars, flagVars, mainVars, new_me,
                 upd_endlist, list_extended, outVars>>

\* The timed wait is over, by a signal, by the clock or spuriously.
UpdResume ==
  /\ upc = "wait" /\ mtx = "free"
  /\ upc' = IF stop THEN "exited" ELSE "fetch"
  /\ UNCHANGED <<mtx, listVars, windowVars, flagVars, mainVars, new_me,
                 upd_endlist, list_extended, outVars>>

UpdFetchList ==
  /\ upc = "fetch"
  /\ new_me' \in Playlists
  /\ upc' = "compare"
  /\ UNCHANGED <<mtx, listVars, windowVars, flagVars, mainVars, upd_endlist,
                 list_extended, outVars>>

\* The transfer fails: a warning, a pause, a new session.
UpdFetchFails ==
  /\ upc = "fetch"
  /\ upc' = "loop"
  /\ UNCHANGED <<mtx, listVars, windowVars, flagVars, mainVars, new_me,
                 upd_endlist, list_extended, outVars>>

\* The list was transferred but does not parse.
UpdParseError ==
  /\ upc = "fetch"
  /\ upc' = "fail"
  /\ UNCHANGED <<mtx, listVars, windowVars, flagVars, mainVars, new_me,
                 upd_endlist, list_extended, outVars>>

\* Fault: the failure is recorded but the waiting main thread is not woken.
UpdFail_NoSignal ==
  /\ upc = "fail" /\ mtx = "free"
  /\ failed' = TRUE
  /\ upc' = "exited"
  /\ UNCHANGED <<mtx, listVars, windowVars, stop, main_waiting, mainVars, new_me, upd_endlist,
                 list_extended, outVars>>

UpdFail ==
  /\ upc = "fail" /\ mtx = "free"
  /\ failed' = TRUE
  /\ main_waiting' = FALSE
  /\ upc' = "exited"
  /\ UNCHANGED <<mtx, listVars, windowVars, stop, mainVars, new_me, upd_endlist,
                 list_extended, outVars>>

NeedsUpdate(p) == \/ p.endlist
                  \/ p.first # first_media_sequence
                  \/ LastSeq(p) # last_media_sequence

\* Compares without the mutex, then locks when there is something to update.
UpdSame ==
  /\ upc = "compare"
  /\ ~NeedsUpdate(new_me)
  /\ new_me' = NULL
  /\ upc' = "loop"
  /\ UNCHANGED <<mtx, listVars, windowVars, flagVars, mainVars, upd_endlist,
                 list_extended, outVars>>

\* Fault: the flags are set without keeping the mutex for the splice.
UpdFlags_Unlocked ==
  /\ upc = "compare" /\ mtx = "free"
  /\ NeedsUpdate(new_me)
  /\ mtx' = "free"
  /\ is_endlist' = new_me.endlist
  /\ upd_endlist' = new_me.endlist
  /\ first_media_sequence' = new_me.first
  /\ upc' = "extend"
  /\ UNCHANGED <<listVars, last_media_sequence, flagVars, mainVars, new_me,
                 list_extended, outVars>>

UpdFlags ==
  /\ upc = "compare" /\ mtx = "free"
  /\ NeedsUpdate(new_me)
  /\ mtx' = "upd"
  /\ is_endlist' = new_me.endlist
  /\ upd_endlist' = new_me.endlist
  /\ first_media_sequence' = new_me.first
  /\ upc' = "extend"
  /\ UNCHANGED <<listVars, last_media_sequence, flagVars, mainVars, new_me,
                 list_extended, outVars>>

\* Fault: >= for > where the new segments are looked for.
FirstNew_Overlap == IF new_me.first >= last_media_sequence
            THEN new_me.first ELSE last_media_sequence

\* The first segment of the new list beyond the last one known.
FirstNew == IF new_me.first > last_media_sequence
            THEN new_me.first ELSE last_media_sequence + 1

\* Splice the new list, from FirstNew on, to the end of the shared one.
UpdExtend ==
  /\ upc = "extend"
  /\ LastSeq(new_me) > last_media_sequence
  /\ LET added == FirstNew..LastSeq(new_me)
     IN /\ heap' = heap \cup added
        /\ listed' = listed \cup added
        /\ next' = [s \in Seqs |->
                      CASE s = last_media_segment                   -> FirstNew
                        [] s \in added /\ s # LastSeq(new_me)       -> s + 1
                        [] s = LastSeq(new_me)                      -> NULL
                        [] OTHER                                    -> next[s]]
  /\ first_media_segment' = IF last_media_segment = NULL
                            THEN FirstNew ELSE first_media_segment
  /\ last_media_segment' = LastSeq(new_me)
  /\ last_media_sequence' = LastSeq(new_me)
  /\ list_extended' = TRUE
  /\ upc' = "unlock"
  /\ UNCHANGED <<mtx, first_media_sequence, is_endlist, flagVars, mainVars,
                 new_me, upd_endlist, outVars>>

UpdNothingNew ==
  /\ upc = "extend"
  /\ LastSeq(new_me) <= last_media_sequence
  /\ upc' = "unlock"
  /\ UNCHANGED <<mtx, listVars, windowVars, flagVars, mainVars, new_me,
                 upd_endlist, list_extended, outVars>>

\* Fault: new segments do not wake the main thread.
UpdUnlock_SignalsEnd ==
  /\ upc = "unlock"
  /\ main_waiting' = (main_waiting /\ ~upd_endlist)
  /\ mtx' = "free"
  /\ new_me' = NULL
  /\ list_extended' = FALSE
  /\ upc' = "loop"
  /\ UNCHANGED <<listVars, windowVars, stop, failed, mainVars, upd_endlist, outVars>>

\* Signal the empty condition when main has something to see, and unlock.
UpdUnlock ==
  /\ upc = "unlock"
  /\ main_waiting' = (main_waiting /\ ~(list_extended \/ upd_endlist))
  /\ mtx' = "free"
  /\ new_me' = NULL
  /\ list_extended' = FALSE
  /\ upc' = "loop"
  /\ UNCHANGED <<listVars, windowVars, stop, failed, mainVars, upd_endlist, outVars>>

-----------------------------------------------------------------------------

Main ==
  \/ MainTrim \/ MainCreateThread
  \/ MainSeesFailure \/ MainTake \/ MainFixTail \/ MainFindsEmpty \/ MainResume
  \/ MainFetch \/ MainRetry \/ MainSkip
  \/ MainInvalidSize \/ MainReachLimit \/ MainWriteFails \/ MainWrite
  \/ MainStop \/ MainJoin

Updater ==
  \/ UpdStart \/ UpdEnded \/ UpdLock \/ UpdResume
  \/ UpdFetchList \/ UpdFetchFails \/ UpdParseError \/ UpdFail
  \/ UpdSame \/ UpdFlags \/ UpdExtend \/ UpdNothingNew \/ UpdUnlock

\* The process has left download_live_hls and the thread is joined.
Terminating == mpc = "done" /\ UNCHANGED vars

Next == Main \/ Updater \/ MainSpuriousWakeup \/ Terminating

\* Transfers end (libcurl's low-speed limit), waits of the updater are timed,
\* and a thread that keeps asking for the mutex gets it: it is only held for
\* a few assignments.  Spurious wakeups are not promised.
Fairness == SF_vars(Main) /\ SF_vars(Updater)

Safety == Init /\ [][Next]_vars
Spec   == Safety /\ Fairness

-----------------------------------------------------------------------------
(* Invariants *)

Recorded == {written[i] : i \in DOMAIN written}

TypeOK ==
  /\ mtx \in {"free", "main", "upd"}
  /\ first_media_segment \in Seqs \cup {NULL}
  /\ last_media_segment \in Seqs \cup {NULL}
  /\ next \in [Seqs -> Seqs \cup {NULL}]
  /\ heap \subseteq Seqs /\ listed \subseteq Seqs
  /\ first_media_sequence \in Seqs /\ last_media_sequence \in Seqs
  /\ is_endlist \in BOOLEAN /\ stop \in BOOLEAN /\ failed \in BOOLEAN
  /\ main_waiting \in BOOLEAN
  /\ mpc \in {"start", "create", "loop", "fixtail", "wait", "fetch", "refused",
              "error", "process", "stop", "join", "done"}
  /\ ms \in Seqs \cup {NULL}
  /\ mpc \in {"fixtail", "fetch", "refused", "error", "process"} <=> ms # NULL
  /\ retries \in Nat /\ downloaded_ms \in Nat /\ result \in {0, 1}
  /\ upc \in {"off", "start", "loop", "wait", "fetch", "fail", "compare",
              "extend", "unlock", "exited"}
  /\ new_me \in Playlists \cup {NULL}
  /\ upc \in {"compare", "extend", "unlock"} <=> new_me # NULL
  /\ upd_endlist \in BOOLEAN /\ list_extended \in BOOLEAN
  /\ written \in Seq(Seqs) /\ skipped \subseteq Seqs

\* Whenever the mutex is free, the list seen by the next thread that takes it
\* is the pending segments in ascending order: the head pointer is the least,
\* the tail pointer the greatest, and each node links to the next greater one
\* (lines 1726-1735 pop, 1456-1494 splice).
ListIntact ==
  mtx = "free" =>
    /\ first_media_segment = (IF Pending = {} THEN NULL ELSE Min(Pending))
    /\ last_media_segment = (IF Pending = {} THEN NULL ELSE Max(Pending))
    /\ \A s \in Pending :
         LET above == {x \in Pending : x > s}
         IN next[s] = IF above = {} THEN NULL ELSE Min(above)

\* When the updater splices, the tail pointer is not a node main has popped
\* and may have freed, and an empty tail means an empty list (the assertion at
\* line 1471).
SpliceSafe ==
  upc = "extend" =>
    /\ last_media_segment = NULL => first_media_segment = NULL
    /\ last_media_segment # NULL => last_media_segment \in Pending

\* Segments reach the output in playlist order, none of them twice, whatever
\* refreshes, retries and skips happen in between.
RecordedInOrder ==
  \A i, j \in DOMAIN written : i < j => written[i] < written[j]

\* Every segment that was ever on the list is pending, in hand, written or
\* skipped after a download error; only an end of the recording by an error or
\* by the duration limit drops one.
EverySegmentAccounted ==
  mpc \notin {"stop", "join", "done"} =>
    listed = heap \cup Recorded \cup skipped

LimitReached == ~WithinLimit(downloaded_ms)

\* A recording that ends without an error and short of the duration limit has
\* seen the end tag and has dealt with every segment that was listed.
CleanFinishComplete ==
  mpc = "done" /\ result = 0 /\ ~LimitReached =>
    /\ is_endlist /\ Pending = {}
    /\ listed = Recorded \cup skipped

WrittenMs == SumFunction([i \in DOMAIN written |-> DurationMs[written[i]]])

\* With option -i the playing time on disk never exceeds the limit.
DurationLimit == LiveDurationMs > 0 => WrittenMs <= LiveDurationMs

\* "add new segments" (line 1458): a refreshed playlist that is passed over as
\* unchanged has no segment newer than all those that were listed.
NewestAdopted ==
  upc = "compare" /\ new_me.count > 0 /\ ~NeedsUpdate(new_me) =>
    \E s \in listed : s >= LastSeq(new_me)

-----------------------------------------------------------------------------
(* Why these hold: what every step keeps true of the list and the threads.    *)

\* Who may hold the mutex where; the updater does not run before it is created.
ThreadsOK ==
  /\ mtx = "main" <=> mpc = "fixtail"
  /\ mtx = "upd" <=> upc \in {"extend", "unlock"}
  /\ upc = "off" <=> mpc \in {"start", "create"}
  /\ mpc = "start" => written = <<>> /\ skipped = {}

\* Nothing on the heap is beyond the last known segment; main's segment is
\* older than the pending ones, and what was written is older than both.
OrderOK ==
  /\ \A s \in heap : s <= last_media_sequence
  /\ ms # NULL => ms \in heap /\ \A s \in Pending : ms < s
  /\ \A r \in Recorded : r <= last_media_sequence /\ \A s \in heap : r < s

HeadOK ==
  IF first_media_segment = NULL THEN Pending = {}
  ELSE first_media_segment \in Pending /\ \A s \in Pending : first_media_segment <= s

\* Between MainTake and MainFixTail the tail may still be main's own segment.
TailOK ==
  IF last_media_segment = NULL THEN Pending = {}
  ELSE IF mpc = "fixtail" /\ first_media_segment = NULL THEN TRUE
  ELSE last_media_segment \in Pending /\ \A s \in Pending : s <= last_media_segment

LinksOK ==
  \A s \in Pending :
    IF next[s] = NULL THEN \A x \in Pending : x <= s
    ELSE next[s] \in Pending /\ s < next[s] /\ \A x \in Pending : s < x => next[s] <= x

\* The updater's own copy of the end flag agrees, and once it is set nothing
\* more is fetched.
EndOK ==
  /\ is_endlist = upd_endlist
  /\ is_endlist => upc \in {"extend", "unlock", "loop", "exited"}

Stopped == mpc \in {"stop", "join", "done"}

OutcomeOK ==
  IF Stopped
  THEN result = 0 /\ ~LimitReached =>
         is_endlist /\ mtx # "upd" /\ heap = {} /\ listed = Recorded \cup skipped
  ELSE result = 0 /\ ~LimitReached /\ listed = heap \cup Recorded \cup skipped

IInv == /\ TypeOK /\ ThreadsOK /\ OrderOK
        /\ HeadOK /\ TailOK /\ LinksOK
        /\ RecordedInOrder /\ EndOK /\ OutcomeOK

-----------------------------------------------------------------------------
(* Liveness *)

\* Once the loop is left the updater is told and joined, wherever it is: in
\* its timed wait, in a transfer, or already gone.
ShutdownCompletes == mpc = "stop" ~> mpc = "done"

\* A playlist that stops parsing ends the recording, even if main is waiting
\* for segments (the signal at line 1437).
FailureEndsRecording == failed ~> mpc = "done"

\* The end tag ends the recording, even if it brings no segment with it.
EndlistEndsRecording == is_endlist ~> mpc = "done"

\* Main notices that the updater has ended, for whichever reason, also when it
\* waits for segments that will not come.
EndIsNoticed == FailureEndsRecording /\ EndlistEndsRecording

\* No listed segment is forgotten while main sleeps.
ListedIsHandled == \A s \in Seqs : s \in heap ~> (s \notin heap \/ mpc = "done")

-----------------------------------------------------------------------------
(* The two threads implement the recording that LiveRecording promises.  The *)
(* end tag counts as announced once the updater has released the mutex.      *)

Status ==
  CASE mpc = "start"                       -> "starting"
    [] mpc \notin {"start", "stop", "join", "done"} -> "recording"
    [] OTHER -> IF result # 0 THEN "failed"
                ELSE IF LimitReached THEN "limited" ELSE "complete"

Recording == INSTANCE LiveRecording
  WITH queue <- Pending, taken <- ms, recorded <- written,
       newest <- last_media_sequence, ended <- is_endlist /\ mtx # "upd",
       status <- Status

\* Whatever the threads do, an observer sees a recording in the sense of
\* LiveRecording: nothing taken out of order, nothing recorded that was not
\* announced, and no recording called complete with segments left over.
ImplementsRecording == Recording!Spec

=============================================================================
