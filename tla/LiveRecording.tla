--------------------------- MODULE LiveRecording ---------------------------
(***************************************************************************)
(* What a live recording promises, without threads, locks or lists: a      *)
(* server announces segments in ascending blocks, the recorder takes them  *)
(* least first, one at a time, and records or skips each.  It may end a    *)
(* recording early after an error or at the duration limit, but it calls   *)
(* one complete only when the stream has ended and nothing is left over.   *)
(***************************************************************************)
EXTENDS Naturals, Sequences

CONSTANTS NULL, MaxSeq

VARIABLES queue,     \* announced segments that wait to be recorded
          taken,     \* the segment being fetched and written, or NULL
          recorded,  \* what was recorded, in order
          newest,    \* no announced segment is beyond this one
          ended,     \* the server has announced the end of the stream
          status

vars == <<queue, taken, recorded, newest, ended, status>>

Statuses == {"starting", "recording", "complete", "limited", "failed"}

Init ==
  /\ queue \in SUBSET (0..MaxSeq)
  /\ newest \in 0..MaxSeq
  /\ \A s \in queue : s <= newest
  /\ taken = NULL /\ recorded = <<>> /\ ended = FALSE /\ status = "starting"

\* A recording may begin late: the oldest segments are left out.
Begin ==
  /\ status = "starting"
  /\ \E s \in 0..MaxSeq : queue' = {x \in queue : x >= s}
  /\ queue # {} => queue' # {}
  /\ status' = "recording"
  /\ UNCHANGED <<taken, recorded, newest, ended>>

Announce ==
  /\ ~ended
  /\ \E lo, hi \in 0..MaxSeq :
       /\ newest < lo /\ lo <= hi
       /\ queue' = queue \cup lo..hi
       /\ newest' = hi
  /\ UNCHANGED <<taken, recorded, ended, status>>

EndOfStream ==
  /\ ended' = TRUE
  /\ UNCHANGED <<queue, taken, recorded, newest, status>>

Take ==
  /\ status = "recording" /\ taken = NULL
  /\ \E s \in queue : /\ \A x \in queue : s <= x
                      /\ taken' = s
                      /\ queue' = queue \ {s}
  /\ UNCHANGED <<recorded, newest, ended, status>>

Record ==
  /\ status = "recording" /\ taken # NULL
  /\ recorded' = Append(recorded, taken)
  /\ taken' = NULL
  /\ UNCHANGED <<queue, newest, ended, status>>

Skip ==
  /\ status = "recording" /\ taken # NULL
  /\ taken' = NULL
  /\ UNCHANGED <<queue, recorded, newest, ended, status>>

Complete ==
  /\ status = "recording"
  /\ ended /\ queue = {} /\ taken = NULL
  /\ status' = "complete"
  /\ UNCHANGED <<queue, taken, recorded, newest, ended>>

\* An error, or the duration limit.
GiveUp ==
  /\ status = "recording"
  /\ status' \in {"limited", "failed"}
  /\ taken' = NULL
  /\ UNCHANGED <<queue, recorded, newest, ended>>

Next == Begin \/ Announce \/ EndOfStream \/ Take \/ Record \/ Skip \/ Complete \/ GiveUp

\* The recorder does not rest while it has work: something to begin, to take,
\* to settle, or an ended stream to complete.
HasWork == status = "starting" \/ taken # NULL \/ queue # {} \/ ended
Work    == HasWork /\ (Begin \/ Take \/ Record \/ Skip \/ Complete \/ GiveUp)

Safety == Init /\ [][Next]_vars
Spec   == Safety /\ WF_vars(Work)

=============================================================================
