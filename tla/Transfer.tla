------------------------------- MODULE Transfer -------------------------------
(***************************************************************************)
(* A request (get_data_from_url_with_session and what it calls) and what   *)
(* its caller makes of the answer: opening the first playlist or that of   *)
(* the audio ("playlist"), the variant chosen from a master playlist       *)
(* ("variant"), a round of the live refresh, a key, a segment or an        *)
(* initialization section.  A caller repeats a request with a new session; *)
(* a session keeps nothing here that an answer depends on.                 *)
(*                                                                         *)
(* The bytes of the resource are its positions, 1 to resource.size.  An    *)
(* error page and what lies behind the end of a buffer are Noise.          *)
(***************************************************************************)
EXTENDS Integers, SequencesExt

CONSTANTS NULL, Noise,
          Requests,    \* [caller, range, local, accept_partial_content]
          Resources,   \* [size, is_png]
          KeyLen,      \* KEYLEN
          IntMax,      \* INT_MAX
          Cover,       \* bytes that are taken off the front of a PNG picture, 16
          MaxRetries   \* bound: the retries that the caller's option allows

VARIABLES
  request, resource,
  pc, retries,
  answer,    \* what the server sends: [code, bytes, announced: Content-Length or 0]
  mem,       \* MemoryStruct: [size, reserved], and the bytes allocated
  result,    \* what the caller has: [code, size, out], out being its pointer to the data
  accepted   \* what it keeps: NULL, or the bytes

vars == <<request, resource, pc, retries, answer, mem, result, accepted>>

NoAnswer == [code |-> 0, bytes |-> <<>>, announced |-> 0]
NoMemory == [size |-> 0, reserved |-> 0, allocated |-> 1]
NoResult == [code |-> 0, size |-> 0, out |-> NULL]

Init ==
  /\ request \in Requests /\ resource \in Resources
  /\ pc = "request" /\ retries = 0
  /\ answer = NoAnswer /\ mem = NoMemory
  /\ result = NoResult /\ accepted = NULL

Whole == [b \in 1..resource.size |-> b]
Part(r) == SubSeq(Whole, r.offset + 1, Min({r.offset + r.size, resource.size}))
IsBinary == request.caller \in {"segment", "section"}

-----------------------------------------------------------------------------
(* An address without a scheme is a file (get_data_from_localfile). *)

\* A size of 64 bits that is assigned to an int keeps its low bits.
Truncated(n) ==
  LET low == n % (2 * (IntMax + 1))
  IN IF low > IntMax THEN low - 2 * (IntMax + 1) ELSE low

\* readsize: that of the range, or else of the file.
FileSize == Truncated(IF request.range = NULL THEN resource.size ELSE request.range.size)

Offset == IF request.range = NULL THEN 0 ELSE request.range.offset

ReadFile ==
  /\ pc = "request" /\ request.local
  /\ FileSize >= 0
  /\ FileSize > 0 => Offset + FileSize <= resource.size
  /\ result' = [code |-> IF FileSize > 0 THEN 200 ELSE 404, size |-> FileSize,
                out |-> SubSeq(Whole, Offset + 1, Offset + FileSize)]
  /\ pc' = "decide"
  /\ UNCHANGED <<request, resource, retries, answer, mem, accepted>>

\* A file that does not open leaves the caller's pointer alone, one that is too
\* short clears it.
FileFails ==
  /\ pc = "request" /\ request.local
  /\ \E out \in {result.out, NULL} : result' = [code |-> 404, size |-> -1, out |-> out]
  /\ pc' = "decide"
  /\ UNCHANGED <<request, resource, retries, answer, mem, accepted>>

\* A negative size is no room, yet as much is read as the file has.
FileCrash ==
  /\ pc = "request" /\ request.local
  /\ FileSize < 0
  /\ pc' = "crashed"
  /\ UNCHANGED <<request, resource, retries, answer, mem, result, accepted>>

(* curl_easy_perform: the server may ignore a range, serve a part that nobody *)
(* asked for, or announce less than the data has once it is unpacked, or more *)
(* than an int holds.                                                         *)

Start == SubSeq(Whole, 1, Min({1, resource.size}))

Answers ==
  [code : {200}, bytes : {Whole}, announced : {resource.size} \cup 0..(IntMax + 1)]
    \cup [code : {206}, bytes : {IF request.range = NULL THEN Start ELSE Part(request.range)},
          announced : {0}]
    \cup [code : {403, 404}, bytes : {<<Noise>>}, announced : {1}]

Ask ==
  /\ pc = "request" /\ ~request.local
  /\ answer' \in Answers
  /\ mem' = NoMemory
  /\ pc' = "receive"
  /\ UNCHANGED <<request, resource, retries, result, accepted>>

\* (int)length + 2.  A length that no int holds becomes INT_MIN or INT_MAX, and a
\* sum above INT_MAX wraps around or is computed in more bits, as the build has it.
Rooms(length) ==
  LET ints == IF length <= IntMax THEN {length} ELSE {-IntMax - 1, IntMax}
      sums == {n + 2 : n \in ints}
  IN sums \cup {n - 2 * (IntMax + 1) : n \in {k \in sums : k > IntMax}}

\* The first piece makes room for the length announced, and a zero behind it; a
\* negative size is more than there is.
Reserved == IF mem.reserved = 0 /\ answer.announced > 0
            THEN {[mem EXCEPT !.allocated = room, !.reserved = room - 1] :
                    room \in {n \in Rooms(answer.announced) : n >= 0}}
            ELSE {mem}

\* Fault: the byte behind the data is forgotten.
Enlarged_NoZero(m, n) ==
  IF m.size + n > m.reserved
  THEN [m EXCEPT !.allocated = m.size + n, !.reserved = m.size + n] ELSE m

Enlarged(m, n) ==
  IF m.size + n + 1 > m.reserved
  THEN [m EXCEPT !.allocated = m.size + n + 1, !.reserved = m.size + n + 1] ELSE m

\* WriteMemoryCallback
Receive ==
  /\ pc = "receive"
  /\ \E room \in Reserved, n \in 1..(Len(answer.bytes) - mem.size) :
       mem' = [Enlarged(room, n) EXCEPT !.size = @ + n]
  /\ UNCHANGED <<request, resource, pc, retries, answer, result, accepted>>

\* Data that begins like a PNG picture loses its cover; the size remains.
Uncovered(bytes) ==
  IF resource.is_png /\ Len(bytes) > Cover /\ bytes[1] = 1
  THEN SubSeq(bytes, Cover + 1, Len(bytes)) \o [k \in 1..Cover |-> Noise] ELSE bytes

Out == LET bytes == SubSeq(answer.bytes, 1, mem.size)
       IN IF IsBinary THEN Uncovered(bytes)
          ELSE IF request.caller = "key" /\ mem.size # KeyLen THEN NULL ELSE bytes

Complete ==
  /\ pc = "receive" /\ mem.size = Len(answer.bytes)
  /\ result' = [code |-> answer.code, size |-> mem.size, out |-> Out]
  /\ pc' = "decide"
  /\ UNCHANGED <<request, resource, retries, answer, mem, accepted>>

\* Fault: a transfer that breaks off keeps the server's code.
BrokenCode_Kept(code) == code

\* The caller must not take the start of the data for all of it.
BrokenCode(code) == IF code \in {200, 206} THEN -1 ELSE code

\* The connection breaks, times out or is never made.  The caller's pointer still
\* has what an earlier answer left there.
Break ==
  /\ pc = "receive"
  /\ \E code \in {0, answer.code} :
       /\ mem.size > 0 => code = answer.code
       /\ result' = [result EXCEPT !.code = BrokenCode(code), !.size = mem.size]
  /\ pc' = "decide"
  /\ UNCHANGED <<request, resource, retries, answer, mem, accepted>>

\* There is no memory for a piece, which breaks the transfer off.
NoRoom ==
  /\ pc = "receive" /\ mem.size < Len(answer.bytes)
  /\ mem' = [mem EXCEPT !.allocated = 0]
  /\ result' = [result EXCEPT !.code = BrokenCode(answer.code), !.size = mem.size]
  /\ pc' = "decide"
  /\ UNCHANGED <<request, resource, retries, answer, accepted>>

-----------------------------------------------------------------------------
(* The callers *)

\* A section with a range must have come as a part, and in its size.
IsSection(r) == request.range # NULL /\ request.caller = "section" =>
                  r.size = request.range.size /\ (request.local \/ r.code = 206)

CodeOk(r) == IF IsBinary
             THEN \/ r.code = 200
                  \/ r.code = 206 /\ (request.range # NULL \/ request.accept_partial_content)
             ELSE r.code = 200

\* An empty playlist is asked for again when a stream is opened, but not by the
\* refresh; an empty segment or key is an error.
Usable(r) == /\ CodeOk(r)
             /\ CASE request.caller \in {"playlist", "variant"} -> r.size # 0
                  [] request.caller = "refresh" -> TRUE
                  [] request.caller = "key"     -> r.size = KeyLen
                  [] OTHER                      -> r.size \in 1..IntMax /\ IsSection(r)

Accept ==
  /\ pc = "decide" /\ Usable(result)
  /\ accepted' = result.out
  /\ pc' = "done"
  /\ UNCHANGED <<request, resource, retries, answer, mem, result>>

MayRetry(r) ==
  CASE request.caller \in {"playlist", "variant"} -> ~Usable(r)
    [] request.caller \in {"refresh", "key"}      -> FALSE
    [] OTHER -> ~CodeOk(r) /\ r.code \notin {401, 403, 410}

\* A segment's data is given up before the next try, a playlist's source is not.
Retry ==
  /\ pc = "decide" /\ MayRetry(result) /\ retries < MaxRetries
  /\ retries' = retries + 1
  /\ answer' = NoAnswer /\ mem' = NoMemory
  /\ result' = IF IsBinary THEN [result EXCEPT !.out = NULL] ELSE result
  /\ pc' = "request"
  /\ UNCHANGED <<request, resource, accepted>>

\* handle_hls_media_playlist goes on without a look at the last answer, and parses
\* what is there: an error page, perhaps.
TakeUnchecked ==
  /\ pc = "decide" /\ request.caller = "variant"
  /\ ~Usable(result) /\ retries = MaxRetries
  /\ result.out # NULL
  /\ accepted' = result.out
  /\ pc' = "done"
  /\ UNCHANGED <<request, resource, retries, answer, mem, result>>

GiveUp ==
  /\ pc = "decide" /\ ~Usable(result)
  /\ MayRetry(result) => retries = MaxRetries
  /\ request.caller = "variant" => result.out = NULL
  /\ pc' = "failed"
  /\ UNCHANGED <<request, resource, retries, answer, mem, result, accepted>>

Next == \/ ReadFile \/ FileFails \/ FileCrash
        \/ Ask \/ Receive \/ Complete \/ Break \/ NoRoom
        \/ Accept \/ Retry \/ TakeUnchecked \/ GiveUp

Spec == Init /\ [][Next]_vars

-----------------------------------------------------------------------------
(* Properties *)

Wanted == IF request.range = NULL THEN Whole ELSE Part(request.range)

\* What the code cannot tell from the answer it wants: a media segment is taken
\* as a whole when the server ignores its range, and a PNG picture is no cover
\* of a segment.  With -c any part of a resource is taken.  Of a local file whose
\* size, or that of a segment's range, exceeds an int, a part may be read.
Undetected == \/ request.caller = "segment" /\ request.range # NULL /\ answer.code = 200
              \/ IsBinary /\ resource.is_png
              \/ request.accept_partial_content /\ request.range = NULL /\ answer.code = 206
              \/ /\ request.local
                 /\ IF request.range = NULL THEN resource.size > IntMax
                    ELSE request.caller = "segment" /\ request.range.size > IntMax

\* What the code does not look at: a variant's answers, when all tries are used up.
Unchecked == request.caller = "variant" /\ ~Usable(result)

\* What a caller keeps is all of what it asked for and nothing else, however the
\* answer was cut into pieces, announced, broken off and asked for again, and
\* whatever an earlier answer left behind.  A variant that no try got may be
\* replaced by an error page, but only by an answer that came in to its end.
AnswerWhole ==
  pc = "done" =>
    IF Unchecked THEN accepted \in {a.bytes : a \in Answers} \cup {<<>>}
    ELSE ~Undetected => accepted = Wanted

\* While an answer comes in, the pieces so far and the zero behind them are in
\* memory that was allocated, whatever int the announced length became and
\* however much came.
RoomForAnswer == pc = "receive" => mem.size + 1 <= mem.allocated

=============================================================================
