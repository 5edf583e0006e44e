--------------------------- MODULE Requests_proofs ---------------------------
(***************************************************************************)
(* Proofs about Requests: the key cache, for every set of addresses and    *)
(* keys and any number of segments, and a transfer, for every resource,    *)
(* every way its answer is cut into pieces and any number of retries.      *)
(***************************************************************************)
EXTENDS Requests, SequenceTheorems, TLAPS

allVars == <<job, vars, transfer_vars>>

-----------------------------------------------------------------------------
(* The key cache while recording *)

\* Where the cache stands in the present run of segments with one address:
\* between segments it holds the run's key, fetched once; when a segment's key
\* is asked for it does, or the run has just begun.
RunOk ==
  /\ pc \in {"next", "use"} =>
       \/ last_url = NULL /\ cache_key_url = NULL /\ fetches = 0 /\ pc = "next"
       \/ cache_key_url = last_url /\ cache_key_value \in valid /\ fetches = 1
  /\ pc = "fill" =>
       IF cache_key_url = last_url THEN cache_key_value \in valid /\ fetches = 1
       ELSE fetches = 0
  /\ fetches \in {0, 1}

OptionOk == /\ cache_key_url # NULL => cache_key_value = option_key
            /\ fetches = 0

CacheOk ==
  /\ server \in [Urls -> Keys]
  /\ last_url \in Urls \cup {NULL}
  /\ pc = "fill" => last_url \in Urls /\ key_url = last_url
  /\ mode = "record" =>
       /\ last_url # NULL => server[Asked[last_url]] \in valid
       /\ IF option_key = NULL THEN RunOk ELSE OptionOk
       /\ pc = "use" => IF option_key = NULL THEN key_value \in valid ELSE key_value = option_key

LEMMA KeysInit == Init => CacheOk
<1> SUFFICES ASSUME Init PROVE CacheOk
  OBVIOUS
<1> QED BY DEF Init, CacheOk, RunOk, OptionOk

LEMMA KeysStep == CacheOk /\ Next => CacheOk'
<1> SUFFICES ASSUME CacheOk, Next PROVE CacheOk'
  OBVIOUS
<1> USE KeysAssumption DEF CacheOk, RunOk, OptionOk, optionVars, serverVars, cacheVars, runVars
<1>1. CASE TakePlain
  BY <1>1 DEF TakePlain
<1>2. CASE TakeKeyed
  <2>1. PICK url \in Urls :
          /\ key_url' = url /\ last_url' = url
          /\ IF url = last_url THEN UNCHANGED <<valid, fetches>>
             ELSE valid' = {server[Asked[url]]} /\ fetches' = 0
    BY <1>2 DEF TakeKeyed
  <2>2. pc = "next" /\ pc' = "fill" /\ url # NULL /\ UNCHANGED <<optionVars, serverVars, cacheVars>>
    BY <1>2 DEF TakeKeyed
  <2>3. CASE url = last_url
    BY <2>1, <2>2, <2>3
  <2>4. CASE url # last_url
    BY <2>1, <2>2, <2>4
  <2> QED BY <2>3, <2>4
<1>3. CASE FillCached
  BY <1>3 DEF FillCached, Filled
<1>4. CASE FillFromOption
  BY <1>4 DEF FillFromOption, Filled
<1>5. CASE FillFromServer
  BY <1>5 DEF FillFromServer, Filled
<1>6. CASE FillFails
  BY <1>6 DEF FillFails
<1>7. CASE Use \/ DecryptFails
  BY <1>7 DEF Use, DecryptFails
<1>8. CASE ChangeKey
  <2>1. PICK url \in Urls, key \in Keys :
          /\ server' = [server EXCEPT ![url] = key]
          /\ valid' = IF last_url # NULL /\ Asked[last_url] = url THEN valid \cup {key} ELSE valid
    BY <1>8 DEF ChangeKey
  <2>2. /\ valid \subseteq valid'
        /\ UNCHANGED <<optionVars, pc, key_url, key_value, cacheVars, last_url, fetches>>
    BY <1>8, <2>1 DEF ChangeKey
  <2>3. server' \in [Urls -> Keys]
    BY <2>1
  <2>4. mode = "record" /\ last_url # NULL => server'[Asked[last_url]] \in valid'
    BY <2>1
  <2> QED BY <2>2, <2>3, <2>4
<1> QED BY <1>1, <1>2, <1>3, <1>4, <1>5, <1>6, <1>7, <1>8 DEF Next

-----------------------------------------------------------------------------
(* A transfer *)

\* The data of a whole answer, whichever it was, or of an empty file.
Bodies == {a.bytes : a \in Fetch!Answers} \cup {<<>>}

\* Room is made again, to the length announced, only while nothing is there yet.
MemoryOk ==
  /\ mem \in [size : Nat, reserved : Nat, allocated : Nat]
  /\ mem.size + 1 <= mem.allocated
  /\ mem.reserved <= mem.allocated
  /\ mem.reserved = 0 => mem.size = 0

\* An answer that the caller will take is the one that was wanted, unless it is
\* of a kind that the caller cannot tell from that; what a variant's caller has
\* from an answer it did not want is that answer, not the start of it.
TransferOk ==
  /\ request \in Requested /\ resource \in Resources
  /\ pc \in {"request", "receive", "decide", "done", "failed", "crashed"}
  /\ DOMAIN result = {"code", "size", "out"}
  /\ pc = "receive" => answer \in Fetch!Answers /\ ~request.local /\ MemoryOk
  /\ pc \in {"request", "receive"} => ~Fetch!Usable(result)
  /\ Fetch!Unchecked => result.out \in Bodies \cup {NULL}
  /\ pc = "decide" /\ Fetch!Usable(result) /\ ~Fetch!Undetected => result.out = Fetch!Wanted
  /\ pc = "done" => /\ Fetch!Usable(result) /\ ~Fetch!Undetected => accepted = Fetch!Wanted
                    /\ ~Fetch!Usable(result) => Fetch!Unchecked /\ accepted \in Bodies

LEMMA WholeIsSeq ==
  ASSUME resource \in Resources
  PROVE  Fetch!Whole \in Seq(Nat) /\ Len(Fetch!Whole) = resource.size
  BY TransferAssumption DEF Fetch!Whole

LEMMA MinOfTwo ==
  ASSUME NEW a \in Int, NEW b \in Int
  PROVE  Fetch!Min({a, b}) = IF a <= b THEN a ELSE b
<1>1. \E x \in {a, b} : \A y \in {a, b} : x <= y
  OBVIOUS
<1> QED BY <1>1 DEF Fetch!Min

LEMMA PartIsSeq ==
  ASSUME request \in Requested, resource \in Resources, request.range # NULL
  PROVE  Fetch!Part(request.range) \in Seq(Nat)
<1> DEFINE r == request.range
           m == Fetch!Min({r.offset + r.size, resource.size})
<1>1. r.offset \in Nat /\ r.size \in Nat /\ resource.size \in Nat
  BY TransferAssumption
<1>2. m \in Int /\ m <= resource.size
  BY <1>1, MinOfTwo, r.offset + r.size \in Int
<1>3. \A k \in (r.offset + 1)..m : Fetch!Whole[k] \in Nat
  BY <1>1, <1>2, WholeIsSeq
<1> HIDE DEF m
<1>4. SubSeq(Fetch!Whole, r.offset + 1, m) \in Seq(Nat)
  BY <1>1, <1>2, <1>3, SubSeqProperties
<1> QED BY <1>4 DEF Fetch!Part, m

LEMMA StartIsSeq ==
  ASSUME resource \in Resources
  PROVE  Fetch!Start \in Seq(Nat)
<1>1. resource.size \in Nat
  BY TransferAssumption
<1>2. Fetch!Min({1, resource.size}) \in Int /\ Fetch!Min({1, resource.size}) <= resource.size
  BY <1>1, MinOfTwo
<1> DEFINE m == Fetch!Min({1, resource.size})
<1>3. \A k \in 1..m : Fetch!Whole[k] \in Nat
  BY <1>1, <1>2, WholeIsSeq
<1> HIDE DEF m
<1>4. SubSeq(Fetch!Whole, 1, m) \in Seq(Nat)
  BY <1>2, <1>3, SubSeqProperties DEF m
<1> QED BY <1>4 DEF Fetch!Start, m

LEMMA NoMemoryOk == mem = Fetch!NoMemory => MemoryOk
  BY DEF Fetch!NoMemory, MemoryOk

\* What becomes of an announced length, whichever way, is room for one byte or
\* is negative.
LEMMA RoomsArePlaces ==
  ASSUME NEW length \in Nat \ {0}, NEW room \in Fetch!Rooms(length), room >= 0
  PROVE  room \in Nat \ {0}
<1> USE TransferAssumption DEF Fetch!Rooms
<1> DEFINE ints == IF length <= IntMax THEN {length} ELSE {-IntMax - 1, IntMax}
           sums == {n + 2 : n \in ints}
<1>1. \A n \in ints : n \in 1..IntMax \/ n = -IntMax - 1
  OBVIOUS
<1>2. \A k \in sums : k \in 3..(IntMax + 2) \/ k = 1 - IntMax
  BY <1>1
<1>3. CASE room \in sums
  BY <1>2, <1>3
<1>4. CASE room \in {n - 2 * (IntMax + 1) : n \in {k \in sums : k > IntMax}}
  BY <1>2, <1>4
<1> QED BY <1>3, <1>4

\* Data that arrives goes behind what is there, and the room grows with it.
LEMMA ReceiveFits ==
  ASSUME MemoryOk, answer \in Fetch!Answers, resource \in Resources, Fetch!Receive
  PROVE  MemoryOk'
<1>1. answer.announced \in Nat
  BY TransferAssumption DEF Fetch!Answers
<1>2. PICK m \in Fetch!Reserved, n \in 1..(Len(answer.bytes) - mem.size) :
        mem' = [Fetch!Enlarged(m, n) EXCEPT !.size = @ + n]
  BY DEF Fetch!Receive
<1>3. n \in Nat \ {0}
  BY <1>2
<1>4. /\ m \in [size : Nat, reserved : Nat, allocated : Nat]
      /\ m.size = mem.size /\ m.size + 1 <= m.allocated /\ m.reserved <= m.allocated
  <2>1. CASE mem.reserved = 0 /\ answer.announced > 0
    <3>1. PICK room \in Fetch!Rooms(answer.announced) :
            room >= 0 /\ m = [mem EXCEPT !.allocated = room, !.reserved = room - 1]
      BY <1>2, <2>1 DEF Fetch!Reserved
    <3>2. room \in Nat \ {0}
      BY <1>1, <2>1, <3>1, RoomsArePlaces
    <3>3. m.size = mem.size /\ m.reserved = room - 1 /\ m.allocated = room
      BY <3>1 DEF MemoryOk
    <3>4. m \in [size : Nat, reserved : Nat, allocated : Nat]
      BY <3>1, <3>2, room - 1 \in Nat DEF MemoryOk
    <3> QED BY <2>1, <3>2, <3>3, <3>4 DEF MemoryOk
  <2>2. CASE ~(mem.reserved = 0 /\ answer.announced > 0)
    BY <1>2, <2>2 DEF Fetch!Reserved, MemoryOk
  <2> QED BY <2>1, <2>2
<1> DEFINE e == Fetch!Enlarged(m, n)
<1>5. mem' = [e EXCEPT !.size = e.size + n]
  BY <1>2
<1>6. /\ e \in [size : Nat, reserved : Nat, allocated : Nat]
      /\ e.size + n + 1 <= e.reserved /\ e.reserved <= e.allocated
  <2>1. CASE m.size + n + 1 > m.reserved
    <3>1. e = [m EXCEPT !.allocated = m.size + n + 1, !.reserved = m.size + n + 1]
      BY <2>1 DEF Fetch!Enlarged
    <3>2. /\ e.size = m.size
          /\ e.reserved = m.size + n + 1 /\ e.allocated = m.size + n + 1
      BY <1>4, <3>1
    <3>3. e \in [size : Nat, reserved : Nat, allocated : Nat]
      BY <1>4, <3>1, m.size + n + 1 \in Nat
    <3> QED BY <1>3, <1>4, <3>2, <3>3
  <2>2. CASE ~(m.size + n + 1 > m.reserved)
    BY <1>3, <1>4, <2>2 DEF Fetch!Enlarged
  <2> QED BY <2>1, <2>2
<1> HIDE DEF e
<1>7. /\ mem' \in [size : Nat, reserved : Nat, allocated : Nat]
      /\ mem'.size = e.size + n /\ mem'.reserved = e.reserved /\ mem'.allocated = e.allocated
  BY <1>3, <1>5, <1>6
<1> QED BY <1>3, <1>6, <1>7 DEF MemoryOk

\* A complete answer with a code that the caller takes.
LEMMA AnswerIsWanted ==
  ASSUME NEW r, TransferOk, pc = "receive", r.code = answer.code,
         Fetch!Usable(r), ~Fetch!Undetected
  PROVE  answer.bytes = Fetch!Wanted
<1>1. answer \in Fetch!Answers /\ ~request.local /\ request \in Requested
  BY DEF TransferOk
<1>2. request.caller \in {"playlist", "variant", "refresh", "key", "segment", "section"}
  BY <1>1, TransferAssumption
<1>3. CASE answer.code = 200
  <2>1. answer.bytes = Fetch!Whole
    BY <1>1, <1>3 DEF Fetch!Answers
  <2>2. request.range = NULL
    <3>1. request.range # NULL => request.caller \in {"segment", "section"}
      BY <1>1, TransferAssumption
    <3>2. CASE request.range # NULL /\ request.caller = "segment"
      BY <1>3, <3>2 DEF Fetch!Undetected
    <3>3. CASE request.range # NULL /\ request.caller = "section"
      BY <1>1, <1>3, <3>3 DEF Fetch!Usable, Fetch!IsSection
    <3> QED BY <3>1, <3>2, <3>3
  <2> QED BY <2>1, <2>2 DEF Fetch!Wanted
<1>4. CASE answer.code = 206
  <2>1. request.range # NULL
    BY <1>4 DEF Fetch!Usable, Fetch!CodeOk, Fetch!Undetected
  <2>2. answer.bytes = Fetch!Part(request.range)
    BY <1>1, <1>4, <2>1 DEF Fetch!Answers
  <2> QED BY <2>1, <2>2 DEF Fetch!Wanted
<1>5. answer.code \in {200, 206}
  BY DEF Fetch!Usable, Fetch!CodeOk
<1> QED BY <1>3, <1>4, <1>5

\* Nothing about the request changes with its answers.
LEMMA SameRequest ==
  ASSUME UNCHANGED <<request, resource>>
  PROVE  /\ Fetch!Wanted' = Fetch!Wanted /\ Fetch!Answers' = Fetch!Answers /\ Bodies' = Bodies
         /\ Fetch!Usable(result)' <=> Fetch!Usable(result')
         /\ Fetch!Unchecked' <=> request.caller = "variant" /\ ~Fetch!Usable(result')
         /\ answer' = answer => (Fetch!Undetected' <=> Fetch!Undetected)
<1> USE DEF Fetch!Whole, Fetch!Part, Fetch!IsBinary
<1>1. Fetch!Wanted' = Fetch!Wanted
  BY DEF Fetch!Wanted
<1>2. Fetch!Answers' = Fetch!Answers
  BY DEF Fetch!Answers, Fetch!Start
<1>3. Bodies' = Bodies
  BY <1>2 DEF Bodies
<1>4. Fetch!Usable(result)' <=> Fetch!Usable(result')
  BY DEF Fetch!Usable, Fetch!CodeOk, Fetch!IsSection
<1>5. Fetch!Unchecked' <=> request.caller = "variant" /\ ~Fetch!Usable(result')
  BY <1>4 DEF Fetch!Unchecked
<1>6. answer' = answer => (Fetch!Undetected' <=> Fetch!Undetected)
  BY DEF Fetch!Undetected
<1> QED BY <1>1, <1>2, <1>3, <1>4, <1>5, <1>6

\* Nothing that a caller must not take is mistaken for an answer, because of its code.
LEMMA OthersUnusable ==
  ASSUME NEW r, r.code \notin {200, 206}
  PROVE  ~Fetch!Usable(r)
  BY DEF Fetch!Usable, Fetch!CodeOk

LEMMA BrokenUnusable ==
  ASSUME NEW code, NEW r, r.code = Fetch!BrokenCode(code)
  PROVE  ~Fetch!Usable(r)
<1>1. r.code \notin {200, 206}
  BY DEF Fetch!BrokenCode
<1> QED BY <1>1, OthersUnusable

\* A file that was read to its end, and through an int that holds its size.
LEMMA FileIsWanted ==
  ASSUME request \in Requested, resource \in Resources, request.local,
         Fetch!FileSize > 0, Fetch!Offset + Fetch!FileSize <= resource.size,
         ~Fetch!Undetected,
         request.range # NULL /\ request.caller = "section" =>
           Fetch!FileSize = request.range.size
  PROVE  SubSeq(Fetch!Whole, Fetch!Offset + 1, Fetch!Offset + Fetch!FileSize) = Fetch!Wanted
<1> DEFINE size == IF request.range = NULL THEN resource.size ELSE request.range.size
<1>1. resource.size \in Nat /\ size \in Nat /\ IntMax \in Nat
  BY TransferAssumption
<1>2. Fetch!FileSize = size
  <2>1. CASE size <= IntMax
    <3>1. size % (2 * (IntMax + 1)) = size
      BY <1>1, <2>1
    <3> QED BY <1>1, <2>1, <3>1 DEF Fetch!FileSize, Fetch!Truncated
  <2>2. CASE size > IntMax
    BY <2>2, TransferAssumption DEF Fetch!Undetected
  <2> QED BY <1>1, <2>1, <2>2
<1>3. CASE request.range = NULL
  <2>1. SubSeq(Fetch!Whole, 1, resource.size) = Fetch!Whole
    BY WholeIsSeq, SubSeqFull
  <2> QED BY <1>1, <1>2, <1>3, <2>1 DEF Fetch!Offset, Fetch!Wanted
<1>4. CASE request.range # NULL
  <2>1. request.range.offset \in Nat /\ request.range.size \in Nat
    BY <1>4, TransferAssumption
  <2>2. request.range.offset + request.range.size <= resource.size
    BY <1>2, <1>4 DEF Fetch!Offset
  <2>3. Fetch!Min({request.range.offset + request.range.size, resource.size})
          = request.range.offset + request.range.size
    BY <1>1, <2>1, <2>2, MinOfTwo, request.range.offset + request.range.size \in Int
  <2> QED BY <1>2, <1>4, <2>3 DEF Fetch!Offset, Fetch!Wanted, Fetch!Part
<1> QED BY <1>3, <1>4

LEMMA ReadFileOk ==
  ASSUME TransferOk, Fetch!ReadFile
  PROVE  TransferOk'
<1> DEFINE n == Fetch!FileSize
           data == SubSeq(Fetch!Whole, Fetch!Offset + 1, Fetch!Offset + n)
<1>1. /\ pc = "request" /\ pc' = "decide" /\ request.local /\ n >= 0
      /\ n > 0 => Fetch!Offset + n <= resource.size
      /\ result' = [code |-> IF n > 0 THEN 200 ELSE 404, size |-> n, out |-> data]
      /\ UNCHANGED <<request, resource, answer>>
  BY DEF Fetch!ReadFile
<1>2. request \in Requested /\ resource \in Resources
  BY DEF TransferOk
<1>3. ASSUME n > 0, Fetch!Usable(result'), ~Fetch!Undetected
      PROVE  data = Fetch!Wanted
  <2>1. request.range # NULL /\ request.caller = "section" => n = request.range.size
    BY <1>1, <1>3 DEF Fetch!Usable, Fetch!IsSection
  <2> QED BY <1>1, <1>2, <1>3, <2>1, FileIsWanted
<1>4. Fetch!Usable(result') => n > 0
  BY <1>1, OthersUnusable
<1>5. request.caller = "variant" /\ ~Fetch!Usable(result') => data = <<>>
  <2> SUFFICES ASSUME request.caller = "variant", ~Fetch!Usable(result') PROVE data = <<>>
    OBVIOUS
  <2>1. request.range = NULL /\ Fetch!Offset = 0
    BY <1>2, TransferAssumption DEF Fetch!Offset
  <2>2. n \in Int
    <3>1. \A k \in Nat : Fetch!Truncated(k) \in Int
      BY TransferAssumption DEF Fetch!Truncated
    <3> QED BY <1>2, <2>1, <3>1, TransferAssumption DEF Fetch!FileSize
  <2> HIDE DEF n, data
  <2>3. n > 0 => Fetch!Usable(result')
    BY <1>1, <1>2, <2>1, <2>2 DEF Fetch!Usable, Fetch!CodeOk, Fetch!IsBinary
  <2>4. n = 0
    BY <1>1, <2>2, <2>3
  <2>5. SubSeq(Fetch!Whole, 1, 0) = <<>>
    BY <1>2, WholeIsSeq, SubSeqEmpty
  <2> QED BY <2>1, <2>4, <2>5 DEF data
<1> HIDE DEF n, data
<1>6. /\ Fetch!Wanted' = Fetch!Wanted /\ Bodies' = Bodies
      /\ Fetch!Undetected' <=> Fetch!Undetected
      /\ Fetch!Usable(result)' <=> Fetch!Usable(result')
      /\ Fetch!Unchecked' <=> request.caller = "variant" /\ ~Fetch!Usable(result')
  BY <1>1, SameRequest
<1>7. <<>> \in Bodies
  BY DEF Bodies
<1> QED BY <1>1, <1>2, <1>3, <1>4, <1>5, <1>6, <1>7 DEF TransferOk

\* All of the bytes that an answer has are those the buffer ends with.
Complete(bytes) == SubSeq(bytes, 1, Len(bytes)) = bytes

LEMMA SeqIsComplete ==
  ASSUME NEW S, NEW bytes \in Seq(S)
  PROVE  Complete(bytes)
  BY SubSeqFull DEF Complete

\* An answer that came in to its end is a body, and the wanted one if it is usable.
LEMMA CompleteOk ==
  ASSUME TransferOk, Fetch!Complete
  PROVE  TransferOk'
<1>1. /\ pc = "receive" /\ pc' = "decide" /\ mem.size = Len(answer.bytes)
      /\ result' = [code |-> answer.code, size |-> mem.size, out |-> Fetch!Out]
      /\ UNCHANGED <<request, resource, answer>>
  BY DEF Fetch!Complete
<1>2. request \in Requested /\ resource \in Resources /\ answer \in Fetch!Answers
  BY <1>1 DEF TransferOk
<1>3. Complete(answer.bytes)
  <2>1. \/ answer.bytes \in {Fetch!Whole, Fetch!Start, <<Noise>>}
        \/ request.range # NULL /\ answer.bytes = Fetch!Part(request.range)
    BY <1>2 DEF Fetch!Answers
  <2>2. Complete(Fetch!Whole) /\ Complete(Fetch!Start)
    BY <1>2, WholeIsSeq, StartIsSeq, SeqIsComplete
  <2>3. request.range # NULL => Complete(Fetch!Part(request.range))
    BY <1>2, PartIsSeq, SeqIsComplete
  <2>4. <<Noise>> \in Seq({Noise})
    OBVIOUS
  <2> QED BY <2>1, <2>2, <2>3, <2>4, SeqIsComplete
<1>4. ASSUME Fetch!Usable(result'), ~Fetch!Undetected
      PROVE  Fetch!Out = Fetch!Wanted
  <2>1. answer.bytes = Fetch!Wanted
    BY <1>1, <1>4, AnswerIsWanted
  <2>2. ~resource.is_png \/ ~Fetch!IsBinary
    BY <1>4 DEF Fetch!Undetected
  <2>3. request.caller = "key" => mem.size = KeyLen
    BY <1>1, <1>4 DEF Fetch!Usable
  <2> QED BY <1>1, <1>3, <2>1, <2>2, <2>3 DEF Fetch!Out, Fetch!Uncovered, Complete
<1>5. request.caller = "variant" => Fetch!Out \in Bodies
  BY <1>1, <1>2, <1>3 DEF Fetch!Out, Fetch!IsBinary, Complete, Bodies
<1>6. /\ Fetch!Wanted' = Fetch!Wanted /\ Bodies' = Bodies
      /\ Fetch!Undetected' <=> Fetch!Undetected
      /\ Fetch!Usable(result)' <=> Fetch!Usable(result')
      /\ Fetch!Unchecked' <=> request.caller = "variant" /\ ~Fetch!Usable(result')
  BY <1>1, SameRequest
<1> QED BY <1>1, <1>2, <1>4, <1>5, <1>6 DEF TransferOk

\* A failure leaves the caller's pointer as it was, or clears it.
LEMMA FailureOk ==
  ASSUME TransferOk, pc \in {"request", "receive"}, pc' = "decide",
         UNCHANGED <<request, resource, answer>>,
         result'.out \in {result.out, NULL}, DOMAIN result' = {"code", "size", "out"},
         ~Fetch!Usable(result')
  PROVE  TransferOk'
<1>1. /\ Bodies' = Bodies
      /\ Fetch!Usable(result)' <=> Fetch!Usable(result')
      /\ Fetch!Unchecked' <=> request.caller = "variant" /\ ~Fetch!Usable(result')
  BY SameRequest
<1>2. request.caller = "variant" => result.out \in Bodies \cup {NULL}
  BY DEF TransferOk, Fetch!Unchecked
<1> QED BY <1>1, <1>2 DEF TransferOk

\* A step that leaves the caller's result alone.
LEMMA OthersOk ==
  ASSUME TransferOk,
         Fetch!FileCrash \/ Fetch!Ask \/ Fetch!Receive \/ Fetch!Accept
           \/ Fetch!TakeUnchecked \/ Fetch!GiveUp
  PROVE  TransferOk'
<1>0. /\ UNCHANGED <<request, resource, result>>
      /\ pc' \in {"receive", "decide", "done", "failed", "crashed"}
  BY DEF TransferOk, Fetch!FileCrash, Fetch!Ask, Fetch!Receive, Fetch!Accept,
         Fetch!TakeUnchecked, Fetch!GiveUp
<1>1. /\ Fetch!Wanted' = Fetch!Wanted /\ Fetch!Answers' = Fetch!Answers /\ Bodies' = Bodies
      /\ Fetch!Usable(result)' <=> Fetch!Usable(result)
      /\ Fetch!Unchecked' <=> Fetch!Unchecked
      /\ answer' = answer => (Fetch!Undetected' <=> Fetch!Undetected)
  BY <1>0, SameRequest DEF Fetch!Unchecked
<1> USE DEF TransferOk
<1>2. CASE Fetch!FileCrash
  BY <1>0, <1>1, <1>2 DEF Fetch!FileCrash
<1>3. CASE Fetch!Ask
  <2>1. MemoryOk'
    BY <1>3 DEF Fetch!Ask, Fetch!NoMemory, MemoryOk
  <2> QED BY <1>0, <1>1, <1>3, <2>1, TransferAssumption DEF Fetch!Ask
<1>4. CASE Fetch!Receive
  <2>1. pc = "receive" /\ UNCHANGED <<pc, answer>>
    BY <1>4 DEF Fetch!Receive
  <2>2. MemoryOk'
    BY <1>4, <2>1, ReceiveFits
  <2> QED BY <1>0, <1>1, <2>1, <2>2
<1>5. CASE Fetch!Accept
  BY <1>0, <1>1, <1>5 DEF Fetch!Accept
<1>6. CASE Fetch!TakeUnchecked
  BY <1>0, <1>1, <1>6 DEF Fetch!TakeUnchecked, Fetch!Unchecked
<1>7. CASE Fetch!GiveUp
  BY <1>0, <1>1, <1>7 DEF Fetch!GiveUp
<1> QED BY <1>2, <1>3, <1>4, <1>5, <1>6, <1>7

LEMMA RetryOk ==
  ASSUME TransferOk, Fetch!Retry
  PROVE  TransferOk'
<1>1. /\ pc = "decide" /\ pc' = "request" /\ Fetch!MayRetry(result)
      /\ result' = IF Fetch!IsBinary THEN [result EXCEPT !.out = NULL] ELSE result
      /\ UNCHANGED <<request, resource>>
  BY DEF Fetch!Retry
<1>2. request.caller \in {"playlist", "variant", "refresh", "key", "segment", "section"}
  BY TransferAssumption DEF TransferOk
<1>3. ~Fetch!Usable(result')
  <2>1. CASE Fetch!IsBinary
    <3>1. ~Fetch!CodeOk(result)
      BY <1>1, <2>1 DEF Fetch!MayRetry, Fetch!IsBinary
    <3>2. result'.code = result.code
      BY <1>1, <2>1 DEF Fetch!CodeOk
    <3> QED BY <3>1, <3>2 DEF Fetch!Usable, Fetch!CodeOk
  <2>2. CASE ~Fetch!IsBinary
    <3>1. request.caller \in {"playlist", "variant"} /\ result' = result
      BY <1>1, <1>2, <2>2 DEF Fetch!MayRetry, Fetch!IsBinary
    <3> QED BY <1>1, <3>1 DEF Fetch!MayRetry
  <2> QED BY <2>1, <2>2
<1>4. request.caller = "variant" => result'.out \in Bodies \cup {NULL}
  <2>1. request.caller = "variant" => result' = result /\ ~Fetch!Usable(result)
    BY <1>1, <1>3 DEF Fetch!IsBinary
  <2> QED BY <2>1 DEF TransferOk, Fetch!Unchecked
<1>5. /\ Bodies' = Bodies
      /\ Fetch!Usable(result)' <=> Fetch!Usable(result')
      /\ Fetch!Unchecked' <=> request.caller = "variant" /\ ~Fetch!Usable(result')
  BY <1>1, SameRequest
<1> QED BY <1>1, <1>3, <1>4, <1>5 DEF TransferOk

LEMMA TransferStep ==
  ASSUME TransferOk, Fetch!Next
  PROVE  TransferOk'
<1>1. CASE Fetch!FileFails
  <2>1. /\ pc = "request" /\ pc' = "decide" /\ UNCHANGED <<request, resource, answer>>
        /\ result'.out \in {result.out, NULL} /\ result'.code = 404
        /\ DOMAIN result' = {"code", "size", "out"}
    BY <1>1 DEF Fetch!FileFails
  <2> QED BY <2>1, FailureOk, OthersUnusable
<1>2. CASE Fetch!Break \/ Fetch!NoRoom
  <2>1. PICK code : result' = [result EXCEPT !.code = Fetch!BrokenCode(code), !.size = mem.size]
    BY <1>2 DEF Fetch!Break, Fetch!NoRoom
  <2>2. pc = "receive" /\ pc' = "decide" /\ UNCHANGED <<request, resource, answer>>
    BY <1>2 DEF Fetch!Break, Fetch!NoRoom
  <2>3. DOMAIN result = {"code", "size", "out"}
    BY DEF TransferOk
  <2>4. /\ result'.out = result.out /\ result'.code = Fetch!BrokenCode(code)
        /\ DOMAIN result' = {"code", "size", "out"}
    BY <2>1, <2>3
  <2> QED BY <2>2, <2>4, FailureOk, BrokenUnusable
<1> QED BY <1>1, <1>2, ReadFileOk, CompleteOk, OthersOk, RetryOk DEF Fetch!Next

-----------------------------------------------------------------------------

KeysPart     == job = "keys" => CacheOk /\ mem = Fetch!NoMemory
TransferPart == job = "transfer" => TransferOk /\ mode = "record" /\ fetches = 0

\* Neither job touches the state of the other.
RequestsInv == job \in {"keys", "transfer"} /\ KeysPart /\ TransferPart

LEMMA RequestsInitOk == RequestsInit => RequestsInv
<1> SUFFICES ASSUME RequestsInit PROVE RequestsInv
  OBVIOUS
<1>1. CASE job = "keys" /\ Init /\ mem = Fetch!NoMemory
  BY <1>1, KeysInit DEF RequestsInv, KeysPart, TransferPart
<1>2. CASE job = "transfer" /\ Fetch!Init /\ mode = "record" /\ fetches = 0
  <2>1. result = Fetch!NoResult /\ pc = "request"
    BY <1>2 DEF Fetch!Init
  <2>2. ~Fetch!Usable(result) /\ DOMAIN result = {"code", "size", "out"} /\ result.out = NULL
    BY <2>1, OthersUnusable DEF Fetch!NoResult
  <2> QED BY <1>2, <2>1, <2>2 DEF RequestsInv, KeysPart, TransferPart, TransferOk, Fetch!Init
<1> QED BY <1>1, <1>2 DEF RequestsInit

LEMMA RequestsStepOk == RequestsInv /\ [RequestsNext]_allVars => RequestsInv'
<1> SUFFICES ASSUME RequestsInv, [RequestsNext]_allVars PROVE RequestsInv'
  OBVIOUS
<1>1. CASE job = "keys" /\ Next /\ UNCHANGED <<job, transfer_vars>>
  <2>1. CacheOk'
    BY <1>1, KeysStep DEF RequestsInv, KeysPart
  <2> QED BY <1>1, <2>1 DEF RequestsInv, KeysPart, TransferPart, transfer_vars, Fetch!NoMemory
<1>2. CASE job = "transfer" /\ Fetch!Next /\ UNCHANGED <<job, key_vars>>
  <2>1. TransferOk'
    BY <1>2, TransferStep DEF RequestsInv, TransferPart
  <2>2. mode' = mode /\ fetches' = fetches
    BY <1>2 DEF key_vars, optionVars, runVars
  <2> QED BY <1>2, <2>1, <2>2 DEF RequestsInv, KeysPart, TransferPart
<1>3. CASE UNCHANGED allVars
  <2>1. UNCHANGED <<job, mode, fetches, mem>>
    BY <1>3 DEF allVars, vars, optionVars, runVars, transfer_vars
  <2>2. CASE job = "keys"
    <3>1. CacheOk'
      BY <1>3, <2>2 DEF allVars, vars, optionVars, serverVars, cacheVars, runVars,
         RequestsInv, KeysPart, CacheOk, RunOk, OptionOk
    <3> QED BY <2>1, <2>2, <3>1 DEF RequestsInv, KeysPart, TransferPart, Fetch!NoMemory
  <2>3. CASE job = "transfer"
    <3>1. UNCHANGED <<request, resource, pc, answer, result, accepted>>
      BY <1>3 DEF allVars, vars, transfer_vars
    <3>2. /\ Fetch!Wanted' = Fetch!Wanted /\ Fetch!Answers' = Fetch!Answers /\ Bodies' = Bodies
          /\ Fetch!Usable(result)' <=> Fetch!Usable(result)
          /\ Fetch!Unchecked' <=> Fetch!Unchecked
          /\ Fetch!Undetected' <=> Fetch!Undetected
      BY <3>1, SameRequest DEF Fetch!Unchecked
    <3>3. TransferOk
      BY <2>3 DEF RequestsInv, TransferPart
    <3>4. MemoryOk' <=> MemoryOk
      BY <2>1 DEF MemoryOk
    <3>5. TransferOk'
      BY <3>1, <3>2, <3>3, <3>4 DEF TransferOk
    <3> QED BY <2>1, <2>3, <3>5 DEF RequestsInv, KeysPart, TransferPart
  <2> QED BY <2>2, <2>3 DEF RequestsInv
<1> QED BY <1>1, <1>2, <1>3 DEF RequestsNext

\* The states of the cache, of the buffer and of a transfer that the three
\* properties rest on: what the cached key and the bytes received so far are.
THEOREM RequestsInvariant == RequestsSpec => []RequestsInv
<1> QED BY RequestsInitOk, RequestsStepOk, PTL DEF RequestsSpec, allVars

\* The cache hands out the key that the segment's own address served during the
\* present run of segments, fetched once in it, however many addresses there are,
\* whichever of them are rewritten to one, and whenever the server changes a key.
THEOREM KeysAlwaysCached == RequestsSpec => []KeysCached
<1>1. RequestsInv => KeysCached
  <2>1. RequestsInv /\ job = "keys" => KeysCached
    BY DEF RequestsInv, KeysPart, CacheOk, RunOk, OptionOk, KeysCached, KeyOfOwnRun, FetchedOncePerRun
  <2>2. RequestsInv /\ job = "transfer" => KeysCached
    BY DEF RequestsInv, TransferPart, TransferOk, KeysCached, KeyOfOwnRun, FetchedOncePerRun
  <2> QED BY <2>1, <2>2 DEF RequestsInv
<1> QED BY <1>1, RequestsInvariant, PTL

\* Whoever asks for a resource or a range of it keeps exactly that, for every
\* size, every piece the answer comes in and any number of retries, unless the
\* code has no means to tell (Undetected).  Of a variant that no try got, whatever
\* is kept in its place is the data of an answer that came in to its end.
THEOREM AnswerAlwaysWhole == RequestsSpec => []AnswerWhole
<1>1. RequestsInv => AnswerWhole
  BY DEF RequestsInv, TransferPart, TransferOk, AnswerWhole, Fetch!AnswerWhole,
     Fetch!Unchecked, Bodies
<1> QED BY <1>1, RequestsInvariant, PTL

\* The pieces of an answer that comes in and the zero behind them always have room,
\* whatever length was announced and whatever int it became.
THEOREM AlwaysRoomForAnswer == RequestsSpec => []RoomForAnswer
<1>1. RequestsInv => RoomForAnswer
  BY DEF RequestsInv, KeysPart, TransferPart, TransferOk, MemoryOk, RoomForAnswer,
     Fetch!RoomForAnswer, Fetch!NoMemory
<1> QED BY <1>1, RequestsInvariant, PTL

=============================================================================
