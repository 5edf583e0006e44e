------------------------------ MODULE KeyCache ------------------------------
(***************************************************************************)
(* Keys (fill_key_value, decrypt_aes128) and the two loops that need them: *)
(* recording, which decrypts segment after segment, and print_enc_keys     *)
(* (option -d).  A cache remembers one key with the address a segment gave *)
(* for it.  The server may change the key behind an address at any time.   *)
(***************************************************************************)
EXTENDS Integers, Sequences

CONSTANTS NULL, Zero,      \* no key; the key value of a segment nothing was filled in for
          Urls, Keys,      \* addresses of keys and what they may serve
          OptionKeys,      \* values of -K, with NULL for none
          Asked,           \* the address asked in place of another (-k and -n)
          NumSegments, MaxChanges  \* bounds: segments, and changes of keys on the server

ASSUME KeysAssumption == /\ Asked \in [Urls -> Urls]
                         /\ Zero \notin Keys /\ NULL \notin Keys \cup Urls
                         /\ NumSegments \in Nat /\ MaxChanges \in Nat

Methods == {"NONE", "AES-128", "SAMPLE-AES", "SAMPLE-AES-CTR"}

VARIABLES
  mode,        \* "record" or "print"
  option_key,  \* hls_args.key_value
  server, changes,
  pc, method,
  key_url, key_value,              \* enc_aes of the segment in hand
  cache_key_url, cache_key_value,  \* the static variables of fill_key_value
  count,       \* segments taken so far
  \* observations
  last_url,    \* the address of the keyed segment before this one
  valid,       \* keys its address has served since the present run of it began
  fetches      \* requests answered with a key during the present run

optionVars == <<mode, option_key>>
serverVars == <<server, changes>>
cacheVars  == <<cache_key_url, cache_key_value>>
runVars    == <<last_url, valid, fetches>>
vars == <<optionVars, serverVars, pc, method, key_url, key_value, cacheVars, count, runVars>>

Init ==
  /\ mode \in {"record", "print"} /\ option_key \in OptionKeys
  /\ server \in [Urls -> Keys] /\ changes = 0
  /\ pc = "next" /\ method = "NONE" /\ key_url = NULL /\ key_value = Zero
  /\ cache_key_url = NULL /\ cache_key_value = Zero
  /\ count = 0
  /\ last_url = NULL /\ valid = {} /\ fetches = 0

-----------------------------------------------------------------------------

\* The recorders have no decryption for SAMPLE-AES-CTR and write it as it is.
NeedsKey(m) == IF mode = "record" THEN m \in {"AES-128", "SAMPLE-AES"} ELSE m # "NONE"

TakePlain ==
  /\ pc = "next" /\ count < NumSegments
  /\ method' \in {m \in Methods : ~NeedsKey(m)}
  /\ count' = count + 1
  /\ UNCHANGED <<optionVars, serverVars, pc, key_url, key_value, cacheVars, runVars>>

TakeKeyed ==
  /\ pc = "next" /\ count < NumSegments
  /\ method' \in {m \in Methods : NeedsKey(m)}
  /\ \E url \in Urls :
       /\ key_url' = url /\ last_url' = url
       /\ IF url = last_url THEN UNCHANGED <<valid, fetches>>
          ELSE valid' = {server[Asked[url]]} /\ fetches' = 0
  /\ key_value' = Zero
  /\ count' = count + 1
  /\ pc' = "fill"
  /\ UNCHANGED <<optionVars, serverVars, cacheVars>>

(* fill_key_value.  A filled key gives up its address. *)

Filled(key) == /\ pc' = "use"
               /\ key_value' = key
               /\ key_url' = NULL
               /\ UNCHANGED <<optionVars, serverVars, method, count, last_url, valid>>

\* Fault: any cached key is taken, whatever its address.
FillCached_AnyUrl ==
  /\ pc = "fill"
  /\ cache_key_url # NULL
  /\ Filled(cache_key_value)
  /\ UNCHANGED <<cacheVars, fetches>>

FillCached ==
  /\ pc = "fill"
  /\ cache_key_url = key_url
  /\ Filled(cache_key_value)
  /\ UNCHANGED <<cacheVars, fetches>>

\* Option -K gives the key for every address.
FillFromOption ==
  /\ pc = "fill"
  /\ cache_key_url # key_url /\ option_key # NULL
  /\ Filled(option_key)
  /\ cache_key_url' = key_url /\ cache_key_value' = option_key
  /\ UNCHANGED fetches

\* The request has its own session, which the key's rewritten address goes to;
\* the cache remembers the address as it stood in the playlist.
FillFromServer ==
  /\ pc = "fill"
  /\ cache_key_url # key_url /\ option_key = NULL
  /\ Filled(server[Asked[key_url]])
  /\ cache_key_url' = key_url /\ cache_key_value' = server[Asked[key_url]]
  /\ fetches' = fetches + 1

\* The request fails, or its answer is not KEYLEN bytes long.  Recording ends;
\* printing does not look at the result.
FillFails ==
  /\ pc = "fill"
  /\ cache_key_url # key_url /\ option_key = NULL
  /\ pc' = IF mode = "record" THEN "failed" ELSE "use"
  /\ UNCHANGED <<optionVars, serverVars, method, key_url, key_value, cacheVars, count, runVars>>

\* The segment is decrypted and written, or its key and IV are printed.
Use ==
  /\ pc = "use"
  /\ pc' = "next"
  /\ UNCHANGED <<optionVars, serverVars, method, key_url, key_value, cacheVars, count, runVars>>

\* The length is no multiple of KEYLEN, or what comes out has no valid padding.
DecryptFails ==
  /\ pc = "use" /\ mode = "record"
  /\ pc' = "failed"
  /\ UNCHANGED <<optionVars, serverVars, method, key_url, key_value, cacheVars, count, runVars>>

ChangeKey ==
  /\ changes < MaxChanges
  /\ \E url \in Urls, key \in Keys :
       /\ key # server[url]
       /\ server' = [server EXCEPT ![url] = key]
       /\ valid' = IF last_url # NULL /\ Asked[last_url] = url THEN valid \cup {key} ELSE valid
  /\ changes' = changes + 1
  /\ UNCHANGED <<optionVars, pc, method, key_url, key_value, cacheVars, count, last_url, fetches>>

Next ==
  \/ TakePlain \/ TakeKeyed
  \/ FillCached \/ FillFromOption \/ FillFromServer \/ FillFails
  \/ Use \/ DecryptFails
  \/ ChangeKey

Spec == Init /\ [][Next]_vars

-----------------------------------------------------------------------------
(* Properties *)

\* A segment is decrypted with the key of -K or else with one that its own
\* address served no earlier than the present run of segments with this
\* address began: the cache never brings back an earlier run's key, nor that of
\* another address.
KeyOfOwnRun ==
  mode = "record" /\ pc = "use" =>
    IF option_key # NULL THEN key_value = option_key ELSE key_value \in valid

\* While segments share an address their key is fetched once, before the
\* first of them is decrypted.
FetchedOncePerRun ==
  mode = "record" => /\ fetches <= 1
                     /\ pc = "use" /\ option_key = NULL => fetches = 1

\* The cache saves requests, and never at the price of a wrong key.
KeysCached == KeyOfOwnRun /\ FetchedOncePerRun

=============================================================================
