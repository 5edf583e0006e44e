------------------------------- MODULE Requests -------------------------------
(***************************************************************************)
(* What is asked of a server: keys, through their cache (KeyCache), and a  *)
(* single request with its answer and its retries (Transfer).              *)
(***************************************************************************)
EXTENDS KeyCache

CONSTANTS Noise, Requested, Resources, KeyLen, IntMax, Cover, MaxRetries

\* Callers ask for ranges that the parser has checked.
ASSUME TransferAssumption ==
  /\ KeyLen \in Nat /\ IntMax \in Nat /\ IntMax > 1
  /\ Resources \subseteq [size : Nat, is_png : BOOLEAN]
  /\ \A r \in Requested :
       /\ r.caller \in {"playlist", "variant", "refresh", "key", "segment", "section"}
       /\ r.local \in BOOLEAN /\ r.accept_partial_content \in BOOLEAN
       /\ r.range # NULL => /\ r.caller \in {"segment", "section"}
                            /\ r.range.offset \in Nat /\ r.range.size \in Nat

VARIABLES job,  \* "keys" or "transfer"
          request, resource, retries, answer, mem, result, accepted

Fetch == INSTANCE Transfer WITH Requests <- Requested

transfer_vars == <<request, resource, retries, answer, mem, result, accepted>>
key_vars      == <<optionVars, serverVars, method, key_url, key_value, cacheVars, count, runVars>>

RequestsInit ==
  \/ job = "keys" /\ Init
     /\ request = NULL /\ resource = NULL /\ retries = 0
     /\ answer = Fetch!NoAnswer /\ mem = Fetch!NoMemory /\ result = Fetch!NoResult /\ accepted = NULL
  \/ job = "transfer" /\ Fetch!Init
     /\ mode = "record" /\ option_key = NULL /\ server = <<>> /\ changes = 0
     /\ method = "NONE" /\ key_url = NULL /\ key_value = Zero
     /\ cache_key_url = NULL /\ cache_key_value = Zero /\ count = 0
     /\ last_url = NULL /\ valid = {} /\ fetches = 0

RequestsNext ==
  \/ job = "keys" /\ Next /\ UNCHANGED <<job, transfer_vars>>
  \/ job = "transfer" /\ Fetch!Next /\ UNCHANGED <<job, key_vars>>

RequestsSpec == RequestsInit /\ [][RequestsNext]_<<job, vars, transfer_vars>>

-----------------------------------------------------------------------------

\* Whoever asks gets all of what was asked for or knows that it did not, but for
\* what the code cannot tell or, of a variant, does not look at.
AnswerWhole == job = "transfer" => Fetch!AnswerWhole

\* The pieces of an answer fit into the memory that the code allocated for them.
RoomForAnswer == Fetch!RoomForAnswer

=============================================================================
