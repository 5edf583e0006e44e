----------------------------- MODULE MCRequests -----------------------------
(* Instances of Requests for TLC.  Two of three addresses of keys are asked as *)
(* one; a resource may be empty, shorter than the range asked for, as long as  *)
(* a key, too long for an int by one or by all its bits, or look like a        *)
(* picture.                                                                    *)
EXTENDS Requests

CONSTANTS u1, u2, u3, k1, k2, given

MCUrls  == {u1, u2, u3}
MCKeys  == {k1, k2}
MCOptionKeys == {NULL, given}
MCAsked == [u \in MCUrls |-> IF u = u2 THEN u1 ELSE u]

MCRequested ==
  [caller : {"playlist", "variant", "refresh", "key"}, range : {NULL}, local : BOOLEAN,
   accept_partial_content : {FALSE}]
    \cup [caller : {"segment", "section"},
          range : {NULL, [offset |-> 0, size |-> 2], [offset |-> 1, size |-> 4],
                   [offset |-> 0, size |-> 14]},
          local : BOOLEAN, accept_partial_content : BOOLEAN]

MCResources == [size : {0, 2, 5, 6, 14}, is_png : BOOLEAN]
=============================================================================
