--------------------------- MODULE MCConversions ---------------------------
(* Instances of Conversions for TLC: numbers, attribute lists, addresses, NAL  *)
(* units, audio frames.  The replaced text can overlap itself and the          *)
(* replacement contains it.                                                    *)
EXTENDS Samples

MCAlphabets == {[chars |-> {"0", "5", "9", ".", " "}, max_len |-> 6],
                [chars |-> {"0", "x", "a", "F"},      max_len |-> 7],
                [chars |-> {"a", "=", ",", "q"},      max_len |-> 8],
                [chars |-> {"http://", "/", "a", "..", "?", "proxy"}, max_len |-> 5],
                [chars |-> {"S", "00", "01", "03", "65"}, max_len |-> 8],
                [chars |-> {"F1", "F5", "F8", "d"},       max_len |-> 8]}

MCVideoAlphabet == {[chars |-> {"S", "00", "01", "03", "67"}, max_len |-> 7]}

MCCycle == <<"00", "01", "03", "65">>
MCVideoCycle == <<"00", "01", "03", "67">>

MCFrom == <<"a", "a">>
MCTo   == <<"=", "a", "a">>

MCSchemes == {"http://", "https://", "ftp://"}

\* A file beside the root, in a folder and with a query that holds slashes;
\* the proxy; local files with either separator and with none.
MCBases == {<<"https://", "h">>, <<"http://", "h", "/">>, <<"ftp://", "h", "/", "d", "/", "f">>,
            <<"https://", "h", "/", "d", "/", "..", "/", "e", "/", "f", "?", "a", "/", "a">>,
            <<"http://", "h", "/", "d", "/">>,
            <<"http://", "proxy", "/", "h", "/", "f">>,
            <<"d", "/", "e", "/", "f">>, <<"d", "\\", "f">>, <<"f">>}
=============================================================================
