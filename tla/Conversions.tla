---------------------------- MODULE Conversions ----------------------------
(***************************************************************************)
(* How the parsers read the text of a tag: durations, decimals, the IV of  *)
(* a key, attribute lists; and how a key's address is rewritten (-k, -n).  *)
(* Each operator follows the scan of its function over a sequence of       *)
(* characters; each property says what the result means.  The module's     *)
(* behaviour spells out every text over an alphabet.                       *)
(***************************************************************************)
EXTENDS Integers, SequencesExt

CONSTANTS NULL,
          Alphabets,   \* [chars, max_len]: a text is spelled in one of these
          MaxOffset,   \* INT64_MAX
          KeyLen,      \* KEYLEN, the bytes of an IV
          From, To     \* options -k and -n

\* -k is the old text, which is not searched for when it is empty, and -n the new one.
ASSUME FromToAssumption == From \in Seq(STRING) \ {<<>>} /\ To \in Seq(STRING)

ASSUME LimitsAssumption == MaxOffset \in Nat /\ KeyLen \in Nat \ {0}

ASSUME AlphabetsAssumption == \A a \in Alphabets : a.chars \subseteq STRING

\* NULL is none of the numbers, values, attributes and lists that it stands for the lack of.
ASSUME NullAssumption ==
  /\ NULL \notin Int /\ NULL \notin Seq(Int)
  /\ NULL \notin [value : Int, rest : Seq(STRING)]
  /\ NULL \notin [value : Seq(STRING), quoted : BOOLEAN, rest : Seq(STRING)]
  /\ NULL \notin [name : Seq(STRING), value : Seq(STRING), quoted : BOOLEAN, rest : Seq(STRING)]
  /\ NULL \notin Seq([name : Seq(STRING), value : Seq(STRING), quoted : BOOLEAN])

VARIABLES alphabet, text

Init == alphabet \in Alphabets /\ text = <<>>

Type(c) == /\ Len(text) < alphabet.max_len
           /\ text' = Append(text, c)
           /\ UNCHANGED alphabet

Next == \E c \in alphabet.chars : Type(c)

Spec == Init /\ [][Next]_<<alphabet, text>>

Numerals == <<"0", "1", "2", "3", "4", "5", "6", "7", "8", "9">>
Small    == <<"a", "b", "c", "d", "e", "f">>
Capital  == <<"A", "B", "C", "D", "E", "F">>

Digits    == [c \in ToSet(Numerals) |-> CHOOSE d \in 0..9 : Numerals[d + 1] = c]
HexDigits == [c \in ToSet(Numerals \o Small \o Capital) |->
                IF c \in DOMAIN Digits THEN Digits[c]
                ELSE CHOOSE d \in 10..15 : c \in {Small[d - 9], Capital[d - 9]}]

\* The longest prefix of s whose elements all satisfy Test.
PrefixLen(s, Test(_)) ==
  LET end == SelectInSeq(s, LAMBDA c : ~Test(c))
  IN IF end = 0 THEN Len(s) ELSE end - 1

IsDigit(c) == c \in DOMAIN Digits

-----------------------------------------------------------------------------
(* get_duration_ms: digits with at most one dot, until anything else or the *)
(* fourth decimal.                                                           *)

Blank(c) == c \in {" ", "\t"}

Scanned == [v1 |-> 0, v2 |-> 0, n |-> 0, dot |-> FALSE, stop |-> FALSE]

Scan(r, c) ==
  IF r.stop THEN r
  ELSE IF IsDigit(c) /\ ~r.dot THEN [r EXCEPT !.v1 = @ * 10 + Digits[c]]
  ELSE IF IsDigit(c) /\ r.n < 3 THEN [r EXCEPT !.v2 = @ * 10 + Digits[c], !.n = @ + 1]
  ELSE IF c = "." /\ ~r.dot THEN [r EXCEPT !.dot = TRUE]
  ELSE [r EXCEPT !.stop = TRUE]

Scale == [n \in 0..3 |-> CASE n = 0 -> 1000 [] n = 1 -> 100 [] n = 2 -> 10 [] n = 3 -> 1]

\* Fault: the decimals are taken as they are.
DurationMs_Unscaled(s) ==
  LET r == FoldLeft(Scan, Scanned, SubSeq(s, PrefixLen(s, Blank) + 1, Len(s)))
  IN r.v1 * 1000 + r.v2

DurationMs(s) ==
  LET r == FoldLeft(Scan, Scanned, SubSeq(s, PrefixLen(s, Blank) + 1, Len(s)))
  IN r.v1 * 1000 + r.v2 * Scale[r.n]

(* parse_decimal: NULL without a digit or past MaxOffset, else value and rest. *)

Shift(result, digit) ==
  IF result = NULL \/ result > (MaxOffset - digit) \div 10 THEN NULL ELSE result * 10 + digit

Decimal(s) ==
  LET n     == PrefixLen(s, IsDigit)
      value == FoldLeft(LAMBDA r, c : Shift(r, Digits[c]), 0, SubSeq(s, 1, n))
  IN IF n = 0 \/ value = NULL THEN NULL
     ELSE [value |-> value, rest |-> SubSeq(s, n + 1, Len(s))]

(* parse_iv: the bytes, or NULL.  Nibbles are placed from the right. *)

IvOk(s) == /\ Len(s) \in 3..(2 + 2 * KeyLen)
           /\ s[1] = "0" /\ s[2] \in {"x", "X"}
           /\ \A i \in 3..Len(s) : s[i] \in DOMAIN HexDigits

NibbleAt(s, i) == 2 * KeyLen - (Len(s) - 2) + i - 3

Iv(s) ==
  IF ~IvOk(s) THEN NULL
  ELSE LET nibble == [k \in 0..(2 * KeyLen - 1) |->
                        LET at == {i \in 3..Len(s) : NibbleAt(s, i) = k}
                        IN IF at = {} THEN 0 ELSE HexDigits[s[Max(at)]]]
       IN [b \in 1..KeyLen |-> 16 * nibble[2 * b - 2] + nibble[2 * b - 1]]

(* next_media_attribute: the first attribute of s and what follows it, NULL if *)
(* s does not start with one.                                                  *)

\* Fault: a quoted value ends at the first comma.
Value_CutAtComma(s) ==
  LET n == PrefixLen(s, LAMBDA c : c # ",")
  IN IF n > 1 /\ s[1] = "q" /\ s[n] = "q"
     THEN [value |-> SubSeq(s, 2, n - 1), quoted |-> TRUE, rest |-> SubSeq(s, n + 1, Len(s))]
     ELSE [value |-> SubSeq(s, 1, n), quoted |-> FALSE, rest |-> SubSeq(s, n + 1, Len(s))]

\* The value at the start of s; "q" stands for the quotation mark.
Value(s) ==
  IF s # <<>> /\ s[1] = "q"
  THEN LET close == SelectInSeq(Tail(s), LAMBDA c : c = "q") + 1
       IN IF close = 1 THEN NULL
          ELSE [value |-> SubSeq(s, 2, close - 1), quoted |-> TRUE,
                rest |-> SubSeq(s, close + 1, Len(s))]
  ELSE LET n == PrefixLen(s, LAMBDA c : c # ",")
       IN [value |-> SubSeq(s, 1, n), quoted |-> FALSE, rest |-> SubSeq(s, n + 1, Len(s))]

Attribute(s) ==
  LET n == PrefixLen(s, LAMBDA c : c \notin {"=", ","})
      v == Value(SubSeq(s, n + 2, Len(s)))
  IN IF n = 0 \/ n = Len(s) \/ s[n + 1] # "=" \/ v = NULL THEN NULL
     ELSE IF v.value = <<>> \/ v.rest = <<",">> THEN NULL
     ELSE IF v.rest # <<>> /\ v.rest[1] # "," THEN NULL
     ELSE [name |-> SubSeq(s, 1, n), value |-> v.value, quoted |-> v.quoted,
           rest |-> SubSeq(v.rest, 2, Len(v.rest))]

\* All attributes of s in order, NULL when one of them is malformed.
Attributes(s) ==
  LET rest[k \in 1..(Len(s) + 1)] ==  \* from position k on
        IF k > Len(s) THEN <<>>
        ELSE LET a == Attribute(SubSeq(s, k, Len(s)))
             IN IF a = NULL THEN NULL
                ELSE LET others == rest[Len(s) + 1 - Len(a.rest)]
                     IN IF others = NULL THEN NULL
                        ELSE <<[name |-> a.name, value |-> a.value, quoted |-> a.quoted]>> \o others
  IN rest[1]

(* repl_str: first the positions of all matches, then the pieces between. *)

Match(s, k) == k + Len(From) - 1 <= Len(s) /\ SubSeq(s, k, k + Len(From) - 1) = From

\* Fault: the search goes on one character behind a match.
Matches_Overlap(s) == SetToSortSeq({k \in DOMAIN s : Match(s, k)}, <)

Matches(s) ==
  LET found[k \in 1..(Len(s) + 1)] ==
        LET at == {j \in k..Len(s) : Match(s, j)}
        IN IF at = {} THEN <<>> ELSE <<Min(at)>> \o found[Min(at) + Len(From)]
  IN found[1]

Replaced(s) ==
  LET at == Matches(s)
      Piece(i) == SubSeq(s, at[i] + Len(From),
                         IF i = Len(at) THEN Len(s) ELSE at[i + 1] - 1)
  IN IF at = <<>> THEN s
     ELSE SubSeq(s, 1, at[1] - 1) \o FlattenSeq([i \in DOMAIN at |-> To \o Piece(i)])

RetLen(s) == Len(s) + (Len(To) - Len(From)) * Len(Matches(s))

-----------------------------------------------------------------------------
(* Properties *)

Power(base, n) ==
  LET power[k \in 0..n] == IF k = 0 THEN 1 ELSE base * power[k - 1]
  IN power[n]

\* The number a sequence of digits spells in a base.
Number(s, base, digit) ==
  SumFunction([i \in DOMAIN s |-> digit[s[i]] * Power(base, Len(s) - i)])

\* A duration (EXTINF, the start offset and the recording limit are sums of
\* them) is the decimal number at the start of the text, cut to milliseconds.
DurationTruncated ==
  LET trimmed == SubSeq(text, PrefixLen(text, Blank) + 1, Len(text))
      i       == PrefixLen(trimmed, IsDigit)
      beyond  == SubSeq(trimmed, i + 2, Len(trimmed))
      d       == IF i < Len(trimmed) /\ trimmed[i + 1] = "." THEN PrefixLen(beyond, IsDigit) ELSE 0
      number  == Number(SubSeq(trimmed, 1, i) \o SubSeq(beyond, 1, d), 10, Digits)
      ms      == DurationMs(text)
  IN ms * Power(10, d) <= number * 1000 /\ number * 1000 < (ms + 1) * Power(10, d)

\* A decimal is accepted exactly when its value does not exceed the greatest
\* offset, however long it is, and is then read to its last digit.
DecimalExact ==
  LET fits == {n \in 1..Len(text) : /\ \A i \in 1..n : IsDigit(text[i])
                                    /\ n = Len(text) \/ ~IsDigit(text[n + 1])
                                    /\ Number(SubSeq(text, 1, n), 10, Digits) <= MaxOffset}
  IN Decimal(text) =
       IF fits = {} THEN NULL
       ELSE LET n == Max(fits)
            IN [value |-> Number(SubSeq(text, 1, n), 10, Digits),
                rest  |-> SubSeq(text, n + 1, Len(text))]

\* A short IV is the same number as the one with leading zeros: its bytes, as a
\* big-endian number, spell it.
IvIsNumber ==
  Iv(text) # NULL =>
    Number(Iv(text), 256, [b \in 0..255 |-> b])
      = Number(SubSeq(text, 3, Len(text)), 16, HexDigits)

\* The numbers of a playlist mean what their characters spell, to the last digit
\* of the longest and in the shortest form.
NumbersExact == DurationTruncated /\ DecimalExact /\ IvIsNumber

\* What an attribute list is: the pieces between some of its commas are each
\* name=value with a value that is quoted or has neither comma nor leading quote.
IsAttribute(s) ==
  \E e \in 2..(Len(s) - 1) :
    /\ s[e] = "=" /\ \A i \in 1..(e - 1) : s[i] \notin {"=", ","}
    /\ \/ s[e + 1] # "q" /\ \A i \in (e + 1)..Len(s) : s[i] # ","
       \/ /\ Len(s) > e + 2 /\ s[e + 1] = "q" /\ s[Len(s)] = "q"
          /\ \A i \in (e + 2)..(Len(s) - 1) : s[i] # "q"

IsAttributeList(s) ==
  \E cuts \in SUBSET {i \in DOMAIN s : s[i] = ","} :
    LET ends == cuts \cup {0, Len(s) + 1}
    IN \A i, j \in ends : i < j /\ (\A k \in ends : k <= i \/ j <= k)
                            => IsAttribute(SubSeq(s, i + 1, j - 1))

Written(a) == a.name \o <<"=">> \o (IF a.quoted THEN <<"q">> \o a.value \o <<"q">> ELSE a.value)

\* The attributes of a key or a section are read exactly when the text is a list
\* of attributes, and writing them down again gives the text.
AttributesExact ==
  text # <<>> =>
    /\ Attributes(text) # NULL <=> IsAttributeList(text)
    /\ Attributes(text) # NULL =>
         text = FoldLeft(LAMBDA s, a : IF s = <<>> THEN Written(a) ELSE s \o <<",">> \o Written(a),
                         <<>>, Attributes(text))

\* Rewriting replaces every match, found from the left, and nothing else, and
\* the buffer it allocates has the length of the result.
ReplacedAll ==
  LET scan[k \in 1..(Len(text) + 1)] ==
        IF k > Len(text) THEN <<>>
        ELSE IF Match(text, k) THEN To \o scan[k + Len(From)]
        ELSE <<text[k]>> \o scan[k + 1]
  IN Replaced(text) = scan[1] /\ Len(Replaced(text)) = RetLen(text)

=============================================================================
