------------------------------- MODULE Samples -------------------------------
(***************************************************************************)
(* How SAMPLE-AES decrypts the payload of a PES packet: H.264 NAL units    *)
(* (sample_aes_decrypt_nal_units) and audio frames                         *)
(* (sample_aes_decrypt_audio_data), as functions of its bytes.             *)
(*                                                                         *)
(* Bytes are characters; S spells a start code, F5 and the like the header *)
(* of an audio frame with its length.  A block of the cipher is one byte   *)
(* of a NAL unit, or two of an audio frame; opening the n-th block of a    *)
(* chain turns its bytes n places along Cycle.                             *)
(***************************************************************************)
EXTENDS UrlResolution

CONSTANTS Cycle,                   \* the bytes of NAL units that the cipher permutes
          Leader, Shortest, Stride \* 32, 48 and 160 bytes of a NAL unit

ASSUME CipherAssumption ==
  /\ Cycle \in Seq(STRING) /\ \A i, j \in DOMAIN Cycle : Cycle[i] = Cycle[j] => i = j
  /\ Leader \in Nat \ {0} /\ Shortest \in Nat /\ Stride \in Nat \ {0}

-----------------------------------------------------------------------------
(* The cipher, and the escapes that keep start codes out of a NAL unit. *)

Place(b) == SelectInSeq(Cycle, LAMBDA c : c = b) - 1
Turn(b, n) == IF b \in ToSet(Cycle) THEN Cycle[((Place(b) + n) % Len(Cycle)) + 1] ELSE b

\* AES128_CBC_DecryptUpdate on the n-th block of a chain.
Open(b, n) == Turn(b, n)

Zeros(s, k) == k + 2 <= Len(s) /\ s[k] = "00" /\ s[k + 1] = "00"

\* remove_emulation_prev
Unescaped(s) ==
  LET from[k \in 1..(Len(s) + 1)] ==
        IF k > Len(s) THEN <<>>
        ELSE IF Zeros(s, k) /\ s[k + 2] = "03" THEN <<"00", "00">> \o from[k + 3]
        ELSE <<s[k]>> \o from[k + 1]
  IN from[1]

\* Fault: a byte equal to the escape is not told from a smaller one.
NeedsEscape_Three(b) == b \in {"00", "01", "02", "03"}

NeedsEscape(b) == b \in {"00", "01", "02"}

\* insert_emulation_prev: the byte behind an escape is copied with it.
Escaped(s) ==
  LET from[k \in 1..(Len(s) + 1)] ==
        IF k > Len(s) THEN <<>>
        ELSE IF Zeros(s, k) /\ NeedsEscape(s[k + 2])
             THEN <<"00", "00", "03", s[k + 2]>> \o from[k + 3]
        ELSE <<s[k]>> \o from[k + 1]
  IN from[1]

-----------------------------------------------------------------------------
(* NAL units *)

\* ff_avc_find_startcode: the next start code from k on, with a zero ahead of
\* it, or the end; a start code that ends the bytes is none.
StartCode(s, k) ==
  LET at == {p \in k..(Len(s) - 3) : s[p] = "00" /\ s[p + 1] = "00" /\ s[p + 2] = "01"}
      p  == Min(at)
  IN IF at = {} THEN Len(s) + 1
     ELSE IF p > k /\ s[p - 1] = "00" THEN p - 1 ELSE p

\* Types 1 and 5 are slices; shorter units are not encrypted.
IsEncrypted(unit) == unit[1] \in {"01", "65"} /\ Len(unit) > Shortest

\* One block out of ten behind the leader, while bytes follow it; 0 for others.
BlockNumber(unit, k) ==
  IF k > Leader /\ k < Len(unit) /\ (k - 1 - Leader) % Stride = 0
  THEN ((k - 1 - Leader) \div Stride) + 1 ELSE 0

OpenUnit(unit) ==
  IF unit = <<>> \/ ~IsEncrypted(unit) THEN unit
  ELSE [k \in DOMAIN unit |-> IF BlockNumber(unit, k) = 0 THEN unit[k]
                              ELSE Open(unit[k], BlockNumber(unit, k))]

\* sample_aes_decrypt_nal_units: start code by start code.  The bytes are
\* unescaped as a whole before the first one is looked for.
OpenNalUnits(buf) ==
  LET s == Unescaped(buf)
      from[k \in 1..(Len(s) + 1)] ==
        LET code  == {p \in k..Len(s) : s[p] # "00"}
            start == IF code = {} THEN Len(s) + 1 ELSE Min(code) + 1
            end   == StartCode(s, start)
        IN IF start > Len(s) THEN SubSeq(s, k, Len(s))
           ELSE SubSeq(s, k, start - 1) \o Escaped(OpenUnit(SubSeq(s, start, end - 1))) \o from[end]
      first == StartCode(s, 1)
  IN SubSeq(s, 1, first - 1) \o from[first]

-----------------------------------------------------------------------------
(* Audio frames: the codecs differ in the header and the leader. *)

FrameLength == [h \in {"F1", "F5", "F8"} |-> CASE h = "F1" -> 1 [] h = "F5" -> 5 [] OTHER -> 8]
HeaderSize  == 1
AudioLeader == 2
AudioBlock  == 2

\* adts_get_next_frame and its siblings: the next header from k on, or 0 when
\* there is none or its frame goes beyond the bytes.
NextFrame(s, k) ==
  LET at == {p \in k..(Len(s) - HeaderSize) : s[p] \in DOMAIN FrameLength}
  IN IF at = {} \/ Min(at) + FrameLength[s[Min(at)]] - 1 > Len(s) THEN 0 ELSE Min(at)

\* Fault: a block that is cut short is decrypted as well.
EncryptedSize_RoundsUp(length) ==
  IF length > AudioLeader
  THEN ((length - AudioLeader + AudioBlock - 1) \div AudioBlock) * AudioBlock ELSE 0

\* A frame that ends within the leader has no block.
EncryptedSize(length) ==
  IF length > AudioLeader THEN ((length - AudioLeader) \div AudioBlock) * AudioBlock ELSE 0

\* The marks of a decrypted byte: itself and its block.
OpenAudio(s) ==
  LET from[k \in 1..(Len(s) + 1)] ==
        LET p     == NextFrame(s, k)
            size  == FrameLength[s[p]]
            Frame == [x \in 1..size |->
                        LET at == x - 1 - AudioLeader
                        IN IF at \in 0..(EncryptedSize(size) - 1)
                           THEN <<s[p + x - 1], at \div AudioBlock>> ELSE <<s[p + x - 1], -1>>]
        IN IF p = 0 THEN [x \in 1..(Len(s) + 1 - k) |-> <<s[k + x - 1], -1>>]
           ELSE [x \in 1..(p - k) |-> <<s[k + x - 1], -1>>] \o Frame \o from[p + size]
  IN from[1]

-----------------------------------------------------------------------------
(* Properties: the encoder's side, and what must come back from it.          *)

Bytes(s) == FlattenSeq([k \in DOMAIN s |-> IF s[k] = "S" THEN <<"00", "00", "01">> ELSE <<s[k]>>])

\* The NAL units that a text spells, and whether an encoder may make them: the
\* escapes are in place and there is no zero at the end.
Units(s) == Tail(Split(s, "S"))

Contains3(s, Test(_)) == \E k \in 1..(Len(s) - 2) : Zeros(s, k) /\ Test(k + 2)

IsVideo(s) ==
  /\ s # <<>> /\ s[1] = "S" /\ ToSet(s) \subseteq {"S"} \cup ToSet(Cycle)
  /\ \A u \in ToSet(Units(s)) :
       /\ u # <<>> /\ u[1] # "00" /\ Last(u) # "00"
       /\ ~Contains3(u, LAMBDA k : \/ u[k] \in {"00", "01", "02"}
                                   \/ u[k] = "03" /\ k < Len(u) /\ u[k + 1] \notin {"00", "01", "02", "03"})

\* What the encoder sends (Apple, HLS Sample Encryption): the blocks of long
\* slices are encrypted, and then the unit is escaped once more.
EscapedAgain(s) ==
  LET zeros[k \in 0..Len(s)] ==  \* zeros ahead of byte k + 1 since the last escape
        IF k = 0 \/ s[k] # "00" THEN 0
        ELSE (IF zeros[k - 1] = 2 THEN 0 ELSE zeros[k - 1]) + 1
  IN FlattenSeq([k \in DOMAIN s |-> IF zeros[k - 1] = 2 /\ s[k] \in {"00", "01", "02", "03"}
                                    THEN <<"03", s[k]>> ELSE <<s[k]>>])

Sent(unit) ==
  IF IsEncrypted(unit)
  THEN EscapedAgain([k \in DOMAIN unit |-> Turn(unit[k], -BlockNumber(unit, k))])
  ELSE unit

Stream(s) == FlattenSeq([i \in DOMAIN Units(s) |-> <<"00", "00", "01">> \o Sent(Units(s)[i])])

\* What the code cannot restore, as it removes the escapes of the whole buffer and
\* then looks for start codes in what is left (hls.c:1037, 1045).
StartCodes(s) == {k \in 1..(Len(s) - 2) : Zeros(s, k) /\ s[k + 2] = "01"}

\* Bytes 00 00 01 of an unencrypted unit or of the ciphertext of a slice, sent as
\* 00 00 03 01, have become a start code.  The unit falls into two there: the escape
\* does not return, and what follows is left encrypted or its blocks are counted anew.
StartCodeAppears(s) == Cardinality(StartCodes(Unescaped(Stream(s)))) # Len(Units(s))

\* An unencrypted unit has an escape that is not put back: at its end, ahead of 03,
\* or ahead of two more zeros.
EscapeIsLost(s) ==
  \E u \in ToSet(Units(s)) : /\ ~IsEncrypted(u)
                             /\ Contains3(u, LAMBDA k : /\ u[k] = "03"
                                                        /\ k = Len(u) \/ u[k + 1] = "03" \/ Zeros(u, k + 1))

\* What the encoder sent comes back as it was before the encryption, with the two
\* exceptions above: every block of a slice is opened with its own place in the
\* chain, nothing else is, and the escapes of the original, and only these, are in
\* place again.
UnitsRestored ==
  IsVideo(text) => \/ OpenNalUnits(Stream(text)) = Bytes(text)
                   \/ StartCodeAppears(text)
                   \/ EscapeIsLost(text)

\* A NAL unit that is not encrypted comes out as it went in (hls.c:1048).
UnencryptedKept ==
  IsVideo(text) /\ (\A u \in ToSet(Units(text)) : ~IsEncrypted(u)) =>
    OpenNalUnits(Stream(text)) = Stream(text)

\* The audio frames are those headers that no frame ahead of them covers, up to
\* the first whose frame is cut short.  In each of them the whole blocks behind
\* the leader are opened, in their order, and no other byte is touched.
FramesRestored ==
  LET headers == {p \in 1..(Len(text) - HeaderSize) : text[p] \in DOMAIN FrameLength}
      End(p)  == p + FrameLength[text[p]]
      Covers(p, k) == p <= k /\ k < End(p)
      Block(p, k)  == (k - p - AudioLeader) \div AudioBlock
  IN \E frames \in SUBSET headers :
       /\ \A p \in frames : End(p) <= Len(text) + 1
       /\ \A p, q \in frames : Covers(p, q) => p = q
       /\ \A h \in headers \ frames :
            \/ \E p \in frames : Covers(p, h)
            \/ \E c \in headers : /\ c <= h /\ End(c) > Len(text) + 1
                                  /\ \A p \in frames : End(p) <= c
       /\ \A k \in DOMAIN text :
            /\ OpenAudio(text)[k][1] = text[k]
            /\ LET opened == {p \in frames : /\ Covers(p, k) /\ Block(p, k) >= 0
                                            /\ p + AudioLeader + AudioBlock * (Block(p, k) + 1) <= End(p)}
               IN OpenAudio(text)[k][2] =
                    IF opened = {} THEN -1 ELSE Block(CHOOSE p \in opened : TRUE, k)

=============================================================================
