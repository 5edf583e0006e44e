-------------------------- MODULE Selection_proofs --------------------------
(***************************************************************************)
(* Proofs about Selection: for master playlists of any variants and        *)
(* renditions, lists of any length and any options.                        *)
(***************************************************************************)
EXTENDS Selection, FoldTheorems, TLAPS

-----------------------------------------------------------------------------
(* The variant: what the two loops over the list compute *)

InOrder == [i \in 1..Len(media_playlist) |-> i]

\* The loop of -b: h says for a set of positions which of them is chosen.
BestLoop(h) ==
  h = [s \in SUBSET DOMAIN InOrder |->
         IF s = {} THEN 1
         ELSE IF media_playlist[InOrder[Max(s)]].bitrate > media_playlist[h[s \ {Max(s)}]].bitrate
              THEN InOrder[Max(s)] ELSE h[s \ {Max(s)}]]

\* Step by step: after each variant the best so far.
LEMMA BestSteps ==
  ASSUME media_playlist \in Seq(Variants), media_playlist # <<>>
  PROVE  \E h : /\ Best = h[1..Len(media_playlist)] /\ h[1..0] = 1
                /\ \A k \in 1..Len(media_playlist) :
                     h[1..k] = IF media_playlist[k].bitrate > media_playlist[h[1..(k - 1)]].bitrate
                               THEN k ELSE h[1..(k - 1)]
<1> DEFINE n == Len(media_playlist)
           step == [p \in (1..n) \X (1..n) |->
                      IF media_playlist[p[1]].bitrate > media_playlist[p[2]].bitrate
                      THEN p[1] ELSE p[2]]
           h == CHOOSE it : BestLoop(it)
<1>1. n \in Nat \ {0} /\ 1 \in 1..n
  OBVIOUS
<1>2. DOMAIN InOrder = 1..n /\ \A i \in 1..n : InOrder[i] = i
  BY DEF InOrder
<1>3. step \in [(1..n) \X (1..n) -> 1..n]
  OBVIOUS
<1>4. \A x, y \in 1..n :
        step[<<x, y>>] = IF media_playlist[x].bitrate > media_playlist[y].bitrate THEN x ELSE y
  OBVIOUS
<1>5. Best = h[DOMAIN InOrder]
  BY DEF Best, FoldLeft, MapThenFoldSet, BestLoop, InOrder
<1> HIDE DEF n, step, h
<1>6. PICK f \in [SUBSET (1..n) -> 1..n] : FoldOf(f, n, 1, step)
  BY <1>1, <1>3, FoldExists
<1>7. BestLoop(f)
  <2>1. ASSUME NEW s \in SUBSET (1..n), s # {}
        PROVE  step[<<Max(s), f[s \ {Max(s)}]>>] =
                 IF media_playlist[InOrder[Max(s)]].bitrate
                      > media_playlist[f[s \ {Max(s)}]].bitrate
                 THEN InOrder[Max(s)] ELSE f[s \ {Max(s)}]
    <3>1. Max(s) \in s
      BY <1>1, <2>1, LastOff
    <3>2. Max(s) \in 1..n /\ f[s \ {Max(s)}] \in 1..n /\ InOrder[Max(s)] = Max(s)
      BY <1>2, <3>1
    <3> QED BY <1>4, <3>2
  <2> QED BY <1>2, <1>6, <2>1 DEF FoldOf, BestLoop
<1>8. BestLoop(h)
  BY <1>7 DEF h
<1>9. h[1..0] = 1
  <2>1. 1..0 = {} /\ 1..0 \in SUBSET (1..n)
    OBVIOUS
  <2> QED BY <1>2, <1>8, <2>1 DEF BestLoop
<1>10. ASSUME NEW k \in 1..n
       PROVE  h[1..k] = IF media_playlist[k].bitrate > media_playlist[h[1..(k - 1)]].bitrate
                        THEN k ELSE h[1..(k - 1)]
  <2>1. 1..k \in SUBSET (1..n) /\ 1..k # {}
    BY <1>1, LastOff
  <2>2. Max(1..k) = k /\ (1..k) \ {k} = 1..(k - 1) /\ InOrder[k] = k
    BY <1>1, <1>2, LastOff
  <2>3. h[1..k] = IF media_playlist[InOrder[Max(1..k)]].bitrate
                       > media_playlist[h[(1..k) \ {Max(1..k)}]].bitrate
                  THEN InOrder[Max(1..k)] ELSE h[(1..k) \ {Max(1..k)}]
    BY <1>2, <1>8, <2>1 DEF BestLoop
  <2> QED BY <2>2, <2>3
<1> QED BY <1>2, <1>5, <1>9, <1>10 DEF n

\* No variant has more than the chosen one.
LEMMA BestIsBest ==
  ASSUME media_playlist \in Seq(Variants), media_playlist # <<>>
  PROVE  /\ Best \in DOMAIN media_playlist
         /\ \A i \in DOMAIN media_playlist :
              media_playlist[i].bitrate <= media_playlist[Best].bitrate
<1> DEFINE n == Len(media_playlist)
<1>1. n \in Nat \ {0} /\ DOMAIN media_playlist = 1..n
  OBVIOUS
<1>2. \A i \in 1..n : media_playlist[i].bitrate \in Nat
  BY VariantsAssumption
<1>3. PICK h : /\ Best = h[1..n] /\ h[1..0] = 1
               /\ \A k \in 1..n :
                    h[1..k] = IF media_playlist[k].bitrate > media_playlist[h[1..(k - 1)]].bitrate
                              THEN k ELSE h[1..(k - 1)]
  BY BestSteps
<1> HIDE DEF n
<1> DEFINE T == {k \in Nat : k <= n =>
                   /\ h[1..k] \in 1..n
                   /\ \A i \in 1..k : media_playlist[i].bitrate <= media_playlist[h[1..k]].bitrate}
<1>4. 0 \in T
  BY <1>1, <1>3
<1>5. ASSUME NEW k \in T PROVE k + 1 \in T
  <2>1. SUFFICES ASSUME k + 1 <= n
                 PROVE  /\ h[1..(k + 1)] \in 1..n
                        /\ \A i \in 1..(k + 1) :
                             media_playlist[i].bitrate <= media_playlist[h[1..(k + 1)]].bitrate
    OBVIOUS
  <2>2. /\ k \in Nat /\ h[1..k] \in 1..n
        /\ \A i \in 1..k : media_playlist[i].bitrate <= media_playlist[h[1..k]].bitrate
    BY <1>1, <2>1
  <2>3. k + 1 \in 1..n /\ (k + 1) - 1 = k
    BY <1>1, <2>1, <2>2
  <2>4. h[1..(k + 1)] = IF media_playlist[k + 1].bitrate > media_playlist[h[1..k]].bitrate
                        THEN k + 1 ELSE h[1..k]
    BY <1>3, <2>3
  <2>5. 1..(k + 1) = (1..k) \cup {k + 1}
    BY <2>2
  <2> HIDE DEF T
  <2>6. CASE media_playlist[k + 1].bitrate > media_playlist[h[1..k]].bitrate
    <3>1. h[1..(k + 1)] = k + 1
      BY <2>4, <2>6
    <3>2. \A i \in 1..k : media_playlist[i].bitrate <= media_playlist[k + 1].bitrate
      BY <1>1, <1>2, <2>2, <2>3, <2>6
    <3> QED BY <1>2, <2>3, <2>5, <3>1, <3>2
  <2>7. CASE ~(media_playlist[k + 1].bitrate > media_playlist[h[1..k]].bitrate)
    <3>1. h[1..(k + 1)] = h[1..k]
      BY <2>4, <2>7
    <3>2. media_playlist[k + 1].bitrate <= media_playlist[h[1..k]].bitrate
      BY <1>2, <2>2, <2>3, <2>7
    <3> QED BY <2>2, <2>5, <3>1, <3>2
  <2> QED BY <2>6, <2>7
<1>6. T \in SUBSET Nat
  OBVIOUS
<1>7. n \in T
  <2> HIDE DEF T
  <2> QED BY <1>1, <1>4, <1>5, <1>6, SetInduction
<1> QED BY <1>1, <1>3, <1>7

\* The loop of -W and -H.
SizeLoop(h) ==
  h = [s \in SUBSET DOMAIN InOrder |->
         IF s = {} THEN NULL
         ELSE IF Fits(media_playlist[InOrder[Max(s)]])
                   /\ Larger(media_playlist[InOrder[Max(s)]], h[s \ {Max(s)}])
              THEN InOrder[Max(s)] ELSE h[s \ {Max(s)}]]

LEMMA SizeSteps ==
  ASSUME media_playlist \in Seq(Variants)
  PROVE  \E h : /\ LargestFitting = h[1..Len(media_playlist)] /\ h[1..0] = NULL
                /\ \A k \in 1..Len(media_playlist) :
                     h[1..k] = IF Fits(media_playlist[k]) /\ Larger(media_playlist[k], h[1..(k - 1)])
                               THEN k ELSE h[1..(k - 1)]
<1> DEFINE n == Len(media_playlist)
           V == (1..n) \cup {NULL}
           step == [p \in (1..n) \X V |->
                      IF Fits(media_playlist[p[1]]) /\ Larger(media_playlist[p[1]], p[2])
                      THEN p[1] ELSE p[2]]
           h == CHOOSE it : SizeLoop(it)
<1>1. n \in Nat /\ NULL \in V /\ 1..n \subseteq V
  OBVIOUS
<1>2. DOMAIN InOrder = 1..n /\ \A i \in 1..n : InOrder[i] = i
  BY DEF InOrder
<1>3. step \in [(1..n) \X V -> V]
  OBVIOUS
<1>4. \A x \in 1..n : \A y \in V :
        step[<<x, y>>] = IF Fits(media_playlist[x]) /\ Larger(media_playlist[x], y) THEN x ELSE y
  OBVIOUS
<1>5. LargestFitting = h[DOMAIN InOrder]
  BY DEF LargestFitting, FoldLeft, MapThenFoldSet, SizeLoop, InOrder
<1> HIDE DEF n, V, step, h
<1>6. PICK f \in [SUBSET (1..n) -> V] : FoldOf(f, n, NULL, step)
  BY <1>1, <1>3, FoldExists
<1>7. SizeLoop(f)
  <2>1. ASSUME NEW s \in SUBSET (1..n), s # {}
        PROVE  step[<<Max(s), f[s \ {Max(s)}]>>] =
                 IF Fits(media_playlist[InOrder[Max(s)]])
                      /\ Larger(media_playlist[InOrder[Max(s)]], f[s \ {Max(s)}])
                 THEN InOrder[Max(s)] ELSE f[s \ {Max(s)}]
    <3>1. Max(s) \in s
      BY <1>1, <2>1, LastOff
    <3>2. Max(s) \in 1..n /\ f[s \ {Max(s)}] \in V /\ InOrder[Max(s)] = Max(s)
      BY <1>2, <3>1
    <3> QED BY <1>4, <3>2
  <2> QED BY <1>2, <1>6, <2>1 DEF FoldOf, SizeLoop
<1>8. SizeLoop(h)
  BY <1>7 DEF h
<1>9. h[1..0] = NULL
  <2>1. 1..0 = {} /\ 1..0 \in SUBSET (1..n)
    OBVIOUS
  <2> QED BY <1>2, <1>8, <2>1 DEF SizeLoop
<1>10. ASSUME NEW k \in 1..n
       PROVE  h[1..k] = IF Fits(media_playlist[k]) /\ Larger(media_playlist[k], h[1..(k - 1)])
                        THEN k ELSE h[1..(k - 1)]
  <2>1. 1..k \in SUBSET (1..n) /\ 1..k # {}
    BY <1>1, LastOff
  <2>2. Max(1..k) = k /\ (1..k) \ {k} = 1..(k - 1) /\ InOrder[k] = k
    BY <1>1, <1>2, LastOff
  <2>3. h[1..k] = IF Fits(media_playlist[InOrder[Max(1..k)]])
                       /\ Larger(media_playlist[InOrder[Max(1..k)]], h[(1..k) \ {Max(1..k)}])
                  THEN InOrder[Max(1..k)] ELSE h[(1..k) \ {Max(1..k)}]
    BY <1>2, <1>8, <2>1 DEF SizeLoop
  <2> QED BY <2>2, <2>3
<1> QED BY <1>2, <1>5, <1>9, <1>10 DEF n

\* What the loop of -W and -H has chosen of the first k variants.
Chosen(c, k) ==
  /\ c \in (1..k) \cup {NULL}
  /\ c = NULL <=> \A i \in 1..k : ~Fits(media_playlist[i])
  /\ c # NULL =>
       /\ Fits(media_playlist[c])
       /\ options.maxheight = -1 => \A i \in 1..k : Fits(media_playlist[i]) =>
            media_playlist[i].width <= media_playlist[c].width
       /\ options.maxwidth = -1 => \A i \in 1..k : Fits(media_playlist[i]) =>
            media_playlist[i].height <= media_playlist[c].height

LEMMA ChosenNext ==
  ASSUME media_playlist \in Seq(Variants), BySize, NEW k \in Nat, k + 1 <= Len(media_playlist),
         NEW c, Chosen(c, k)
  PROVE  Chosen(IF Fits(media_playlist[k + 1]) /\ Larger(media_playlist[k + 1], c)
                THEN k + 1 ELSE c, k + 1)
<1> DEFINE m(i) == media_playlist[i]
           d == IF Fits(m(k + 1)) /\ Larger(m(k + 1), c) THEN k + 1 ELSE c
<1>1. /\ \A i \in 1..(k + 1) : m(i) \in Variants
      /\ 1..(k + 1) = (1..k) \cup {k + 1} /\ k + 1 \notin 1..k
  OBVIOUS
<1>2. \A i \in 1..(k + 1) : Fits(m(i)) => m(i).width \in Int /\ m(i).height \in Int
  BY <1>1, VariantsAssumption DEF Fits
<1>3. c = NULL \/ (c # NULL /\ c \in 1..k /\ Fits(m(c)))
  BY DEF Chosen
<1> HIDE DEF m
<1>4. CASE Fits(m(k + 1)) /\ Larger(m(k + 1), c)
  <2>1. d = k + 1 /\ d # NULL /\ d \in 1..(k + 1)
    BY <1>4, NullAssumption
  <2>2. ASSUME options.maxheight = -1, NEW i \in 1..(k + 1), Fits(m(i))
        PROVE  m(i).width <= m(k + 1).width
    <3>1. CASE c = NULL
      <4>1. i = k + 1
        BY <1>1, <2>2, <3>1 DEF Chosen, m
      <4> QED BY <1>2, <2>2, <4>1
    <3>2. CASE c # NULL
      <4>1. m(c).width < m(k + 1).width
        BY <1>1, <1>2, <1>3, <1>4, <2>2, <3>2 DEF Larger, BySize, m
      <4>2. CASE i \in 1..k
        <5>1. m(i).width <= m(c).width
          BY <2>2, <3>2, <4>2 DEF Chosen, m
        <5> QED BY <1>1, <1>2, <1>3, <1>4, <2>2, <3>2, <4>1, <5>1
      <4>3. CASE i = k + 1
        BY <1>2, <2>2, <4>3
      <4> QED BY <1>1, <4>2, <4>3
    <3> QED BY <3>1, <3>2
  <2>3. ASSUME options.maxwidth = -1, NEW i \in 1..(k + 1), Fits(m(i))
        PROVE  m(i).height <= m(k + 1).height
    <3>1. CASE c = NULL
      <4>1. i = k + 1
        BY <1>1, <2>3, <3>1 DEF Chosen, m
      <4> QED BY <1>2, <2>3, <4>1
    <3>2. CASE c # NULL
      <4>1. m(c).height < m(k + 1).height
        BY <1>1, <1>2, <1>3, <1>4, <2>3, <3>2 DEF Larger, BySize, m
      <4>2. CASE i \in 1..k
        <5>1. m(i).height <= m(c).height
          BY <2>3, <3>2, <4>2 DEF Chosen, m
        <5> QED BY <1>1, <1>2, <1>3, <1>4, <2>3, <3>2, <4>1, <5>1
      <4>3. CASE i = k + 1
        BY <1>2, <2>3, <4>3
      <4> QED BY <1>1, <4>2, <4>3
    <3> QED BY <3>1, <3>2
  <2> HIDE DEF d
  <2>4. Chosen(d, k + 1)
    BY <1>1, <1>4, <2>1, <2>2, <2>3 DEF Chosen, m
  <2> QED BY <2>4 DEF d, m
<1>5. CASE ~(Fits(m(k + 1)) /\ Larger(m(k + 1), c))
  <2>1. d = c
    BY <1>5
  <2>2. CASE c = NULL
    <3>1. ~Fits(m(k + 1))
      BY <1>5, <2>2 DEF Larger
    <3> QED BY <1>1, <2>1, <2>2, <3>1 DEF Chosen, m
  <2>3. CASE c # NULL
    <3>1. c \in 1..k /\ c \in 1..(k + 1) /\ Fits(m(c))
      BY <1>1, <1>3, <2>3
    <3>2. /\ options.maxheight = -1 /\ Fits(m(k + 1)) => m(k + 1).width <= m(c).width
          /\ options.maxwidth = -1 /\ Fits(m(k + 1)) => m(k + 1).height <= m(c).height
      BY <1>1, <1>2, <1>5, <2>3, <3>1 DEF Larger, BySize, m
    <3> HIDE DEF d
    <3>3. Chosen(c, k + 1)
      BY <1>1, <2>3, <3>1, <3>2 DEF Chosen, m
    <3> QED BY <2>1, <3>3 DEF d, m
  <2> QED BY <2>2, <2>3
<1> QED BY <1>4, <1>5

\* A variant is chosen when one fits, and where one dimension is given none that
\* fits is larger in it.
LEMMA LargestIsLargest ==
  ASSUME media_playlist \in Seq(Variants), BySize
  PROVE  Chosen(LargestFitting, Len(media_playlist))
<1> DEFINE n == Len(media_playlist)
<1>1. n \in Nat
  OBVIOUS
<1>2. PICK h : /\ LargestFitting = h[1..n] /\ h[1..0] = NULL
               /\ \A k \in 1..n :
                    h[1..k] = IF Fits(media_playlist[k]) /\ Larger(media_playlist[k], h[1..(k - 1)])
                              THEN k ELSE h[1..(k - 1)]
  BY SizeSteps
<1> DEFINE T == {k \in Nat : k <= n => Chosen(h[1..k], k)}
<1>3. 0 \in T
  <2>1. Chosen(NULL, 0)
    BY DEF Chosen
  <2> QED BY <1>2, <2>1
<1>4. ASSUME NEW k \in T PROVE k + 1 \in T
  <2>1. k \in Nat
    OBVIOUS
  <2>2. ASSUME k + 1 <= n PROVE Chosen(h[1..(k + 1)], k + 1)
    <3>1. k + 1 \in 1..n /\ (k + 1) - 1 = k /\ k <= n
      BY <1>1, <2>1, <2>2
    <3>2. h[1..(k + 1)] = IF Fits(media_playlist[k + 1]) /\ Larger(media_playlist[k + 1], h[1..k])
                          THEN k + 1 ELSE h[1..k]
      BY <1>2, <3>1
    <3>3. Chosen(h[1..k], k)
      BY <3>1
    <3> HIDE DEF T
    <3> QED BY <2>1, <2>2, <3>2, <3>3, ChosenNext
  <2> QED BY <2>1, <2>2
<1>5. T \in SUBSET Nat
  OBVIOUS
<1>6. n \in T
  <2> HIDE DEF T, n
  <2> QED BY <1>1, <1>3, <1>4, <1>5, SetInduction
<1> QED BY <1>1, <1>2, <1>6

-----------------------------------------------------------------------------
(* The invariant *)

TypeOK ==
  /\ options \in [use_best : BOOLEAN, maxwidth : Widths, maxheight : Heights,
                  audiolang : Languages \cup {NULL}, audio_url : BOOLEAN]
  /\ media_playlist \in Seq(Variants)
  /\ audio \in Seq(Renditions)
  /\ pc \in {"open", "choose", "audio", "open_audio", "parse", "end"}
  /\ selected \in {NULL} \cup DOMAIN media_playlist

\* How far the choice is: a variant before a rendition, and nothing chosen before
\* the list is known to have a variant.
Progress ==
  /\ pc \in {"open", "choose"} => selected = NULL /\ selected_audio = NULL
  /\ pc = "choose" => media_playlist # <<>>
  /\ pc = "audio" => selected # NULL /\ selected_audio = NULL

\* The chosen variant is the best of the list, or a largest of those that fit.
SelectedIsLargest ==
  selected # NULL =>
    /\ options.use_best => \A i \in DOMAIN media_playlist :
         media_playlist[i].bitrate <= media_playlist[selected].bitrate
    /\ ~options.use_best /\ BySize => Chosen(selected, Len(media_playlist))

SelectionInv == TypeOK /\ Progress /\ SelectedIsLargest

LEMMA ListsAreSeqs == ASSUME NEW S, NEW n \in Nat PROVE Lists(S, n) \subseteq Seq(S)
BY DEF Lists

\* main opens a playlist with nothing chosen, which satisfies the invariant.
THEOREM SelectionStart == Init => SelectionInv
<1>1. SUFFICES ASSUME Init PROVE SelectionInv
  OBVIOUS
<1>2. media_playlist \in Seq(Variants) /\ audio \in Seq(Renditions)
  BY <1>1, ListsAreSeqs, BoundsAssumption DEF Init
<1> QED BY <1>1, <1>2 DEF Init, SelectionInv, TypeOK, Progress, SelectedIsLargest

\* Each look at a variant or a rendition, and each choice, keeps the best so far.
THEOREM SelectionStep == SelectionInv /\ [Next]_vars => SelectionInv'
<1> SUFFICES ASSUME SelectionInv, [Next]_vars PROVE SelectionInv'
  OBVIOUS
<1> USE DEF SelectionInv
<1>1. ASSUME UNCHANGED <<options, media_playlist, audio, selected>>
      PROVE  SelectedIsLargest'
  BY <1>1 DEF SelectedIsLargest, BySize, Chosen, Fits
<1>2. CASE OpenFails
  BY <1>1, <1>2 DEF OpenFails, Exit, TypeOK, Progress
<1>3. CASE OpenMedia
  BY <1>1, <1>3 DEF OpenMedia, Goto, TypeOK, Progress
<1>4. CASE OpenMaster
  BY <1>1, <1>4 DEF OpenMaster, Exit, Goto, TypeOK, Progress
<1>5. CASE ChooseBest
  <2>1. /\ selected' \in DOMAIN media_playlist /\ selected' = Best
        /\ \A i \in DOMAIN media_playlist :
             media_playlist[i].bitrate <= media_playlist[selected'].bitrate
    BY <1>5, BestIsBest DEF ChooseBest, TypeOK, Progress
  <2>2. selected' # NULL
    BY <2>1, NullAssumption DEF TypeOK
  <2> QED BY <1>5, <2>1, <2>2 DEF ChooseBest, Goto, TypeOK, Progress, SelectedIsLargest
<1>6. CASE ChooseBySize
  <2>1. selected' = LargestFitting /\ Chosen(selected', Len(media_playlist))
    BY <1>6, LargestIsLargest DEF ChooseBySize, TypeOK
  <2>2. selected' \in {NULL} \cup DOMAIN media_playlist
    BY <2>1 DEF Chosen, TypeOK
  <2>3. UNCHANGED <<options, media_playlist, audio, selected_audio>>
    BY <1>6 DEF ChooseBySize, Exit, Goto
  <2>4. TypeOK' /\ Progress'
    BY <1>6, <2>2, <2>3 DEF ChooseBySize, Exit, Goto, TypeOK, Progress
  <2>5. SelectedIsLargest'
    BY <1>6, <2>1, <2>3 DEF ChooseBySize, SelectedIsLargest, Chosen, Fits
  <2> QED BY <2>4, <2>5
<1>7. CASE ChooseAsked
  <2>1. UNCHANGED <<options, media_playlist, audio, selected_audio>>
    BY <1>7 DEF ChooseAsked, Exit, Goto
  <2>2. selected' \in DOMAIN media_playlist => selected' # NULL
    BY NullAssumption DEF TypeOK
  <2>3. TypeOK' /\ Progress'
    BY <1>7, <2>1, <2>2 DEF ChooseAsked, Exit, Goto, TypeOK, Progress
  <2>4. SelectedIsLargest'
    BY <1>7, <2>1 DEF ChooseAsked, SelectedIsLargest, BySize
  <2> QED BY <2>3, <2>4
<1>8. CASE AudioNone
  BY <1>1, <1>8 DEF AudioNone, Goto, TypeOK, Progress
<1>9. CASE AudioOnly
  BY <1>1, <1>9 DEF AudioOnly, Goto, TypeOK, Progress
<1>10. CASE AudioSuiting
  BY <1>1, <1>10 DEF AudioSuiting, Goto, TypeOK, Progress
<1>11. CASE AudioAsked
  BY <1>1, <1>11 DEF AudioAsked, Exit, Goto, TypeOK, Progress
<1>12. CASE OpenAudio
  BY <1>1, <1>12 DEF OpenAudio, Exit, Goto, TypeOK, Progress
<1>13. CASE ParseFails
  BY <1>1, <1>13 DEF ParseFails, Exit, TypeOK, Progress
<1>14. CASE Record
  BY <1>1, <1>14 DEF Record, TypeOK, Progress
<1>15. CASE UNCHANGED vars
  BY <1>1, <1>15 DEF vars, TypeOK, Progress
<1> QED
  BY <1>2, <1>3, <1>4, <1>5, <1>6, <1>7, <1>8, <1>9, <1>10, <1>11, <1>12, <1>13, <1>14, <1>15
  DEF Next

\* -b records the best variant; -W and -H record a largest one that fits, and give
\* up only when none does.
THEOREM VariantAlwaysLargest == Spec => []VariantIsLargest
<1>1. SelectionInv => VariantIsLargest
  <2> SUFFICES ASSUME SelectionInv PROVE VariantIsLargest
    OBVIOUS
  <2> USE DEF SelectionInv
  <2> DEFINE n == Len(media_playlist)
             v == media_playlist[selected]
  <2>1. n \in Nat /\ DOMAIN media_playlist = 1..n
    BY DEF TypeOK
  <2>2. selected # NULL /\ options.use_best =>
          \A i \in DOMAIN media_playlist : media_playlist[i].bitrate <= v.bitrate
    BY DEF SelectedIsLargest
  <2>3. ASSUME selected # NULL, ~options.use_best, BySize
        PROVE  /\ selected \in Fitting
               /\ options.maxheight = -1 => \A i \in Fitting : media_playlist[i].width <= v.width
               /\ options.maxwidth = -1 => \A i \in Fitting : media_playlist[i].height <= v.height
    <3>1. Chosen(selected, n)
      BY <2>3 DEF SelectedIsLargest
    <3> QED BY <2>1, <2>3, <3>1 DEF Chosen, Fitting, TypeOK
  <2>4. ASSUME BySize PROVE LargestFitting = NULL <=> Fitting = {}
    <3>1. Chosen(LargestFitting, n)
      BY <2>4, LargestIsLargest DEF TypeOK
    <3> QED BY <2>1, <3>1 DEF Chosen, Fitting
  <2> HIDE DEF SelectionInv
  <2> QED BY <2>2, <2>3, <2>4 DEF VariantIsLargest
<1> QED BY <1>1, SelectionStart, SelectionStep, PTL DEF Spec

-----------------------------------------------------------------------------
(* The rendition *)

\* The positions are those of a list: finitely many, the first of them its least.
LEMMA GroupFinite ==
  ASSUME audio \in Seq(Renditions)
  PROVE  /\ Group \subseteq Nat /\ IsFiniteSet(Group) /\ Cardinality(Group) \in Nat
         /\ Group = {} <=> Cardinality(Group) = 0
         /\ Suiting # {} => Min(Suiting) \in Suiting
<1>1. DOMAIN audio = 1..Len(audio) /\ Len(audio) \in Nat
  OBVIOUS
<1>2. IsFiniteSet(DOMAIN audio)
  BY <1>1, FS_Interval
<1>3. Group \in SUBSET DOMAIN audio /\ Suiting \in SUBSET DOMAIN audio
  BY DEF Group, Suiting
<1>4. IsFiniteSet(Group) /\ IsFiniteSet(Suiting)
  BY <1>2, <1>3, FS_Subset
<1>5. Group \in SUBSET Nat /\ Suiting \in SUBSET Nat
  BY <1>1, <1>3
<1>6. Cardinality(Group) \in Nat /\ (Group = {} <=> Cardinality(Group) = 0)
  BY <1>4, FS_CardinalityType, FS_EmptySet
<1>7. Suiting # {} => Min(Suiting) \in Suiting
  BY <1>4, <1>5, MaxOfFinite
<1> QED BY <1>4, <1>5, <1>6, <1>7

\* The rendition is of the group of the variant, whether it was the only one, the
\* first that suits the options, or the one asked for.
THEOREM AudioAlwaysMatches == Spec => []AudioMatches
<1>1. Init => AudioMatches
  BY DEF Init, AudioMatches
<1>2. SelectionInv /\ AudioMatches /\ [Next]_vars => AudioMatches'
  <2> SUFFICES ASSUME SelectionInv, AudioMatches, [Next]_vars PROVE AudioMatches'
    OBVIOUS
  <2>1. /\ Group \subseteq Nat /\ Cardinality(Group) \in Nat
        /\ Group = {} <=> Cardinality(Group) = 0
        /\ Suiting # {} => Min(Suiting) \in Suiting
        /\ NULL \notin Group
    BY GroupFinite, NullAssumption DEF SelectionInv, TypeOK
  <2>2. CASE OpenFails \/ OpenMedia \/ OpenMaster
    BY <2>2 DEF OpenFails, OpenMedia, OpenMaster, Exit, Goto, SelectionInv, Progress, AudioMatches
  <2>3. CASE ChooseBest \/ ChooseBySize \/ ChooseAsked
    BY <2>3 DEF ChooseBest, ChooseBySize, ChooseAsked, Exit, Goto, AudioMatches
  <2>4. ASSUME UNCHANGED <<options, media_playlist, audio, selected>>
        PROVE  Group' = Group
    BY <2>4 DEF Group
  <2>5. CASE AudioNone
    <3>1. Group' = Group /\ selected_audio' = NULL
      BY <2>4, <2>5 DEF AudioNone, Goto, SelectionInv, Progress
    <3> QED BY <2>1, <2>5, <3>1 DEF AudioNone, AudioMatches
  <2>6. CASE AudioOnly
    <3>1. Group' = Group /\ selected_audio' \in Group
      BY <2>4, <2>6 DEF AudioOnly, Goto
    <3>2. ~(Cardinality(Group) > 1)
      BY <2>6 DEF AudioOnly
    <3> QED BY <2>1, <3>1, <3>2 DEF AudioMatches
  <2>7. CASE AudioSuiting
    <3>1. /\ Group' = Group /\ selected_audio' \in Suiting
          /\ UNCHANGED <<options, media_playlist, audio, selected>>
      BY <2>1, <2>4, <2>7 DEF AudioSuiting, Goto
    <3>2. /\ selected_audio' \in Group
          /\ \/ options.use_best /\ audio[selected_audio'].is_default
             \/ options.audiolang # NULL /\ audio[selected_audio'].lang = options.audiolang
      BY <3>1 DEF Suiting, Suits
    <3> QED BY <2>1, <3>1, <3>2 DEF AudioMatches
  <2>8. CASE AudioAsked
    <3>1. /\ Group' = Group /\ UNCHANGED <<options, media_playlist, audio, selected>>
          /\ selected_audio' \in Group \/ pc' = "end"
      BY <2>4, <2>8 DEF AudioAsked, Goto, Exit
    <3>2. \A i \in Group : /\ ~(options.use_best /\ audio[i].is_default)
                           /\ ~(options.audiolang # NULL /\ audio[i].lang = options.audiolang)
      BY <2>8 DEF AudioAsked, Suiting, Suits, Group
    <3> QED BY <2>1, <3>1, <3>2 DEF AudioMatches
  <2>9. CASE OpenAudio \/ ParseFails \/ Record \/ UNCHANGED vars
    <3>1. /\ Group' = Group /\ UNCHANGED <<options, audio, selected, selected_audio>>
          /\ pc' \in {"open_audio", "parse"} => pc \in {"open_audio", "parse"}
      BY <2>4, <2>9 DEF OpenAudio, ParseFails, Record, Exit, Goto, vars
    <3> QED BY <3>1 DEF AudioMatches
  <2> QED BY <2>2, <2>3, <2>5, <2>6, <2>7, <2>8, <2>9 DEF Next
<1> QED BY <1>1, <1>2, SelectionStart, SelectionStep, PTL DEF Spec

=============================================================================
