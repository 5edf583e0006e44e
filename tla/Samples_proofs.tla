--------------------------- MODULE Samples_proofs ---------------------------
(***************************************************************************)
(* Proofs about Conversions, UrlResolution and Samples: what the scans over *)
(* a text do, for texts of any length: the rewriting of repl_str, the       *)
(* attribute lists, the numbers, the completion of addresses, the audio     *)
(* frames and the NAL units with their escapes.  Each is an induction over  *)
(* the positions of the text, from its end or, for the numbers and the      *)
(* addresses, from its start; of the texts that would break the rules of    *)
(* the escapes, a shortest one is shown not to exist.                       *)
(***************************************************************************)
EXTENDS Samples, FoldTheorems

\* The characters typed are some text.
LEMMA Typed == Spec => [](text \in Seq(STRING))
<1> DEFINE Inv == alphabet \in Alphabets /\ text \in Seq(STRING)
<1>1. Init => Inv
  BY DEF Init
<1>2. Inv /\ [Next]_<<alphabet, text>> => Inv'
  <2> SUFFICES ASSUME Inv, [Next]_<<alphabet, text>> PROVE Inv'
    OBVIOUS
  <2>1. CASE Next
    <3>1. PICK c \in alphabet.chars : Type(c)
      BY <2>1 DEF Next
    <3>2. c \in STRING
      BY AlphabetsAssumption
    <3> QED BY <3>1, <3>2 DEF Type
  <2>2. CASE UNCHANGED <<alphabet, text>>
    BY <2>2
  <2> QED BY <2>1, <2>2
<1>3. Inv => text \in Seq(STRING)
  OBVIOUS
<1> QED BY <1>1, <1>2, <1>3, PTL DEF Spec

-----------------------------------------------------------------------------
(* The matches of repl_str *)

MatchesFrom(s, k) == {j \in k..Len(s) : Match(s, j)}

\* f has the matches that the search finds from each position on.
Finds(f, s) ==
  \A k \in 1..(Len(s) + 1) :
    /\ f[k] \in Seq(1..Len(s))
    /\ f[k] = IF MatchesFrom(s, k) = {} THEN <<>>
              ELSE <<Min(MatchesFrom(s, k))>> \o f[Min(MatchesFrom(s, k)) + Len(From)]

LEMMA FirstMatch ==
  ASSUME NEW s \in Seq(STRING), NEW k \in 1..(Len(s) + 1), MatchesFrom(s, k) # {}
  PROVE  LET m == Min(MatchesFrom(s, k))
         IN /\ m \in 1..Len(s) /\ m \in k..Len(s) /\ Match(s, m)
            /\ m + Len(From) \in (k + 1)..(Len(s) + 1)
            /\ \A j \in k..Len(s) : Match(s, j) => m <= j
<1> DEFINE m == Min(MatchesFrom(s, k))
<1>1. MatchesFrom(s, k) \in SUBSET Nat /\ IsFiniteSet(MatchesFrom(s, k))
  <2>1. MatchesFrom(s, k) \subseteq k..Len(s) /\ k \in Int /\ Len(s) \in Int
    BY DEF MatchesFrom
  <2>2. IsFiniteSet(k..Len(s))
    BY <2>1, FS_Interval
  <2>3. IsFiniteSet(MatchesFrom(s, k))
    BY <2>1, <2>2, FS_Subset
  <2>4. k..Len(s) \subseteq Nat
    OBVIOUS
  <2> QED BY <2>1, <2>3, <2>4
<1>2. m \in MatchesFrom(s, k) /\ \A y \in MatchesFrom(s, k) : m <= y
  BY <1>1, MaxOfFinite
<1> HIDE DEF m
<1>3. m \in k..Len(s) /\ Match(s, m) /\ m \in 1..Len(s)
  BY <1>2 DEF MatchesFrom
<1>4. Len(From) \in Nat \ {0}
  BY FromToAssumption
<1>5. m + Len(From) \in (k + 1)..(Len(s) + 1)
  BY <1>3, <1>4 DEF Match
<1>6. \A j \in k..Len(s) : Match(s, j) => m <= j
  BY <1>2 DEF MatchesFrom
<1> QED BY <1>3, <1>5, <1>6 DEF m

LEMMA MatchesFound ==
  ASSUME NEW s \in Seq(STRING)
  PROVE  \E f : Finds(f, s) /\ Matches(s) = f[1]
<1> DEFINE n == Len(s) + 1
           V == Seq(1..Len(s))
           base == [k \in 1..n |-> <<>>]
           step == [x \in (1..n) \X V |-> <<Min(MatchesFrom(s, x[1]))>> \o x[2]]
           next == [k \in 1..n |-> Min(MatchesFrom(s, k)) + Len(From)]
           ends == {k \in 1..n : MatchesFrom(s, k) = {}}
           Loop(g) == g = [k \in 1..n |->
             LET at == {j \in k..Len(s) : Match(s, j)}
             IN IF at = {} THEN <<>> ELSE <<Min(at)>> \o g[Min(at) + Len(From)]]
           F == CHOOSE g : Loop(g)
<1>1. n \in Nat /\ n = Len(s) + 1
  OBVIOUS
<1>2. ASSUME NEW k \in 1..n, k \notin ends
      PROVE  Min(MatchesFrom(s, k)) \in 1..Len(s) /\ next[k] \in (k + 1)..n
  <2>1. MatchesFrom(s, k) # {}
    BY <1>2
  <2>2. next[k] = Min(MatchesFrom(s, k)) + Len(From)
    OBVIOUS
  <2> QED BY <2>1, <2>2, FirstMatch
<1>3. base \in [1..n -> V] /\ \A k \in 1..n : base[k] = <<>>
  OBVIOUS
<1>4. \A k \in 1..n : next[k] = Min(MatchesFrom(s, k)) + Len(From)
  OBVIOUS
<1>5. \A k \in 1..n : k \in ends <=> MatchesFrom(s, k) = {}
  OBVIOUS
<1> DEFINE put == [x \in (1..n) \X V |-> IF x[1] \in ends THEN <<>> ELSE step[x]]
<1>6. put \in [(1..n) \X V -> V]
  <2>1. <<>> \in V /\ \A i \in 1..Len(s) : \A w \in V : <<i>> \o w \in V
    OBVIOUS
  <2> HIDE DEF V, ends, n
  <2>2. ASSUME NEW x \in (1..n) \X V, x[1] \notin ends PROVE step[x] \in V
    <3>1. x[1] \in 1..n /\ x[2] \in V
      OBVIOUS
    <3>2. Min(MatchesFrom(s, x[1])) \in 1..Len(s)
      BY <1>2, <2>2, <3>1
    <3> QED BY <2>1, <3>1, <3>2
  <2> QED BY <2>1, <2>2
<1>7. \A k \in 1..n : k \notin ends => \A w \in V : put[<<k, w>>] = <<Min(MatchesFrom(s, k))>> \o w
  OBVIOUS
<1> HIDE DEF base, step, next, ends, put, n
<1>8. PICK g \in [1..n -> V] : Jumps(g, n, ends, base, put, next)
  <2>1. Forward(n, ends, next)
    BY <1>2 DEF Forward
  <2> QED BY <1>1, <1>3, <1>6, <2>1, JumpRecursion
<1>9. Loop(g)
  <2>1. ASSUME NEW k \in 1..n
        PROVE  g[k] = IF MatchesFrom(s, k) = {} THEN <<>>
                      ELSE <<Min(MatchesFrom(s, k))>> \o g[Min(MatchesFrom(s, k)) + Len(From)]
    <3>1. g[k] = IF k \in ends THEN base[k] ELSE put[<<k, g[next[k]]>>]
      BY <1>8 DEF Jumps
    <3>2. CASE k \in ends
      BY <1>3, <1>5, <3>1, <3>2
    <3>3. CASE k \notin ends
      <4>1. next[k] \in 1..n
        BY <1>1, <1>2, <3>3
      <4>2. g[next[k]] \in V
        BY <4>1
      <4> QED BY <1>4, <1>5, <1>7, <3>1, <3>3, <4>2
    <3> QED BY <3>2, <3>3
  <2> HIDE DEF V
  <2> QED BY <2>1, <1>1 DEF MatchesFrom
<1>10. Loop(F)
  BY <1>9
<1>11. Matches(s) = F[1]
  BY <1>1 DEF Matches
<1> HIDE DEF F
<1>12. \A k \in 1..n : F[k] = IF MatchesFrom(s, k) = {} THEN <<>>
                    ELSE <<Min(MatchesFrom(s, k))>> \o F[Min(MatchesFrom(s, k)) + Len(From)]
  BY <1>10 DEF MatchesFrom
<1> HIDE DEF Loop
<1> DEFINE T == {k \in 1..n : F[k] \in V}
<1>13. ASSUME NEW k \in 1..n, \A j \in 1..n : j > k => j \in T PROVE k \in T
  <2>1. CASE MatchesFrom(s, k) = {}
    <3>1. F[k] = <<>>
      BY <1>12, <2>1
    <3>2. <<>> \in V
      OBVIOUS
    <3> QED BY <3>1, <3>2
  <2>2. CASE MatchesFrom(s, k) # {}
    <3> DEFINE m == Min(MatchesFrom(s, k))
               l == next[k]
    <3>1. k \notin ends
      BY <1>5, <2>2
    <3>2. m \in 1..Len(s) /\ l \in (k + 1)..n
      BY <1>2, <3>1
    <3>3. l \in 1..n /\ l > k
      BY <1>1, <3>2
    <3>4. F[l] \in V
      BY <1>13, <3>3
    <3>5. F[k] = <<m>> \o F[l]
      BY <1>4, <1>12, <2>2
    <3> HIDE DEF m, l
    <3>6. <<m>> \in V
      BY <3>2
    <3>7. <<m>> \o F[l] \in V
      BY <3>4, <3>6
    <3> QED BY <3>5, <3>7
  <2> QED BY <2>1, <2>2
<1>14. T = 1..n
  <2>1. T \in SUBSET (1..n)
    OBVIOUS
  <2> HIDE DEF T
  <2> QED BY <1>1, <1>13, <2>1, DownInduction
<1>15. Finds(F, s)
  BY <1>1, <1>12, <1>14 DEF Finds
<1> QED BY <1>11, <1>15

LEMMA FoundOnTheWay ==
  ASSUME NEW s \in Seq(STRING), NEW f, Finds(f, s)
  PROVE  /\ f[Len(s) + 1] = <<>>
         /\ \A k \in 1..Len(s) :
              IF Match(s, k) THEN /\ k + Len(From) \in (k + 1)..(Len(s) + 1)
                                  /\ f[k] = <<k>> \o f[k + Len(From)]
              ELSE f[k] = f[k + 1]
         /\ \A k \in 1..(Len(s) + 1) : f[k] # <<>> => f[k][1] \in k..Len(s)
<1>1. f[Len(s) + 1] = <<>>
  <2>1. MatchesFrom(s, Len(s) + 1) = {} /\ Len(s) + 1 \in 1..(Len(s) + 1)
    BY DEF MatchesFrom
  <2> QED BY <2>1 DEF Finds
<1>2. ASSUME NEW k \in 1..Len(s), Match(s, k)
      PROVE  k + Len(From) \in (k + 1)..(Len(s) + 1) /\ f[k] = <<k>> \o f[k + Len(From)]
  <2>1. k \in 1..(Len(s) + 1) /\ k \in k..Len(s)
    OBVIOUS
  <2>2. MatchesFrom(s, k) # {}
    BY <1>2, <2>1 DEF MatchesFrom
  <2> DEFINE m == Min(MatchesFrom(s, k))
  <2>3. m \in k..Len(s) /\ m <= k /\ m + Len(From) \in (k + 1)..(Len(s) + 1)
    BY <1>2, <2>1, <2>2, FirstMatch
  <2>4. f[k] = <<m>> \o f[m + Len(From)]
    BY <2>1, <2>2 DEF Finds
  <2> HIDE DEF m
  <2>5. m = k
    BY <2>3
  <2> QED BY <2>3, <2>4, <2>5
<1>3. ASSUME NEW k \in 1..Len(s), ~Match(s, k) PROVE f[k] = f[k + 1]
  <2>1. \A j \in k..Len(s) : j = k \/ j \in (k + 1)..Len(s)
    OBVIOUS
  <2>2. MatchesFrom(s, k) = MatchesFrom(s, k + 1)
    BY <1>3, <2>1 DEF MatchesFrom
  <2>3. k \in 1..(Len(s) + 1) /\ k + 1 \in 1..(Len(s) + 1)
    OBVIOUS
  <2> DEFINE M == MatchesFrom(s, k)
             e == IF M = {} THEN <<>> ELSE <<Min(M)>> \o f[Min(M) + Len(From)]
  <2>4. f[k] = e
    BY <2>3 DEF Finds
  <2>5. f[k + 1] = e
    BY <2>2, <2>3 DEF Finds
  <2> HIDE DEF e
  <2> QED BY <2>4, <2>5
<1>4. ASSUME NEW k \in 1..(Len(s) + 1), f[k] # <<>> PROVE f[k][1] \in k..Len(s)
  <2>1. MatchesFrom(s, k) # {}
    BY <1>4 DEF Finds
  <2> DEFINE m == Min(MatchesFrom(s, k))
             l == m + Len(From)
  <2>2. m \in 1..Len(s) /\ m \in k..Len(s) /\ l \in (k + 1)..(Len(s) + 1)
    BY <2>1, FirstMatch
  <2>3. f[k] = <<m>> \o f[l]
    BY <2>1 DEF Finds
  <2> HIDE DEF m, l
  <2>4. f[l] \in Seq(1..Len(s))
    <3>1. l \in 1..(Len(s) + 1)
      BY <2>2
    <3> QED BY <3>1 DEF Finds
  <2>5. (<<m>> \o f[l])[1] = m
    BY <2>2, <2>4
  <2> QED BY <2>2, <2>3, <2>5
<1> QED BY <1>1, <1>2, <1>3, <1>4

-----------------------------------------------------------------------------
(* The text with the pieces put in *)

\* The piece behind the i-th match, and the text from k on, which has matches at.
PieceBehind(s, at, i) ==
  SubSeq(s, at[i] + Len(From), IF i = Len(at) THEN Len(s) ELSE at[i + 1] - 1)

Pieces(s, at) == [i \in DOMAIN at |-> To \o PieceBehind(s, at, i)]

Spelled(s, at, k) ==
  IF at = <<>> THEN SubSeq(s, k, Len(s))
  ELSE SubSeq(s, k, at[1] - 1) \o FlattenSeq(Pieces(s, at))

LEMMA PiecesAreTexts ==
  ASSUME NEW s \in Seq(STRING), NEW at \in Seq(1..Len(s))
  PROVE  /\ Pieces(s, at) \in Seq(Seq(STRING)) /\ Len(Pieces(s, at)) = Len(at)
         /\ \A i \in 1..Len(at) : Pieces(s, at)[i] = To \o PieceBehind(s, at, i)
<1>1. ASSUME NEW i \in 1..Len(at) PROVE PieceBehind(s, at, i) \in Seq(STRING)
  <2> DEFINE last == IF i = Len(at) THEN Len(s) ELSE at[i + 1] - 1
             start == at[i] + Len(From)
  <2>1. at[i] \in 1..Len(s)
    OBVIOUS
  <2>2. last \in Int /\ last <= Len(s)
    <3>1. CASE i = Len(at)
      BY <3>1
    <3>2. CASE i # Len(at)
      <4>1. at[i + 1] \in 1..Len(s)
        BY <3>2
      <4> QED BY <3>2, <4>1
    <3> QED BY <3>1, <3>2
  <2>3. start \in Int /\ start >= 1
    BY <2>1, FromToAssumption
  <2> HIDE DEF last, start
  <2>4. SubSeq(s, start, last) \in Seq(STRING)
    <3>1. \A j \in start..last : s[j] \in STRING
      BY <2>2, <2>3
    <3> QED BY <2>2, <2>3, <3>1, SubSeqProperties
  <2> QED BY <2>4 DEF PieceBehind, start, last
<1>2. \A i \in 1..Len(at) : To \o PieceBehind(s, at, i) \in Seq(STRING)
  BY <1>1, FromToAssumption
<1>3. DOMAIN at = 1..Len(at) /\ Len(at) \in Nat
  OBVIOUS
<1> DEFINE P == Pieces(s, at)
           n == Len(at)
<1>4. P \in [1..n -> Seq(STRING)]
  BY <1>2, <1>3 DEF Pieces
<1>5. \A i \in 1..n : P[i] = To \o PieceBehind(s, at, i)
  BY <1>3 DEF Pieces
<1>6. n \in Nat
  OBVIOUS
<1> HIDE DEF P, n
<1>7. P \in Seq(Seq(STRING)) /\ Len(P) = n
  BY <1>4, <1>6
<1> QED BY <1>5, <1>7 DEF P, n

LEMMA CutAt ==
  ASSUME NEW s \in Seq(STRING), NEW k \in 1..(Len(s) + 1), NEW at \in Seq(1..Len(s))
  PROVE  /\ SubSeq(s, k, Len(s)) \in Seq(STRING)
         /\ at # <<>> => SubSeq(s, k, at[1] - 1) \in Seq(STRING)
<1>1. ASSUME NEW last \in Int, last <= Len(s) PROVE SubSeq(s, k, last) \in Seq(STRING)
  <2>1. \A j \in k..last : s[j] \in STRING
    BY <1>1
  <2> QED BY <2>1, SubSeqProperties
<1>2. ASSUME at # <<>> PROVE at[1] - 1 \in Int /\ at[1] - 1 <= Len(s)
  <2>1. at[1] \in 1..Len(s)
    BY <1>2
  <2> QED BY <2>1
<1>3. Len(s) \in Int
  OBVIOUS
<1> QED BY <1>1, <1>2, <1>3

LEMMA SpelledIsText ==
  ASSUME NEW s \in Seq(STRING), NEW k \in 1..(Len(s) + 1), NEW at \in Seq(1..Len(s))
  PROVE  Spelled(s, at, k) \in Seq(STRING)
<1>1. FlattenSeq(Pieces(s, at)) \in Seq(STRING)
  <2>1. <<>> \in Seq(STRING) /\ Pieces(s, at) \in Seq(Seq(STRING))
    BY PiecesAreTexts
  <2> QED BY <2>1, FlattenFront
<1>2. CASE at = <<>>
  BY <1>2, CutAt DEF Spelled
<1>3. CASE at # <<>>
  <2>1. SubSeq(s, k, at[1] - 1) \in Seq(STRING)
    BY <1>3, CutAt
  <2> QED BY <1>1, <1>3, <2>1 DEF Spelled
<1> QED BY <1>2, <1>3

\* A character that is no match stays in front of what follows it.
LEMMA SpelledBeyond ==
  ASSUME NEW s \in Seq(STRING), NEW k \in 1..Len(s), NEW at \in Seq(1..Len(s)),
         at # <<>> => at[1] \in (k + 1)..Len(s)
  PROVE  Spelled(s, at, k) = <<s[k]>> \o Spelled(s, at, k + 1)
<1>1. ASSUME NEW last \in k..Len(s)
      PROVE  SubSeq(s, k, last) = <<s[k]>> \o SubSeq(s, k + 1, last)
  BY SubSeqRecursiveFirst
<1>2. CASE at = <<>>
  <2>1. Len(s) \in k..Len(s)
    OBVIOUS
  <2> QED BY <1>1, <1>2, <2>1 DEF Spelled
<1>3. CASE at # <<>>
  <2> DEFINE a == <<s[k]>>
             b == SubSeq(s, k + 1, at[1] - 1)
             c == FlattenSeq(Pieces(s, at))
  <2>1. at[1] - 1 \in k..Len(s)
    BY <1>3
  <2>2. Spelled(s, at, k) = (a \o b) \o c /\ Spelled(s, at, k + 1) = b \o c
    BY <1>1, <1>3, <2>1 DEF Spelled
  <2>3. a \in Seq(STRING)
    OBVIOUS
  <2>4. b \in Seq(STRING)
    <3>1. k + 1 \in 1..(Len(s) + 1)
      OBVIOUS
    <3> QED BY <1>3, <3>1, CutAt
  <2>5. c \in Seq(STRING)
    <3>1. <<>> \in Seq(STRING) /\ Pieces(s, at) \in Seq(Seq(STRING))
      BY PiecesAreTexts
    <3> QED BY <3>1, FlattenFront
  <2> HIDE DEF a, b, c
  <2>6. (a \o b) \o c = a \o (b \o c)
    BY <2>3, <2>4, <2>5, TextsJoin
  <2> QED BY <2>2, <2>6 DEF a
<1> QED BY <1>2, <1>3

\* A match is replaced in front of what follows it.
LEMMA SpelledWithMatch ==
  ASSUME NEW s \in Seq(STRING), NEW k \in 1..Len(s), NEW at \in Seq(1..Len(s)),
         k + Len(From) \in (k + 1)..(Len(s) + 1)
  PROVE  Spelled(s, <<k>> \o at, k) = To \o Spelled(s, at, k + Len(From))
<1> DEFINE all == <<k>> \o at
           l == k + Len(From)
           q == SubSeq(s, l, IF at = <<>> THEN Len(s) ELSE at[1] - 1)
           x == To \o q
           t == Pieces(s, at)
           m == Len(at)
<1>1. /\ all \in Seq(1..Len(s)) /\ Len(all) = m + 1 /\ m \in Nat /\ all # <<>> /\ all[1] = k
      /\ \A i \in 1..m : all[i + 1] = at[i]
      /\ at = <<>> <=> m = 0
  OBVIOUS
<1>2. l \in 1..(Len(s) + 1) /\ all[1] + Len(From) = l
  BY <1>1
<1>3. q \in Seq(STRING) /\ To \in Seq(STRING) /\ x \in Seq(STRING)
  <2> HIDE DEF l
  <2>1. q \in Seq(STRING)
    BY <1>2, CutAt
  <2> QED BY <2>1, FromToAssumption
<1>4. /\ t \in Seq(Seq(STRING)) /\ Len(t) = m
      /\ \A i \in 1..m : t[i] = To \o PieceBehind(s, at, i)
  BY PiecesAreTexts
<1>5. /\ Pieces(s, all) \in Seq(Seq(STRING)) /\ Len(Pieces(s, all)) = m + 1
      /\ \A i \in 1..(m + 1) : Pieces(s, all)[i] = To \o PieceBehind(s, all, i)
  <2> HIDE DEF all, m
  <2> QED BY <1>1, PiecesAreTexts
<1>6. PieceBehind(s, all, 1) = q
  <2>1. CASE m = 0
    BY <1>1, <1>2, <2>1 DEF PieceBehind
  <2>2. CASE m # 0
    <3>1. 1 \in 1..m /\ 1 + 1 = 2
      BY <1>1, <2>2
    <3>2. all[2] = at[1] /\ at # <<>> /\ Len(all) # 1
      BY <1>1, <2>2, <3>1
    <3> HIDE DEF all, l, m
    <3> QED BY <1>2, <3>1, <3>2 DEF PieceBehind
  <2> QED BY <2>1, <2>2
<1>7. ASSUME NEW i \in 1..m PROVE PieceBehind(s, all, i + 1) = PieceBehind(s, at, i)
  <2>1. all[i + 1] = at[i] /\ (i + 1 = m + 1 <=> i = m)
    BY <1>1
  <2>2. i # m => all[(i + 1) + 1] = at[i + 1]
    BY <1>1
  <2> HIDE DEF all
  <2> QED BY <1>1, <2>1, <2>2 DEF PieceBehind
<1> HIDE DEF all, m, t, q, x
<1>8. Pieces(s, all) = <<x>> \o t
  <2>1. /\ <<x>> \o t \in Seq(Seq(STRING)) /\ Len(<<x>> \o t) = m + 1
        /\ (<<x>> \o t)[1] = x /\ \A i \in 1..m : (<<x>> \o t)[i + 1] = t[i]
    BY <1>1, <1>3, <1>4, SMTT(20)
  <2>2. ASSUME NEW j \in 1..(m + 1) PROVE Pieces(s, all)[j] = (<<x>> \o t)[j]
    <3>1. CASE j = 1
      BY <1>5, <1>6, <2>1, <3>1 DEF x
    <3>2. CASE j # 1
      <4>1. j - 1 \in 1..m /\ (j - 1) + 1 = j
        BY <1>1, <3>2
      <4>2. PieceBehind(s, all, j) = PieceBehind(s, at, j - 1)
        BY <1>7, <4>1
      <4>3. t[j - 1] = To \o PieceBehind(s, at, j - 1) /\ (<<x>> \o t)[j] = t[j - 1]
        BY <1>4, <2>1, <4>1
      <4> QED BY <1>5, <4>2, <4>3
    <3> QED BY <3>1, <3>2
  <2> DEFINE u == Pieces(s, all)
             v == <<x>> \o t
  <2>3. u \in Seq(Seq(STRING)) /\ v \in Seq(Seq(STRING)) /\ Len(u) = m + 1 /\ Len(v) = m + 1
    BY <1>5, <2>1
  <2>4. \A j \in 1..Len(u) : u[j] = v[j]
    BY <2>2, <2>3
  <2> HIDE DEF u, v
  <2>5. u = v
    BY <2>3, <2>4, SeqEqual
  <2> QED BY <2>5 DEF u, v
<1>9. FlattenSeq(t) \in Seq(STRING) /\ FlattenSeq(Pieces(s, all)) = x \o FlattenSeq(t)
  BY <1>3, <1>4, <1>8, FlattenFront
<1>10. Spelled(s, all, k) = x \o FlattenSeq(t)
  <2>1. SubSeq(s, k, all[1] - 1) = <<>>
    BY <1>1, SubSeqEmpty
  <2>2. x \o FlattenSeq(t) \in Seq(STRING)
    BY <1>3, <1>9
  <2>3. <<>> \o (x \o FlattenSeq(t)) = x \o FlattenSeq(t)
    BY <2>2, ConcatEmptySeq
  <2> QED BY <1>1, <1>9, <2>1, <2>3 DEF Spelled
<1>11. Spelled(s, at, l) = q \o FlattenSeq(t)
  <2>1. CASE at = <<>>
    <3>1. m = 0 /\ Len(t) = 0
      BY <1>1, <1>4, <2>1
    <3>2. FlattenSeq(t) = <<>>
      <4>1. t = <<>>
        BY <1>4, <3>1
      <4> QED BY <4>1 DEF FlattenSeq
    <3>3. q \o <<>> = q
      BY <1>3
    <3> QED BY <2>1, <3>2, <3>3 DEF Spelled, q
  <2>2. CASE at # <<>>
    BY <2>2 DEF Spelled, q, t
  <2> QED BY <2>1, <2>2
<1>12. (To \o q) \o FlattenSeq(t) = To \o (q \o FlattenSeq(t))
  <2> DEFINE y == FlattenSeq(t)
  <2>1. y \in Seq(STRING)
    BY <1>9
  <2> HIDE DEF y
  <2>2. (To \o q) \o y = To \o (q \o y)
    BY <1>3, <2>1, TextsJoin, ZenonT(40)
  <2> QED BY <2>2 DEF y
<1> QED BY <1>10, <1>11, <1>12 DEF x, all

-----------------------------------------------------------------------------
(* Replacing from the left                                                     *)

\* g has the rest of the text with every match replaced, from each position on.
Replaces(g, s) ==
  \A k \in 1..(Len(s) + 1) :
    /\ g[k] \in Seq(STRING)
    /\ g[k] = IF k > Len(s) THEN <<>>
              ELSE IF Match(s, k) THEN To \o g[k + Len(From)]
              ELSE <<s[k]>> \o g[k + 1]

\* What ReplacedAll says of the text.
AllReplaced(s) ==
  LET scan[k \in 1..(Len(s) + 1)] ==
        IF k > Len(s) THEN <<>>
        ELSE IF Match(s, k) THEN To \o scan[k + Len(From)]
        ELSE <<s[k]>> \o scan[k + 1]
  IN Replaced(s) = scan[1] /\ Len(Replaced(s)) = RetLen(s)

LEMMA ScanReplaces ==
  ASSUME NEW s \in Seq(STRING)
  PROVE  \E g : /\ Replaces(g, s)
                /\ AllReplaced(s) <=> Replaced(s) = g[1] /\ Len(Replaced(s)) = RetLen(s)
<1> DEFINE n == Len(s) + 1
           V == Seq(STRING)
           base == [k \in 1..n |-> <<>>]
           head == [k \in 1..n |-> IF k > Len(s) THEN <<>> ELSE IF Match(s, k) THEN To ELSE <<s[k]>>]
           next == [k \in 1..n |-> IF Match(s, k) THEN k + Len(From) ELSE k + 1]
           step == [x \in (1..n) \X V |-> head[x[1]] \o x[2]]
           ends == {n}
           Loop(g) == g = [k \in 1..(Len(s) + 1) |->
             IF k > Len(s) THEN <<>>
             ELSE IF Match(s, k) THEN To \o g[k + Len(From)]
             ELSE <<s[k]>> \o g[k + 1]]
           F == CHOOSE g : Loop(g)
<1>1. n \in Nat /\ n = Len(s) + 1 /\ \A k \in 1..n : k > Len(s) <=> k \in ends
  OBVIOUS
<1>2. \A k \in 1..n : k \notin ends => next[k] \in (k + 1)..n
  <2> SUFFICES ASSUME NEW k \in 1..n, k \notin ends PROVE next[k] \in (k + 1)..n
    OBVIOUS
  <2>1. Len(From) \in Nat \ {0}
    BY FromToAssumption
  <2>2. Match(s, k) => k + Len(From) \in (k + 1)..n
    BY <2>1 DEF Match
  <2> QED BY <2>2
<1>3. base \in [1..n -> V] /\ \A k \in 1..n : base[k] = <<>>
  OBVIOUS
<1>4. \A k \in 1..n : /\ Match(s, k) => next[k] = k + Len(From)
                      /\ ~Match(s, k) => next[k] = k + 1
  OBVIOUS
<1>5. \A k \in 1..n : /\ head[k] \in V
                      /\ k \notin ends => head[k] = IF Match(s, k) THEN To ELSE <<s[k]>>
  <2> SUFFICES ASSUME NEW k \in 1..n
               PROVE  /\ head[k] \in V
                      /\ k \notin ends => head[k] = IF Match(s, k) THEN To ELSE <<s[k]>>
    OBVIOUS
  <2>1. k \notin ends => <<s[k]>> \in V
    OBVIOUS
  <2>2. To \in V /\ <<>> \in V
    BY FromToAssumption
  <2> HIDE DEF V
  <2> QED BY <2>1, <2>2
<1>6. \A x \in V : \A y \in V : x \o y \in V
  OBVIOUS
<1>7. step \in [(1..n) \X V -> V] /\ \A k \in 1..n : \A w \in V : step[<<k, w>>] = head[k] \o w
  <2> HIDE DEF V, head, n
  <2> QED BY <1>5, <1>6
<1> HIDE DEF base, head, step, next, ends, V
<1>8. PICK g \in [1..n -> V] : Jumps(g, n, ends, base, step, next)
  <2>1. Forward(n, ends, next)
    BY <1>2 DEF Forward
  <2> HIDE DEF n
  <2> QED BY <1>1, <1>3, <1>7, <2>1, JumpRecursion
<1>9. Loop(g)
  <2>1. ASSUME NEW k \in 1..n
        PROVE  g[k] = IF k > Len(s) THEN <<>>
                      ELSE IF Match(s, k) THEN To \o g[k + Len(From)]
                      ELSE <<s[k]>> \o g[k + 1]
    <3>1. g[k] = IF k \in ends THEN base[k] ELSE step[<<k, g[next[k]]>>]
      BY <1>8 DEF Jumps
    <3>2. CASE k \in ends
      BY <1>1, <1>3, <3>1, <3>2
    <3>3. CASE k \notin ends
      <4>1. next[k] \in 1..n
        BY <1>1, <1>2, <3>3
      <4>2. g[next[k]] \in V
        BY <4>1
      <4>3. g[k] = head[k] \o g[next[k]]
        BY <1>7, <3>1, <3>3, <4>2
      <4> QED BY <1>1, <1>4, <1>5, <3>3, <4>3
    <3> QED BY <3>2, <3>3
  <2> QED BY <2>1, <1>1
<1>10. Loop(F)
  BY <1>9
<1>11. AllReplaced(s) <=> Replaced(s) = F[1] /\ Len(Replaced(s)) = RetLen(s)
  BY DEF AllReplaced
<1> HIDE DEF F
<1>12. \A k \in 1..n : F[k] = IF k > Len(s) THEN <<>>
                              ELSE IF Match(s, k) THEN To \o F[k + Len(From)]
                              ELSE <<s[k]>> \o F[k + 1]
  BY <1>1, <1>10
<1> HIDE DEF Loop, n
<1> DEFINE T == {k \in 1..n : F[k] \in V}
<1>13. ASSUME NEW k \in 1..n, \A j \in 1..n : j > k => j \in T PROVE k \in T
  <2>1. CASE k \in ends
    <3>1. k > Len(s)
      BY <1>1, <2>1
    <3>2. F[k] = <<>>
      BY <1>12, <3>1
    <3>3. <<>> \in V
      BY DEF V
    <3> QED BY <3>2, <3>3
  <2>2. CASE k \notin ends
    <3> DEFINE l == next[k]
    <3>1. l \in 1..n /\ l > k
      BY <1>1, <1>2, <2>2
    <3>2. F[l] \in V
      BY <1>13, <3>1
    <3>3. F[k] = head[k] \o F[l]
      BY <1>1, <1>4, <1>5, <1>12, <2>2
    <3> HIDE DEF l
    <3>4. F[k] \in V
      BY <1>5, <1>6, <3>2, <3>3
    <3> QED BY <3>4
  <2> QED BY <2>1, <2>2
<1>14. T = 1..n
  <2>1. T \in SUBSET (1..n)
    OBVIOUS
  <2> HIDE DEF T
  <2> QED BY <1>1, <1>13, <2>1, DownInduction
<1>15. Replaces(F, s)
  BY <1>1, <1>12, <1>14 DEF Replaces, V
<1> QED BY <1>11, <1>15

Growth == Len(To) - Len(From)

Agree(s, f, g, k) ==
  /\ Spelled(s, f[k], k) = g[k]
  /\ Len(g[k]) = (Len(s) + 1 - k) + Growth * Len(f[k])

LEMMA SpelledIsReplaced ==
  ASSUME NEW s \in Seq(STRING), NEW f, Finds(f, s), NEW g, Replaces(g, s)
  PROVE  \A k \in 1..(Len(s) + 1) : Agree(s, f, g, k)
<1> DEFINE n == Len(s) + 1
           d == Growth
           T == {k \in 1..n : Agree(s, f, g, k)}
<1>1. n \in Nat /\ d \in Int /\ n = Len(s) + 1 /\ d = Len(To) - Len(From)
  BY FromToAssumption DEF Growth
<1>a. ASSUME NEW k \in 1..n, k > Len(s) PROVE f[k] = <<>> /\ g[k] = <<>>
  <2>1. k = Len(s) + 1
    BY <1>a
  <2>2. f[k] = <<>>
    BY <2>1, FoundOnTheWay
  <2>3. g[k] = <<>>
    BY <1>a DEF Replaces
  <2> QED BY <2>2, <2>3
<1>b. ASSUME NEW k \in 1..Len(s), Match(s, k)
      PROVE  /\ k + Len(From) \in (k + 1)..n /\ k + Len(From) \in 1..n
             /\ f[k] = <<k>> \o f[k + Len(From)] /\ g[k] = To \o g[k + Len(From)]
  <2>1. k + Len(From) \in (k + 1)..n /\ f[k] = <<k>> \o f[k + Len(From)]
    BY <1>b, FoundOnTheWay
  <2>2. k \in 1..(Len(s) + 1) /\ ~(k > Len(s))
    OBVIOUS
  <2>3. g[k] = To \o g[k + Len(From)]
    BY <1>b, <2>2 DEF Replaces
  <2>4. k + Len(From) \in 1..n
    BY <2>1
  <2> QED BY <2>1, <2>3, <2>4
<1>c. ASSUME NEW k \in 1..Len(s), ~Match(s, k)
      PROVE  k + 1 \in 1..n /\ f[k + 1] = f[k] /\ g[k] = <<s[k]>> \o g[k + 1]
  <2>1. f[k + 1] = f[k]
    BY <1>c, FoundOnTheWay
  <2>2. k \in 1..(Len(s) + 1) /\ ~(k > Len(s)) /\ k + 1 \in 1..n
    OBVIOUS
  <2>3. g[k] = <<s[k]>> \o g[k + 1]
    BY <1>c, <2>2 DEF Replaces
  <2> QED BY <2>1, <2>2, <2>3
<1>d. ASSUME NEW k \in 1..n
      PROVE  /\ f[k] \in Seq(1..Len(s)) /\ g[k] \in Seq(STRING)
             /\ f[k] # <<>> => f[k][1] \in k..Len(s)
  BY FoundOnTheWay DEF Finds, Replaces
<1>2. ASSUME NEW k \in 1..n, \A j \in 1..n : j > k => j \in T PROVE k \in T
  <2>1. CASE k = n
    <3>1. f[k] = <<>> /\ g[k] = <<>>
      BY <1>a, <2>1
    <3>2. SubSeq(s, k, Len(s)) = <<>>
      BY <2>1, SubSeqEmpty
    <3>3. Growth * 0 = 0
      BY <1>1
    <3>4. Spelled(s, f[k], k) = g[k]
      BY <3>1, <3>2 DEF Spelled
    <3>5. Len(g[k]) = 0 /\ Len(f[k]) = 0 /\ Len(s) + 1 - k = 0
      BY <2>1, <3>1
    <3> QED BY <3>3, <3>4, <3>5 DEF Agree
  <2>2. CASE k \in 1..Len(s) /\ Match(s, k)
    <3> DEFINE l == k + Len(From)
               at == f[l]
    <3>1. l \in (k + 1)..n /\ l \in 1..n /\ f[k] = <<k>> \o at
      BY <1>b, <2>2
    <3>2. Spelled(s, at, l) = g[l] /\ Len(g[l]) = (n - l) + d * Len(at)
      <4>1. l \in 1..n /\ l > k
        BY <3>1
      <4>2. Agree(s, f, g, l)
        BY <1>2, <4>1
      <4> QED BY <4>2 DEF Agree
    <3>3. at \in Seq(1..Len(s))
      BY <1>d, <3>1
    <3>4. Spelled(s, f[k], k) = To \o g[l]
      <4>1. Spelled(s, <<k>> \o at, k) = To \o Spelled(s, at, l)
        BY <2>2, <3>1, <3>3, SpelledWithMatch
      <4> QED BY <3>1, <3>2, <4>1
    <3>5. g[k] = To \o g[l] /\ g[l] \in Seq(STRING)
      BY <1>b, <1>d, <2>2, <3>1
    <3>6. Len(g[k]) = Len(To) + Len(g[l])
      BY <3>5, FromToAssumption
    <3>7. Len(f[k]) = Len(at) + 1 /\ Len(at) \in Nat
      BY <2>2, <3>1, <3>3
    <3> DEFINE m == Len(at)
    <3>8. d * (m + 1) = d * m + d
      <4>1. m \in Nat
        BY <3>7
      <4> HIDE DEF d, m
      <4> QED BY <1>1, <4>1
    <3>9. d * m \in Int /\ Len(To) \in Nat /\ Len(From) \in Nat
      <4>1. m \in Nat
        BY <3>7
      <4> HIDE DEF m
      <4> QED BY <1>1, <4>1, FromToAssumption
    <3>10. l = k + Len(From)
      OBVIOUS
    <3> HIDE DEF l, at
    <3>11. Len(g[k]) = Len(To) + ((n - l) + d * m)
      BY <3>2, <3>6
    <3>12. Len(g[k]) = (n - k) + d * Len(f[k])
      <4>1. Len(f[k]) = m + 1
        BY <3>7
      <4> HIDE DEF m
      <4> DEFINE y == d * m
      <4>2. d * (m + 1) = y + d
        BY <3>8
      <4>3. y \in Int
        BY <3>9
      <4> HIDE DEF y
      <4>4. Len(g[k]) = Len(To) + ((n - l) + y)
        BY <3>11 DEF y
      <4>5. Len(g[k]) = (n - k) + (y + d)
        BY <1>1, <3>9, <3>10, <4>3, <4>4
      <4> QED BY <4>1, <4>2, <4>5
    <3>13. Spelled(s, f[k], k) = g[k]
      BY <3>4, <3>5
    <3> QED BY <3>12, <3>13 DEF Agree
  <2>3. CASE k \in 1..Len(s) /\ ~Match(s, k)
    <3> DEFINE at == f[k]
    <3>1. k + 1 \in 1..n /\ k + 1 > k /\ f[k + 1] = at
      <4>1. k + 1 > k
        OBVIOUS
      <4> QED BY <1>c, <2>3, <4>1
    <3>2. Spelled(s, at, k + 1) = g[k + 1] /\ Len(g[k + 1]) = (n - (k + 1)) + d * Len(at)
      <4>1. Agree(s, f, g, k + 1)
        BY <1>2, <3>1
      <4> QED BY <3>1, <4>1 DEF Agree
    <3>3. at \in Seq(1..Len(s))
      BY <1>d
    <3>4. at # <<>> => at[1] \in (k + 1)..Len(s)
      BY <1>d, <3>1
    <3>5. g[k] = <<s[k]>> \o g[k + 1] /\ g[k + 1] \in Seq(STRING) /\ s[k] \in STRING
      BY <1>c, <1>d, <2>3, <3>1
    <3> HIDE DEF at
    <3>6. Spelled(s, at, k) = g[k]
      <4>1. Spelled(s, at, k) = <<s[k]>> \o Spelled(s, at, k + 1)
        BY <2>3, <3>3, <3>4, SpelledBeyond
      <4> QED BY <3>2, <3>5, <4>1
    <3>7. Len(g[k]) = 1 + Len(g[k + 1])
      BY <3>5
    <3> DEFINE y == d * Len(at)
    <3>8. y \in Int
      <4>1. Len(at) \in Int
        BY <3>3
      <4> HIDE DEF d
      <4> QED BY <1>1, <4>1
    <3> HIDE DEF y
    <3>9. Len(g[k]) = (n - k) + y
      BY <1>1, <3>2, <3>7, <3>8 DEF y
    <3>10. Spelled(s, f[k], k) = g[k] /\ Len(g[k]) = (n - k) + d * Len(f[k])
      BY <3>6, <3>9 DEF y, at
    <3> QED BY <3>10 DEF Agree
  <2>4. k = n \/ k \in 1..Len(s)
    OBVIOUS
  <2> QED BY <2>1, <2>2, <2>3, <2>4
<1>3. T = 1..n
  <2>1. T \in SUBSET (1..n)
    OBVIOUS
  <2> HIDE DEF T
  <2> QED BY <1>1, <1>2, <2>1, DownInduction
<1>4. \A k \in 1..n : Agree(s, f, g, k)
  BY <1>3
<1> QED BY <1>4

\* The address of a key with -k and -n: for any texts, however often and however
\* closely the old one occurs in it, each match from the left is replaced, nothing
\* else, and the buffer has room for exactly the result.
THEOREM AlwaysReplaced == Spec => []ReplacedAll
<1>1. ASSUME NEW s \in Seq(STRING) PROVE AllReplaced(s)
  <2>1. PICK f : Finds(f, s) /\ Matches(s) = f[1]
    BY MatchesFound
  <2>2. PICK g : /\ Replaces(g, s)
                 /\ AllReplaced(s) <=> Replaced(s) = g[1] /\ Len(Replaced(s)) = RetLen(s)
    BY ScanReplaces
  <2>3. 1 \in 1..(Len(s) + 1) /\ (Len(s) + 1) - 1 = Len(s)
    OBVIOUS
  <2>4. /\ Spelled(s, f[1], 1) = g[1]
        /\ Len(g[1]) = Len(s) + (Len(To) - Len(From)) * Len(f[1])
    <3>1. Agree(s, f, g, 1)
      BY <2>1, <2>2, <2>3, SpelledIsReplaced
    <3> QED BY <2>3, <3>1 DEF Agree, Growth
  <2>5. Replaced(s) = Spelled(s, Matches(s), 1)
    <3> DEFINE at == Matches(s)
    <3>1. SubSeq(s, 1, Len(s)) = s
      OBVIOUS
    <3> QED BY <3>1 DEF Replaced, Spelled, Pieces, PieceBehind
  <2> QED BY <2>1, <2>2, <2>4, <2>5 DEF RetLen
<1>2. text \in Seq(STRING) => ReplacedAll
  <2>1. AllReplaced(text) => ReplacedAll
    BY DEF AllReplaced, ReplacedAll
  <2> QED BY <1>1, <2>1
<1> QED BY <1>2, Typed, PTL

-----------------------------------------------------------------------------
(* The value at the start of a text                                            *)

\* The text starts with a quoted value whose second quotation mark is at c.
QuotedTo(u, c) == /\ c \in 2..Len(u) /\ u[1] = "q" /\ u[c] = "q"
                  /\ \A i \in 2..(c - 1) : u[i] # "q"

\* The text starts with m characters ahead of a comma or the end.
PlainTo(u, m) == /\ m \in 0..Len(u) /\ \A i \in 1..m : u[i] # ","
                 /\ m < Len(u) => u[m + 1] = ","

Quoted(u, c) ==
  [value |-> SubSeq(u, 2, c - 1), quoted |-> TRUE, rest |-> SubSeq(u, c + 1, Len(u))]
Unquoted(u, m) ==
  [value |-> SubSeq(u, 1, m), quoted |-> FALSE, rest |-> SubSeq(u, m + 1, Len(u))]

Closers(u)  == {i \in 1..Len(Tail(u)) : Tail(u)[i] = "q"}
Commas(u)   == {i \in 1..Len(u) : ~(u[i] # ",")}
NameEnds(s) == {i \in 1..Len(s) : ~(s[i] \notin {"=", ","})}

LEMMA ValueIs ==
  ASSUME NEW u \in Seq(STRING)
  PROVE  IF u # <<>> /\ u[1] = "q"
         THEN \/ Value(u) = NULL /\ \A c \in 1..Len(u) : ~QuotedTo(u, c)
              \/ \E c \in 2..Len(u) : QuotedTo(u, c) /\ Value(u) = Quoted(u, c)
         ELSE \E m \in 0..Len(u) : PlainTo(u, m) /\ Value(u) = Unquoted(u, m)
<1>1. CASE u # <<>> /\ u[1] = "q"
  <2> DEFINE v == Tail(u)
             I == Closers(u)
             m == Min(I)
             close == (IF I # {} THEN Min(I) ELSE 0) + 1
  <2>1. v \in Seq(STRING) /\ Len(v) = Len(u) - 1 /\ \A i \in 1..Len(v) : v[i] = u[i + 1]
    BY <1>1, HeadTailProperties
  <2>2. Value(u) = IF close = 1 THEN NULL ELSE Quoted(u, close)
    BY <1>1 DEF Value, SelectInSeq, Closers, Quoted
  <2>3. I # {} => m \in I /\ \A i \in I : m <= i
    <3>1. I \in SUBSET (1..Len(v))
      BY DEF Closers
    <3> HIDE DEF v, I
    <3> QED BY <2>1, <3>1, FirstOfThem
  <2>4. \A i : i \in I <=> i \in 1..Len(v) /\ v[i] = "q"
    BY DEF Closers
  <2> HIDE DEF v, I, m
  <2>5. CASE I = {}
    <3>1. Value(u) = NULL
      BY <2>2, <2>5
    <3>2. ASSUME NEW c \in 1..Len(u), QuotedTo(u, c) PROVE FALSE
      <4>1. c - 1 \in 1..Len(v) /\ (c - 1) + 1 = c /\ u[c] = "q"
        BY <2>1, <3>2 DEF QuotedTo
      <4>2. c - 1 \in I
        BY <2>1, <2>4, <4>1
      <4> QED BY <2>5, <4>2
    <3> QED BY <1>1, <3>1, <3>2
  <2>6. CASE I # {}
    <3>1. m \in 1..Len(v) /\ v[m] = "q" /\ \A i \in I : m <= i
      BY <2>3, <2>4, <2>6
    <3>2. close = m + 1 /\ close \in 2..Len(u) /\ u[close] = "q"
      BY <2>1, <2>6, <3>1 DEF m
    <3>3. ASSUME NEW i \in 2..(m + 1 - 1), u[i] = "q" PROVE FALSE
      <4>1. i - 1 \in 1..Len(v) /\ (i - 1) + 1 = i /\ ~(m <= i - 1)
        BY <3>1, <3>3
      <4>2. v[i - 1] = "q"
        BY <2>1, <3>3, <4>1
      <4> QED BY <2>4, <3>1, <4>1, <4>2
    <3>4. Value(u) = Quoted(u, close)
      BY <2>2, <3>2
    <3> HIDE DEF close
    <3>a. ASSUME NEW i \in 2..(close - 1) PROVE u[i] # "q"
      <4>1. i \in 2..(m + 1 - 1)
        BY <2>1, <3>1, <3>2
      <4> QED BY <3>3, <4>1
    <3>5. QuotedTo(u, close)
      BY <1>1, <3>2, <3>a DEF QuotedTo
    <3> QED BY <1>1, <3>2, <3>4, <3>5
  <2> QED BY <2>5, <2>6
<1>2. CASE ~(u # <<>> /\ u[1] = "q")
  <2> DEFINE m == Ahead(u, Commas(u))
  <2>1. PrefixLen(u, LAMBDA c : c # ",") = m
    BY DEF PrefixLen, SelectInSeq, Ahead, Commas
  <2>2. Value(u) = Unquoted(u, m)
    BY <1>2, <2>1 DEF Value, Unquoted
  <2>3. /\ m \in 0..Len(u) /\ \A i \in 1..m : i \notin Commas(u)
        /\ m < Len(u) => m + 1 \in Commas(u)
    <3>1. Commas(u) \in SUBSET (1..Len(u))
      BY DEF Commas
    <3> QED BY <3>1, FirstOfThem
  <2> HIDE DEF m
  <2>a. \A i \in 1..Len(u) : i \in Commas(u) <=> u[i] = ","
    BY DEF Commas
  <2>b. \A i \in 1..m : i \in 1..Len(u)
    BY <2>3
  <2>c. m < Len(u) => m + 1 \in 1..Len(u)
    BY <2>3
  <2>4. PlainTo(u, m)
    BY <2>3, <2>a, <2>b, <2>c DEF PlainTo
  <2> QED BY <1>2, <2>2, <2>3, <2>4
<1> QED BY <1>1, <1>2

LEMMA NameIs ==
  ASSUME NEW s \in Seq(STRING)
  PROVE  LET n == PrefixLen(s, LAMBDA c : c \notin {"=", ","})
         IN /\ n \in 0..Len(s) /\ \A i \in 1..n : s[i] \notin {"=", ","}
            /\ n < Len(s) => s[n + 1] \in {"=", ","}
<1> DEFINE n == Ahead(s, NameEnds(s))
<1>1. PrefixLen(s, LAMBDA c : c \notin {"=", ","}) = n
  BY DEF PrefixLen, SelectInSeq, Ahead, NameEnds
<1>2. /\ n \in 0..Len(s) /\ \A i \in 1..n : i \notin NameEnds(s)
      /\ n < Len(s) => n + 1 \in NameEnds(s)
  <2>1. NameEnds(s) \in SUBSET (1..Len(s))
    BY DEF NameEnds
  <2> QED BY <2>1, FirstOfThem
<1> HIDE DEF n
<1>3. /\ n \in 0..Len(s) /\ \A i \in 1..n : s[i] \notin {"=", ","}
      /\ n < Len(s) => s[n + 1] \in {"=", ","}
  <2>1. \A i \in 1..Len(s) : i \in NameEnds(s) <=> s[i] \in {"=", ","}
    BY DEF NameEnds
  <2>2. \A i \in 1..n : i \in 1..Len(s)
    BY <1>2
  <2>3. n < Len(s) => n + 1 \in 1..Len(s)
    BY <1>2
  <2> QED BY <1>2, <2>1, <2>2, <2>3
<1> QED BY <1>1, <1>3

\* A text that is a comma.
LEMMA LoneComma == \A r \in Seq(STRING) : r = <<",">> <=> (Len(r) = 1 /\ r[1] = ",")
<1> DEFINE c == ","
           C == STRING
<1> HIDE DEF c, C
<1>2. \A r \in Seq(C) : r = <<c>> <=> IsOne(r, c)
  BY OnlyOne
<1> QED BY <1>2 DEF c, C, IsOne

-----------------------------------------------------------------------------
(* The attribute at the start of a text                                        *)

\* An attribute list may go on behind the first j characters: there is nothing
\* more, or a comma with something behind it.
GoesOn(u, j) == j = Len(u) \/ (j + 1 < Len(u) /\ u[j + 1] = ",")

LEMMA RestIs ==
  ASSUME NEW u \in Seq(STRING), NEW j \in 0..Len(u)
  PROVE  LET r == SubSeq(u, j + 1, Len(u))
         IN /\ (r = <<",">> \/ (r # <<>> /\ r[1] # ",")) <=> ~GoesOn(u, j)
            /\ SubSeq(r, 2, Len(r)) = SubSeq(u, j + 2, Len(u))
            /\ r \in Seq(STRING)
<1> DEFINE r == SubSeq(u, j + 1, Len(u))
<1>1. /\ r \in Seq(STRING) /\ Len(r) = Len(u) - j
      /\ \A x \in 1..(Len(u) - j) : r[x] = u[j + x]
  <2>1. j + 1 \in 1..(Len(u) + 1) /\ Len(u) \in 0..Len(u) /\ j + 1 <= Len(u) + 1
    OBVIOUS
  <2> DEFINE i == j + 1
  <2>2. \A x \in 1..(Len(u) - j) : i + x - 1 = j + x
    OBVIOUS
  <2>3. Len(u) - i + 1 = Len(u) - j
    OBVIOUS
  <2> HIDE DEF i
  <2>4. /\ SubSeq(u, i, Len(u)) \in Seq(STRING) /\ Len(SubSeq(u, i, Len(u))) = Len(u) - i + 1
        /\ \A x \in 1..(Len(u) - i + 1) : SubSeq(u, i, Len(u))[x] = u[i + x - 1]
    BY <2>1, CutOf DEF i
  <2> QED BY <2>2, <2>3, <2>4 DEF i
<1>2. SubSeq(r, 2, Len(r)) = SubSeq(u, j + 2, Len(u))
  <2>1. CASE j = Len(u)
    <3>1. Len(r) = 0 /\ Len(u) < j + 2 /\ 0 < 2
      BY <1>1, <2>1
    <3> HIDE DEF r
    <3>2. SubSeq(r, 2, 0) = <<>> /\ SubSeq(u, j + 2, Len(u)) = <<>>
      BY <2>1, <3>1, SubSeqEmpty
    <3> QED BY <3>1, <3>2
  <2>2. CASE j < Len(u)
    <3> DEFINE k == j + 1
               b == Len(u) - j
    <3>1. /\ k \in 1..(Len(u) + 1) /\ 2 \in 1..(Len(u) + 2 - k) /\ b \in 0..(Len(u) + 1 - k)
          /\ 2 <= b + 1 /\ k + 2 - 1 = j + 2 /\ k + b - 1 = Len(u)
      BY <2>2
    <3> HIDE DEF k, b
    <3>2. SubSeq(SubSeq(u, k, Len(u)), 2, b) = SubSeq(u, k + 2 - 1, k + b - 1)
      BY <3>1, CutTwice
    <3> QED BY <1>1, <3>1, <3>2 DEF k, b
  <2> QED BY <2>1, <2>2
<1> HIDE DEF r
<1>3. (r = <<",">> \/ (r # <<>> /\ r[1] # ",")) <=> ~GoesOn(u, j)
  <2>1. CASE j = Len(u)
    <3>1. r = <<>>
      BY <1>1, <2>1
    <3> QED BY <2>1, <3>1 DEF GoesOn
  <2>2. CASE j < Len(u)
    <3>1. r # <<>> /\ r[1] = u[j + 1]
      BY <1>1, <2>2
    <3>2. r = <<",">> <=> (Len(u) - j = 1 /\ u[j + 1] = ",")
      <4>1. r = <<",">> <=> (Len(r) = 1 /\ r[1] = ",")
        BY <1>1, LoneComma
      <4> QED BY <1>1, <3>1, <4>1
    <3>3. GoesOn(u, j) <=> (j + 1 < Len(u) /\ u[j + 1] = ",")
      <4>1. j # Len(u)
        BY <2>2
      <4> QED BY <4>1, Zenon DEF GoesOn
    <3>4. Len(u) - j = 1 <=> ~(j + 1 < Len(u))
      BY <2>2
    <3> QED BY <3>1, <3>2, <3>3, <3>4, Zenon
  <2>3. j = Len(u) \/ j < Len(u)
    OBVIOUS
  <2> QED BY <2>1, <2>2, <2>3, Zenon
<1> QED BY <1>1, <1>2, <1>3 DEF r

\* What next_media_attribute takes from a text: the name up to n, and u behind the sign.
TakenQuoted(s, n, u, c) ==
  [name |-> SubSeq(s, 1, n), value |-> SubSeq(u, 2, c - 1), quoted |-> TRUE,
   rest |-> SubSeq(u, c + 2, Len(u))]
TakenPlain(s, n, u, m) ==
  [name |-> SubSeq(s, 1, n), value |-> SubSeq(u, 1, m), quoted |-> FALSE,
   rest |-> SubSeq(u, m + 2, Len(u))]

\* u is what the text has behind a name of n characters and the sign.
IsNamed(s, n, u) == /\ n \in 1..(Len(s) - 1) /\ s[n + 1] = "="
                    /\ \A i \in 1..n : s[i] \notin {"=", ","}
                    /\ u = SubSeq(s, n + 2, Len(s))

LEMMA AttributeIs ==
  ASSUME NEW s \in Seq(STRING), NEW n \in Nat, NEW u, IsNamed(s, n, u)
  PROVE  /\ \A c \in 1..Len(u) :
              QuotedTo(u, c) => Attribute(s) = IF c > 2 /\ GoesOn(u, c)
                                               THEN TakenQuoted(s, n, u, c) ELSE NULL
         /\ ~(u # <<>> /\ u[1] = "q") => \A m \in 0..Len(u) :
              PlainTo(u, m) => Attribute(s) = IF m > 0 /\ GoesOn(u, m)
                                              THEN TakenPlain(s, n, u, m) ELSE NULL
         /\ (u # <<>> /\ u[1] = "q" /\ \A c \in 1..Len(u) : ~QuotedTo(u, c)) => Attribute(s) = NULL
<1> DEFINE p == PrefixLen(s, LAMBDA c : c \notin {"=", ","})
           v == Value(u)
<1>a. n \in 1..(Len(s) - 1)
  BY DEF IsNamed
<1>0. s[n + 1] = "=" /\ \A i \in 1..n : s[i] \notin {"=", ","}
  BY DEF IsNamed
<1>1. u \in Seq(STRING) /\ Len(s) \in Nat /\ n \in Nat /\ n < Len(s) /\ n > 0
  <2>1. n + 2 \in 1..(Len(s) + 1) /\ Len(s) \in 0..Len(s) /\ n + 2 <= Len(s) + 1
    BY <1>a
  <2>2. SubSeq(s, n + 2, Len(s)) \in Seq(STRING)
    BY <2>1, CutOf
  <2>3. u \in Seq(STRING)
    BY <2>2 DEF IsNamed
  <2> QED BY <1>a, <2>3
<1>2. p = n
  <2>1. /\ p \in 0..Len(s) /\ \A i \in 1..p : s[i] \notin {"=", ","}
        /\ p < Len(s) => s[p + 1] \in {"=", ","}
    BY NameIs
  <2> HIDE DEF p
  <2>a. p \in 0..Len(s)
    BY <2>1
  <2>2. ~(p < n)
    <3> SUFFICES ASSUME p < n PROVE FALSE
      OBVIOUS
    <3>1. p + 1 \in 1..n /\ p < Len(s)
      BY <1>1, <2>a
    <3> QED BY <1>0, <2>1, <3>1
  <2>3. ~(p > n)
    <3> SUFFICES ASSUME p > n PROVE FALSE
      OBVIOUS
    <3>1. n + 1 \in 1..p
      BY <1>1, <2>a
    <3> QED BY <1>0, <2>1, <3>1
  <2> QED BY <1>1, <2>a, <2>2, <2>3
<1>3. Attribute(s) = IF v = NULL THEN NULL
                     ELSE IF v.value = <<>> \/ v.rest = <<",">> THEN NULL
                     ELSE IF v.rest # <<>> /\ v.rest[1] # "," THEN NULL
                     ELSE [name |-> SubSeq(s, 1, n), value |-> v.value, quoted |-> v.quoted,
                           rest |-> SubSeq(v.rest, 2, Len(v.rest))]
  <2>1. n # 0 /\ n # Len(s)
    BY <1>1
  <2> HIDE DEF v
  <2>2. Attribute(s) = LET w == Value(SubSeq(s, p + 2, Len(s)))
                       IN IF p = 0 \/ p = Len(s) \/ s[p + 1] # "=" \/ w = NULL THEN NULL
                          ELSE IF w.value = <<>> \/ w.rest = <<",">> THEN NULL
                          ELSE IF w.rest # <<>> /\ w.rest[1] # "," THEN NULL
                          ELSE [name |-> SubSeq(s, 1, p), value |-> w.value, quoted |-> w.quoted,
                                rest |-> SubSeq(w.rest, 2, Len(w.rest))]
    BY DEF Attribute
  <2> HIDE DEF p
  <2>3. SubSeq(s, p + 2, Len(s)) = u /\ s[p + 1] = "="
    BY <1>0, <1>2 DEF IsNamed
  <2> QED BY <1>2, <2>1, <2>2, <2>3 DEF v
<1> HIDE DEF p
<1>4. ASSUME NEW c \in 1..Len(u), QuotedTo(u, c), v = Quoted(u, c)
      PROVE  Attribute(s) = IF c > 2 /\ GoesOn(u, c) THEN TakenQuoted(s, n, u, c) ELSE NULL
  <2> DEFINE r == SubSeq(u, c + 1, Len(u))
             val == SubSeq(u, 2, c - 1)
  <2>1. v \in [value : Seq(STRING), quoted : BOOLEAN, rest : Seq(STRING)]
    <3>1. c \in 2..Len(u) /\ c \in 0..Len(u)
      BY <1>4, <1>1 DEF QuotedTo
    <3>2. val \in Seq(STRING)
      <4>1. 2 \in 1..(Len(u) + 1) /\ c - 1 \in 0..Len(u) /\ 2 <= (c - 1) + 1
        BY <1>1, <3>1
      <4> QED BY <1>1, <4>1, CutOf
    <3>3. r \in Seq(STRING)
      BY <1>1, <3>1, RestIs
    <3> HIDE DEF val, r
    <3> QED BY <1>4, <3>2, <3>3 DEF Quoted, val, r
  <2>2. v # NULL /\ v.value = val /\ v.quoted = TRUE /\ v.rest = r
    <3>1. v # NULL
      BY <2>1, NullAssumption
    <3> HIDE DEF v
    <3> QED BY <1>4, <3>1 DEF Quoted
  <2>3. c \in 0..Len(u) /\ c \in 2..Len(u)
    BY <1>1, <1>4 DEF QuotedTo
  <2>4. /\ (r = <<",">> \/ (r # <<>> /\ r[1] # ",")) <=> ~GoesOn(u, c)
        /\ SubSeq(r, 2, Len(r)) = SubSeq(u, c + 2, Len(u))
    BY <1>1, <2>3, RestIs
  <2>5. val = <<>> <=> ~(c > 2)
    <3> DEFINE j == c - 1
    <3>1. 2 \in 1..(Len(u) + 1) /\ j \in 0..Len(u) /\ 2 <= j + 1 /\ j - 2 + 1 = c - 2
      BY <1>1, <2>3
    <3> HIDE DEF j
    <3>2. Len(SubSeq(u, 2, j)) = j - 2 + 1 /\ SubSeq(u, 2, j) \in Seq(STRING)
      BY <1>1, <3>1, CutOf
    <3>3. val \in Seq(STRING) /\ Len(val) = c - 2
      BY <3>1, <3>2 DEF j
    <3> HIDE DEF val
    <3>4. val = <<>> <=> Len(val) = 0
      BY <3>3
    <3> QED BY <2>3, <3>3, <3>4
  <2> HIDE DEF v, r, val
  <2> QED BY <1>3, <2>2, <2>4, <2>5 DEF TakenQuoted, val
<1>5. ASSUME NEW m \in 0..Len(u), PlainTo(u, m), v = Unquoted(u, m)
      PROVE  Attribute(s) = IF m > 0 /\ GoesOn(u, m) THEN TakenPlain(s, n, u, m) ELSE NULL
  <2> DEFINE r == SubSeq(u, m + 1, Len(u))
             val == SubSeq(u, 1, m)
  <2>0. val \in Seq(STRING) /\ Len(val) = m
    <3>1. 1 \in 1..(Len(u) + 1) /\ m \in 0..Len(u) /\ 1 <= m + 1 /\ m - 1 + 1 = m
      BY <1>1
    <3> QED BY <1>1, <3>1, CutOf
  <2>1. v \in [value : Seq(STRING), quoted : BOOLEAN, rest : Seq(STRING)]
    <3>3. r \in Seq(STRING)
      BY <1>1, RestIs
    <3> HIDE DEF val, r
    <3> QED BY <1>5, <2>0, <3>3 DEF Unquoted, val, r
  <2>2. v # NULL /\ v.value = val /\ v.quoted = FALSE /\ v.rest = r
    <3>1. v # NULL
      BY <2>1, NullAssumption
    <3> HIDE DEF v
    <3> QED BY <1>5, <3>1 DEF Unquoted
  <2>4. /\ (r = <<",">> \/ (r # <<>> /\ r[1] # ",")) <=> ~GoesOn(u, m)
        /\ SubSeq(r, 2, Len(r)) = SubSeq(u, m + 2, Len(u))
    BY <1>1, RestIs
  <2>5. val = <<>> <=> ~(m > 0)
    <3> HIDE DEF val
    <3> QED BY <2>0, <1>1
  <2> HIDE DEF v, r, val
  <2> QED BY <1>3, <2>2, <2>4, <2>5 DEF TakenPlain, val
<1>6. CASE u # <<>> /\ u[1] = "q"
  <2>1. \/ v = NULL /\ \A c \in 1..Len(u) : ~QuotedTo(u, c)
        \/ \E c \in 2..Len(u) : QuotedTo(u, c) /\ v = Quoted(u, c)
    BY <1>1, <1>6, ValueIs
  <2>2. ASSUME NEW c \in 1..Len(u), NEW d \in 1..Len(u), QuotedTo(u, c), QuotedTo(u, d)
        PROVE  c = d
    <3>1. c \in 2..Len(u) /\ d \in 2..Len(u) /\ u[c] = "q" /\ u[d] = "q"
      BY <2>2 DEF QuotedTo
    <3>2. ~(c < d)
      <4>1. c < d => c \in 2..(d - 1)
        BY <3>1
      <4> QED BY <2>2, <3>1, <4>1 DEF QuotedTo
    <3>3. ~(d < c)
      <4>1. d < c => d \in 2..(c - 1)
        BY <3>1
      <4> QED BY <2>2, <3>1, <4>1 DEF QuotedTo
    <3> QED BY <3>1, <3>2, <3>3
  <2>3. CASE v = NULL /\ \A c \in 1..Len(u) : ~QuotedTo(u, c)
    <3>1. Attribute(s) = NULL
      BY <1>3, <2>3
    <3> QED BY <1>6, <2>3, <3>1
  <2>4. ASSUME NEW d \in 2..Len(u), QuotedTo(u, d), v = Quoted(u, d)
        PROVE  \A c \in 1..Len(u) :
                 QuotedTo(u, c) => Attribute(s) = IF c > 2 /\ GoesOn(u, c)
                                                  THEN TakenQuoted(s, n, u, c) ELSE NULL
    <3>1. d \in 1..Len(u)
      BY <1>1
    <3> HIDE DEF v
    <3> SUFFICES ASSUME NEW c \in 1..Len(u), QuotedTo(u, c)
                 PROVE  Attribute(s) = IF c > 2 /\ GoesOn(u, c)
                                       THEN TakenQuoted(s, n, u, c) ELSE NULL
      OBVIOUS
    <3>2. c = d
      BY <2>2, <2>4, <3>1
    <3>3. v = Quoted(u, c)
      BY <2>4, <3>2
    <3> QED BY <1>4, <3>3
  <2> HIDE DEF v
  <2>5. CASE \E d \in 2..Len(u) : QuotedTo(u, d) /\ v = Quoted(u, d)
    <3>1. PICK d \in 2..Len(u) : QuotedTo(u, d) /\ v = Quoted(u, d)
      BY <2>5
    <3>2. d \in 1..Len(u)
      BY <1>1
    <3> QED BY <1>6, <2>4, <3>1, <3>2
  <2> QED BY <2>1, <2>3, <2>5
<1>7. CASE ~(u # <<>> /\ u[1] = "q")
  <2>1. PICK d \in 0..Len(u) : PlainTo(u, d) /\ v = Unquoted(u, d)
    BY <1>1, <1>7, ValueIs
  <2>2. ASSUME NEW m \in 0..Len(u), PlainTo(u, m)
        PROVE  Attribute(s) = IF m > 0 /\ GoesOn(u, m) THEN TakenPlain(s, n, u, m) ELSE NULL
    <3>1. ~(m < d)
      <4>1. m < d => m + 1 \in 1..d /\ m < Len(u)
        BY <1>1
      <4> QED BY <2>1, <2>2, <4>1 DEF PlainTo
    <3>2. ~(d < m)
      <4>1. d < m => d + 1 \in 1..m /\ d < Len(u)
        BY <1>1
      <4> QED BY <2>1, <2>2, <4>1 DEF PlainTo
    <3>3. m = d
      BY <1>1, <3>1, <3>2
    <3> HIDE DEF v
    <3>4. v = Unquoted(u, m)
      BY <2>1, <3>3
    <3> QED BY <1>5, <2>2, <3>4
  <2>3. \A c \in 1..Len(u) : ~QuotedTo(u, c)
    <3>1. ASSUME NEW c \in 1..Len(u), QuotedTo(u, c) PROVE FALSE
      <4>1. u # <<>>
        BY <1>1
      <4> QED BY <1>7, <3>1, <4>1 DEF QuotedTo
    <3> QED BY <3>1
  <2> QED BY <1>7, <2>2, <2>3
<1> QED BY <1>6, <1>7

\* The first x characters are a name of n characters, the sign and a value.
Piece(s, n, x) ==
  /\ n \in 1..(x - 2) /\ s[n + 1] = "=" /\ \A i \in 1..n : s[i] \notin {"=", ","}
  /\ \/ s[n + 2] # "q" /\ \A i \in (n + 2)..x : s[i] # ","
     \/ /\ x > n + 3 /\ s[n + 2] = "q" /\ s[x] = "q"
        /\ \A i \in (n + 3)..(x - 1) : s[i] # "q"

LEMMA PieceIs ==
  ASSUME NEW s \in Seq(STRING), NEW x \in 1..Len(s)
  PROVE  IsAttribute(SubSeq(s, 1, x)) <=> \E n \in Nat : Piece(s, n, x)
<1> DEFINE y == SubSeq(s, 1, x)
<1>1. Len(y) = x /\ \A i \in 1..x : y[i] = s[i]
  <2>1. 1 \in 1..(Len(s) + 1) /\ x \in 0..Len(s) /\ 1 <= x + 1 /\ x - 1 + 1 = x
    OBVIOUS
  <2>2. Len(y) = x - 1 + 1 /\ \A i \in 1..(x - 1 + 1) : y[i] = s[1 + i - 1]
    BY <2>1, CutOf
  <2>3. \A i \in 1..x : 1 + i - 1 = i
    OBVIOUS
  <2> HIDE DEF y
  <2> QED BY <2>1, <2>2, <2>3
<1> HIDE DEF y
<1> DEFINE A(e) ==
             /\ y[e] = "=" /\ \A i \in 1..(e - 1) : y[i] \notin {"=", ","}
             /\ \/ y[e + 1] # "q" /\ \A i \in (e + 1)..x : y[i] # ","
                \/ /\ x > e + 2 /\ y[e + 1] = "q" /\ y[x] = "q"
                   /\ \A i \in (e + 2)..(x - 1) : y[i] # "q"
           B(e) ==
             /\ s[e] = "=" /\ \A i \in 1..(e - 1) : s[i] \notin {"=", ","}
             /\ \/ s[e + 1] # "q" /\ \A i \in (e + 1)..x : s[i] # ","
                \/ /\ x > e + 2 /\ s[e + 1] = "q" /\ s[x] = "q"
                   /\ \A i \in (e + 2)..(x - 1) : s[i] # "q"
<1>2. IsAttribute(y) <=> \E e \in 2..(x - 1) : A(e)
  BY <1>1 DEF IsAttribute
<1>3. ASSUME NEW e \in 2..(x - 1) PROVE A(e) <=> B(e)
  <2>1. y[e] = s[e] /\ y[e + 1] = s[e + 1] /\ y[x] = s[x]
    <3>1. e \in 1..x /\ e + 1 \in 1..x /\ x \in 1..x
      OBVIOUS
    <3> QED BY <1>1, <3>1
  <2>2. \A i \in 1..(e - 1) : y[i] = s[i]
    <3>1. \A i \in 1..(e - 1) : i \in 1..x
      OBVIOUS
    <3> QED BY <1>1, <3>1
  <2>3. \A i \in (e + 1)..x : y[i] = s[i]
    <3>1. \A i \in (e + 1)..x : i \in 1..x
      OBVIOUS
    <3> QED BY <1>1, <3>1
  <2>4. \A i \in (e + 2)..(x - 1) : y[i] = s[i]
    <3>1. \A i \in (e + 2)..(x - 1) : i \in 1..x
      OBVIOUS
    <3> QED BY <1>1, <3>1
  <2> QED BY <2>1, <2>2, <2>3, <2>4, Zenon
<1>4. ASSUME NEW n \in Nat, NEW e \in Nat, e = n + 1
      PROVE  Piece(s, n, x) <=> e \in 2..(x - 1) /\ B(e)
  <2>1. e = n + 1 /\ e - 1 = n /\ e + 1 = n + 2 /\ e + 2 = n + 3
    BY <1>4
  <2>2. e \in 2..(x - 1) <=> n \in 1..(x - 2)
    BY <1>4
  <2> QED BY <2>1, <2>2 DEF Piece
<1>5. ASSUME NEW e \in 2..(x - 1), B(e) PROVE \E n \in Nat : Piece(s, n, x)
  <2>1. e \in Nat /\ e - 1 \in Nat /\ e = (e - 1) + 1
    OBVIOUS
  <2>2. Piece(s, e - 1, x)
    <3> HIDE DEF B
    <3> QED BY <1>4, <1>5, <2>1
  <2> QED BY <2>1, <2>2
<1>6. ASSUME NEW n \in Nat, Piece(s, n, x) PROVE \E e \in 2..(x - 1) : B(e)
  <2>1. n + 1 \in Nat
    OBVIOUS
  <2>2. n + 1 \in 2..(x - 1) /\ B(n + 1)
    <3> HIDE DEF B
    <3> QED BY <1>4, <1>6, <2>1
  <2> HIDE DEF B
  <2> QED BY <2>2
<1> HIDE DEF A, B
<1>7. IsAttribute(y) <=> \E n \in Nat : Piece(s, n, x)
  <2>1. IsAttribute(y) <=> \E e \in 2..(x - 1) : B(e)
    BY <1>2, <1>3
  <2> QED BY <1>5, <1>6, <2>1
<1> QED BY <1>7 DEF y

\* The value takes up the first j characters behind the sign.
ValueTo(u, j) == \/ u[1] # "q" /\ \A i \in 1..j : u[i] # ","
                 \/ QuotedTo(u, j) /\ j > 2

\* The j-th character behind the sign is the x-th of the text, which has n in its name.
IsBehind(x, n, j) == x = n + 1 + j

LEMMA BehindSign ==
  ASSUME NEW s \in Seq(STRING), NEW n \in Nat, NEW u, IsNamed(s, n, u),
         NEW j \in 1..Len(u), NEW x \in Nat, IsBehind(x, n, j)
  PROVE  /\ x \in 1..Len(s) /\ u \in Seq(STRING)
         /\ Piece(s, n, x) <=> ValueTo(u, j)
         /\ GoesOn(s, x) <=> GoesOn(u, j)
<1>1. n \in 1..(Len(s) - 1)
  BY DEF IsNamed
<1>2. s[n + 1] = "=" /\ \A i \in 1..n : s[i] \notin {"=", ","}
  BY DEF IsNamed
<1>3. /\ u \in Seq(STRING) /\ Len(u) = Len(s) - n - 1
      /\ \A i \in 1..(Len(s) - n - 1) : u[i] = s[n + 1 + i]
  <2> DEFINE k == n + 2
  <2>1. /\ k \in 1..(Len(s) + 1) /\ Len(s) \in 0..Len(s) /\ k <= Len(s) + 1
        /\ Len(s) - k + 1 = Len(s) - n - 1
        /\ \A i \in 1..(Len(s) - n - 1) : k + i - 1 = n + 1 + i
    BY <1>1
  <2>2. u = SubSeq(s, k, Len(s))
    BY DEF IsNamed
  <2> HIDE DEF k
  <2>3. /\ u \in Seq(STRING) /\ Len(u) = Len(s) - k + 1
        /\ \A i \in 1..(Len(s) - k + 1) : u[i] = s[k + i - 1]
    BY <2>1, <2>2, CutOf
  <2> QED BY <2>1, <2>3
<1>4. x = n + 1 + j /\ x \in 1..Len(s) /\ n \in 1..(x - 2) /\ j <= Len(s) - n - 1
  <2>1. x = n + 1 + j
    BY DEF IsBehind
  <2>2. j \in 1..(Len(s) - n - 1)
    BY <1>1, <1>3
  <2> QED BY <1>1, <2>1, <2>2
<1>5. u[1] = s[n + 2] /\ u[j] = s[x]
  <2>1. 1 \in 1..(Len(s) - n - 1) /\ n + 1 + 1 = n + 2 /\ j \in 1..(Len(s) - n - 1)
    BY <1>1, <1>4
  <2> QED BY <1>3, <1>4, <2>1
<1>6. (\A i \in 1..j : u[i] # ",") <=> \A i \in (n + 2)..x : s[i] # ","
  <2>1. ASSUME NEW i \in 1..j PROVE u[i] = s[n + 1 + i] /\ n + 1 + i \in (n + 2)..x
    <3>1. i \in 1..(Len(s) - n - 1) /\ n + 1 + i \in (n + 2)..x
      BY <1>4
    <3> QED BY <1>3, <3>1
  <2>2. ASSUME NEW i \in (n + 2)..x PROVE i - n - 1 \in 1..j /\ n + 1 + (i - n - 1) = i
    BY <1>4
  <2>3. ASSUME NEW i \in (n + 2)..x PROVE s[i] = u[i - n - 1]
    <3>1. u[i - n - 1] = s[n + 1 + (i - n - 1)]
      BY <2>1, <2>2
    <3> QED BY <2>2, <3>1
  <2> QED BY <2>1, <2>2, <2>3, ZenonT(30)
<1>7. (\A i \in 2..(j - 1) : u[i] # "q") <=> \A i \in (n + 3)..(x - 1) : s[i] # "q"
  <2>1. ASSUME NEW i \in 2..(j - 1) PROVE u[i] = s[n + 1 + i] /\ n + 1 + i \in (n + 3)..(x - 1)
    <3>1. i \in 1..(Len(s) - n - 1) /\ n + 1 + i \in (n + 3)..(x - 1)
      BY <1>4
    <3> QED BY <1>3, <3>1
  <2>2. ASSUME NEW i \in (n + 3)..(x - 1) PROVE i - n - 1 \in 2..(j - 1) /\ n + 1 + (i - n - 1) = i
    BY <1>4
  <2>3. ASSUME NEW i \in (n + 3)..(x - 1) PROVE s[i] = u[i - n - 1]
    <3>1. u[i - n - 1] = s[n + 1 + (i - n - 1)]
      BY <2>1, <2>2
    <3> QED BY <2>2, <3>1
  <2> QED BY <2>1, <2>2, <2>3, ZenonT(30)
<1>8. Piece(s, n, x) <=> ValueTo(u, j)
  <2>1. x > n + 3 <=> j > 2
    BY <1>4
  <2>2. j > 2 => j \in 2..Len(u)
    BY <1>1, <1>3
  <2> QED BY <1>2, <1>4, <1>5, <1>6, <1>7, <2>1, <2>2, Zenon DEF Piece, ValueTo, QuotedTo
<1>9. GoesOn(s, x) <=> GoesOn(u, j)
  <2>1. x = Len(s) <=> j = Len(u)
    BY <1>1, <1>3, <1>4
  <2>2. x + 1 < Len(s) <=> j + 1 < Len(u)
    BY <1>1, <1>3, <1>4
  <2>3. ASSUME j + 1 < Len(u) PROVE u[j + 1] = s[x + 1]
    <3>1. j + 1 \in 1..(Len(s) - n - 1) /\ n + 1 + (j + 1) = x + 1
      BY <1>1, <1>3, <1>4, <2>3
    <3>2. u[j + 1] = s[n + 1 + (j + 1)]
      BY <1>3, <3>1
    <3> QED BY <3>1, <3>2
  <2> QED BY <2>1, <2>2, <2>3, Zenon DEF GoesOn
<1> QED BY <1>3, <1>4, <1>8, <1>9

\* With nothing but a comma or the end behind it, a plain value is all there is.
NoComma(u, j) == \A i \in 1..j : u[i] # ","

LEMMA PlainValue ==
  ASSUME NEW u \in Seq(STRING), NEW j \in 1..Len(u), GoesOn(u, j), NoComma(u, j)
  PROVE  PlainTo(u, j)
<1>1. j \in 0..Len(u)
  OBVIOUS
<1>2. ASSUME j < Len(u) PROVE j # Len(u)
  BY <1>2
<1> QED BY <1>1, <1>2, Zenon DEF PlainTo, GoesOn, NoComma

\* A list of attributes may go on behind the attribute that ends at x.
EndsAt(s, x) == x \in 1..Len(s) /\ IsAttribute(SubSeq(s, 1, x)) /\ GoesOn(s, x)

AttributeNames == [name : Seq(STRING), value : Seq(STRING), quoted : BOOLEAN, rest : Seq(STRING)]

\* a is the attribute that ends at x.
Reads(s, x, a) == /\ a \in AttributeNames
                  /\ Written(a) = SubSeq(s, 1, x)
                  /\ a.rest = SubSeq(s, x + 2, Len(s))

LEMMA CutBehind ==
  ASSUME NEW s \in Seq(STRING), NEW n \in Nat, NEW u, IsNamed(s, n, u)
  PROVE  /\ u \in Seq(STRING) /\ Len(u) = Len(s) - n - 1
         /\ \A i \in 1..Len(u) : u[i] = s[n + 1 + i]
         /\ \A i \in 1..(Len(u) + 1) : \A j \in 0..Len(u) :
              i <= j + 1 => SubSeq(u, i, j) = SubSeq(s, n + 1 + i, n + 1 + j)
<1>1. n \in 1..(Len(s) - 1)
  BY DEF IsNamed
<1> DEFINE k == n + 2
<1>2. k \in 1..(Len(s) + 1) /\ Len(s) \in 0..Len(s) /\ k <= Len(s) + 1 /\ k = n + 2
  BY <1>1
<1>3. u = SubSeq(s, k, Len(s))
  BY DEF IsNamed
<1> HIDE DEF k
<1>4. /\ u \in Seq(STRING) /\ Len(u) = Len(s) - k + 1
      /\ \A i \in 1..(Len(s) - k + 1) : u[i] = s[k + i - 1]
  BY <1>2, <1>3, CutOf
<1>5. Len(u) = Len(s) - n - 1
  BY <1>2, <1>4
<1>6. ASSUME NEW i \in 1..Len(u) PROVE u[i] = s[n + 1 + i]
  <2>1. i \in 1..(Len(s) - k + 1) /\ k + i - 1 = n + 1 + i
    BY <1>2, <1>5
  <2>2. u[i] = s[k + i - 1]
    BY <1>4, <2>1
  <2> QED BY <2>1, <2>2
<1>7. ASSUME NEW i \in 1..(Len(u) + 1), NEW j \in 0..Len(u), i <= j + 1
      PROVE  SubSeq(u, i, j) = SubSeq(s, n + 1 + i, n + 1 + j)
  <2>1. /\ i \in 1..(Len(s) + 2 - k) /\ j \in 0..(Len(s) + 1 - k)
        /\ k + i - 1 = n + 1 + i /\ k + j - 1 = n + 1 + j
    BY <1>2, <1>5
  <2>2. SubSeq(SubSeq(s, k, Len(s)), i, j) = SubSeq(s, k + i - 1, k + j - 1)
    BY <1>2, <1>7, <2>1, CutTwice
  <2> QED BY <1>3, <2>1, <2>2
<1> QED BY <1>4, <1>5, <1>6, <1>7

LEMMA ReadsQuoted ==
  ASSUME NEW s \in Seq(STRING), NEW n \in Nat, NEW u, IsNamed(s, n, u), NEW j \in 1..Len(u),
         QuotedTo(u, j), j > 2, NEW x \in Nat, IsBehind(x, n, j), x \in 1..Len(s), Piece(s, n, x)
  PROVE  Reads(s, x, TakenQuoted(s, n, u, j))
<1> DEFINE a == TakenQuoted(s, n, u, j)
<1>1. x = n + 1 + j /\ n \in Nat /\ n >= 1 /\ j > 2 /\ x <= Len(s) /\ x \in Nat
  <2>1. n >= 1
    <3>1. n \in 1..(x - 2)
      BY DEF Piece
    <3> QED BY <3>1
  <2>2. x = n + 1 + j
    BY DEF IsBehind
  <2> QED BY <2>1, <2>2
<1>2. s[n + 1] = "="
  BY DEF IsNamed
<1>b. /\ u \in Seq(STRING) /\ Len(u) = Len(s) - n - 1
      /\ \A i \in 1..Len(u) : u[i] = s[n + 1 + i]
      /\ \A i \in 1..(Len(u) + 1) : \A h \in 0..Len(u) :
           i <= h + 1 => SubSeq(u, i, h) = SubSeq(s, n + 1 + i, n + 1 + h)
  BY CutBehind
<1>3. s[n + 2] = "q" /\ s[x] = "q"
  <2>1. 1 \in 1..Len(u) /\ n + 1 + 1 = n + 2 /\ n + 1 + j = x
    BY <1>1
  <2>2. u[1] = s[n + 1 + 1] /\ u[j] = s[n + 1 + j]
    BY <1>b, <2>1
  <2> QED BY <2>1, <2>2 DEF QuotedTo
<1>4. a.value = SubSeq(s, n + 3, x - 1) /\ a.rest = SubSeq(s, x + 2, Len(s))
  <2> DEFINE h == j - 1
             e == j + 2
             l == Len(u)
  <2>1. SubSeq(u, 2, h) = SubSeq(s, n + 3, x - 1)
    <3>1. /\ 2 \in 1..(Len(u) + 1) /\ h \in 0..Len(u) /\ 2 <= h + 1
          /\ n + 1 + 2 = n + 3 /\ n + 1 + h = x - 1
      BY <1>1
    <3> HIDE DEF h
    <3>2. SubSeq(u, 2, h) = SubSeq(s, n + 1 + 2, n + 1 + h)
      BY <1>b, <3>1
    <3> QED BY <3>1, <3>2
  <2>2. SubSeq(u, e, l) = SubSeq(s, x + 2, Len(s))
    <3>1. CASE x < Len(s)
      <4>1. /\ e \in 1..(Len(u) + 1) /\ l \in 0..Len(u) /\ e <= l + 1
            /\ n + 1 + e = x + 2 /\ n + 1 + l = Len(s)
        BY <1>1, <1>b, <3>1
      <4> HIDE DEF e, l
      <4>2. SubSeq(u, e, l) = SubSeq(s, n + 1 + e, n + 1 + l)
        BY <1>b, <4>1
      <4> QED BY <4>1, <4>2
    <3>2. CASE ~(x < Len(s))
      <4>1. l < e /\ Len(s) < x + 2 /\ l \in Int /\ e \in Int /\ x + 2 \in Int /\ Len(s) \in Int
        BY <1>1, <1>b, <3>2
      <4> HIDE DEF l, e
      <4>2. SubSeq(u, e, l) = <<>> /\ SubSeq(s, x + 2, Len(s)) = <<>>
        BY <4>1, SubSeqEmpty
      <4> QED BY <4>2
    <3> QED BY <3>1, <3>2
  <2> QED BY <2>1, <2>2 DEF TakenQuoted
<1>5. a.name = SubSeq(s, 1, n) /\ a.quoted = TRUE
  BY DEF TakenQuoted
<1>6. /\ SubSeq(s, 1, n) \in Seq(STRING) /\ SubSeq(s, n + 3, x - 1) \in Seq(STRING)
      /\ SubSeq(s, x + 2, Len(s)) \in Seq(STRING)
  <2>1. /\ 1 \in 1..(Len(s) + 1) /\ n \in 0..Len(s) /\ 1 <= n + 1
        /\ n + 3 \in 1..(Len(s) + 1) /\ x - 1 \in 0..Len(s) /\ n + 3 <= (x - 1) + 1
    BY <1>1
  <2>2. SubSeq(s, 1, n) \in Seq(STRING)
    BY <2>1, CutOf
  <2>3. SubSeq(s, n + 3, x - 1) \in Seq(STRING)
    BY <2>1, CutOf
  <2>4. SubSeq(s, x + 2, Len(s)) \in Seq(STRING)
    <3>1. \A i \in (x + 2)..Len(s) : s[i] \in STRING
      BY <1>1
    <3>2. x + 2 \in Int /\ Len(s) \in Int
      BY <1>1
    <3> QED BY <3>1, <3>2, SubSeqProperties
  <2> QED BY <2>2, <2>3, <2>4
<1>7. a \in AttributeNames
  <2>1. a = [name |-> a.name, value |-> a.value, quoted |-> TRUE, rest |-> a.rest]
    BY DEF TakenQuoted
  <2> HIDE DEF a
  <2> QED BY <1>4, <1>5, <1>6, <2>1 DEF AttributeNames
<1> HIDE DEF a
<1>8. Written(a) = (SubSeq(s, 1, n) \o SubSeq(s, n + 1, n + 1))
                     \o ((SubSeq(s, n + 2, n + 2) \o SubSeq(s, n + 3, x - 1)) \o SubSeq(s, x, x))
  <2>1. /\ SubSeq(s, n + 1, n + 1) = <<"=">> /\ SubSeq(s, n + 2, n + 2) = <<"q">>
        /\ SubSeq(s, x, x) = <<"q">>
    <3>1. n + 1 \in 1..Len(s) /\ n + 2 \in 1..Len(s) /\ x \in 1..Len(s)
      BY <1>1
    <3>2. /\ SubSeq(s, n + 1, n + 1) = <<s[n + 1]>> /\ SubSeq(s, n + 2, n + 2) = <<s[n + 2]>>
          /\ SubSeq(s, x, x) = <<s[x]>>
      BY <3>1, CutOne
    <3> QED BY <1>2, <1>3, <3>2
  <2> QED BY <1>4, <1>5, <2>1 DEF Written
<1>9. Written(a) = SubSeq(s, 1, x)
  <2>1. SubSeq(s, 1, n) \o SubSeq(s, n + 1, n + 1) = SubSeq(s, 1, n + 1)
    <3>1. 1 \in 1..(Len(s) + 1) /\ n \in (1 - 1)..Len(s) /\ n + 1 \in n..Len(s)
      BY <1>1
    <3> QED BY <3>1, CutsJoin
  <2>2. SubSeq(s, n + 2, n + 2) \o SubSeq(s, n + 3, x - 1) = SubSeq(s, n + 2, x - 1)
    <3> DEFINE i == n + 2
    <3>1. i \in 1..(Len(s) + 1) /\ i \in (i - 1)..Len(s) /\ x - 1 \in i..Len(s) /\ i + 1 = n + 3
      BY <1>1
    <3> HIDE DEF i
    <3>2. SubSeq(s, i, i) \o SubSeq(s, i + 1, x - 1) = SubSeq(s, i, x - 1)
      BY <3>1, CutsJoin
    <3> QED BY <3>1, <3>2 DEF i
  <2>3. SubSeq(s, n + 2, x - 1) \o SubSeq(s, x, x) = SubSeq(s, n + 2, x)
    <3> DEFINE i == n + 2
               m == x - 1
    <3>1. i \in 1..(Len(s) + 1) /\ m \in (i - 1)..Len(s) /\ x \in m..Len(s) /\ m + 1 = x
      BY <1>1
    <3> HIDE DEF i, m
    <3>2. SubSeq(s, i, m) \o SubSeq(s, m + 1, x) = SubSeq(s, i, x)
      BY <3>1, CutsJoin
    <3> QED BY <3>1, <3>2 DEF i, m
  <2>4. SubSeq(s, 1, n + 1) \o SubSeq(s, n + 2, x) = SubSeq(s, 1, x)
    <3> DEFINE m == n + 1
    <3>1. 1 \in 1..(Len(s) + 1) /\ m \in (1 - 1)..Len(s) /\ x \in m..Len(s) /\ m + 1 = n + 2
      BY <1>1
    <3> HIDE DEF m
    <3>2. SubSeq(s, 1, m) \o SubSeq(s, m + 1, x) = SubSeq(s, 1, x)
      BY <3>1, CutsJoin
    <3> QED BY <3>1, <3>2 DEF m
  <2> QED BY <1>8, <2>1, <2>2, <2>3, <2>4
<1>10. a.rest = SubSeq(s, x + 2, Len(s))
  BY <1>4
<1> QED BY <1>7, <1>9, <1>10 DEF Reads, a

LEMMA ReadsPlain ==
  ASSUME NEW s \in Seq(STRING), NEW n \in Nat, NEW u, IsNamed(s, n, u), NEW j \in 1..Len(u),
          NEW x \in Nat, IsBehind(x, n, j), x \in 1..Len(s), Piece(s, n, x)
  PROVE  Reads(s, x, TakenPlain(s, n, u, j))
<1> DEFINE a == TakenPlain(s, n, u, j)
<1>1. x = n + 1 + j /\ n \in Nat /\ n >= 1 /\ x <= Len(s) /\ x \in Nat
  <2>1. n >= 1
    <3>1. n \in 1..(x - 2)
      BY DEF Piece
    <3> QED BY <3>1
  <2>2. x = n + 1 + j
    BY DEF IsBehind
  <2> QED BY <2>1, <2>2
<1>2. s[n + 1] = "="
  BY DEF IsNamed
<1>b. /\ u \in Seq(STRING) /\ Len(u) = Len(s) - n - 1
      /\ \A i \in 1..Len(u) : u[i] = s[n + 1 + i]
      /\ \A i \in 1..(Len(u) + 1) : \A h \in 0..Len(u) :
           i <= h + 1 => SubSeq(u, i, h) = SubSeq(s, n + 1 + i, n + 1 + h)
  BY CutBehind
<1>4. a.value = SubSeq(s, n + 2, x) /\ a.rest = SubSeq(s, x + 2, Len(s))
  <2> DEFINE e == j + 2
             l == Len(u)
  <2>1. SubSeq(u, 1, j) = SubSeq(s, n + 2, x)
    <3>1. /\ 1 \in 1..(Len(u) + 1) /\ j \in 0..Len(u) /\ 1 <= j + 1
          /\ n + 1 + 1 = n + 2 /\ n + 1 + j = x
      BY <1>1
    <3>2. SubSeq(u, 1, j) = SubSeq(s, n + 1 + 1, n + 1 + j)
      BY <1>b, <3>1
    <3> QED BY <3>1, <3>2
  <2>2. SubSeq(u, e, l) = SubSeq(s, x + 2, Len(s))
    <3>1. CASE x < Len(s)
      <4>1. /\ e \in 1..(Len(u) + 1) /\ l \in 0..Len(u) /\ e <= l + 1
            /\ n + 1 + e = x + 2 /\ n + 1 + l = Len(s)
        BY <1>1, <1>b, <3>1
      <4> HIDE DEF e, l
      <4>2. SubSeq(u, e, l) = SubSeq(s, n + 1 + e, n + 1 + l)
        BY <1>b, <4>1
      <4> QED BY <4>1, <4>2
    <3>2. CASE ~(x < Len(s))
      <4>1. l < e /\ Len(s) < x + 2 /\ l \in Int /\ e \in Int /\ x + 2 \in Int /\ Len(s) \in Int
        BY <1>1, <1>b, <3>2
      <4> HIDE DEF l, e
      <4>2. SubSeq(u, e, l) = <<>> /\ SubSeq(s, x + 2, Len(s)) = <<>>
        BY <4>1, SubSeqEmpty
      <4> QED BY <4>2
    <3> QED BY <3>1, <3>2
  <2> QED BY <2>1, <2>2 DEF TakenPlain
<1>5. a.name = SubSeq(s, 1, n) /\ a.quoted = FALSE
  BY DEF TakenPlain
<1>6. /\ SubSeq(s, 1, n) \in Seq(STRING) /\ SubSeq(s, n + 2, x) \in Seq(STRING)
      /\ SubSeq(s, x + 2, Len(s)) \in Seq(STRING)
  <2>1. /\ 1 \in 1..(Len(s) + 1) /\ n \in 0..Len(s) /\ 1 <= n + 1
        /\ n + 2 \in 1..(Len(s) + 1) /\ x \in 0..Len(s) /\ n + 2 <= x + 1
    BY <1>1
  <2>2. SubSeq(s, 1, n) \in Seq(STRING)
    BY <2>1, CutOf
  <2>3. SubSeq(s, n + 2, x) \in Seq(STRING)
    BY <2>1, CutOf
  <2>4. SubSeq(s, x + 2, Len(s)) \in Seq(STRING)
    <3>1. \A i \in (x + 2)..Len(s) : s[i] \in STRING
      BY <1>1
    <3>2. x + 2 \in Int /\ Len(s) \in Int
      BY <1>1
    <3> QED BY <3>1, <3>2, SubSeqProperties
  <2> QED BY <2>2, <2>3, <2>4
<1>7. a \in AttributeNames
  <2>1. a = [name |-> a.name, value |-> a.value, quoted |-> FALSE, rest |-> a.rest]
    BY DEF TakenPlain
  <2> HIDE DEF a
  <2> QED BY <1>4, <1>5, <1>6, <2>1 DEF AttributeNames
<1> HIDE DEF a
<1>8. Written(a) = (SubSeq(s, 1, n) \o SubSeq(s, n + 1, n + 1)) \o SubSeq(s, n + 2, x)
  <2>1. SubSeq(s, n + 1, n + 1) = <<"=">>
    <3>1. n + 1 \in 1..Len(s)
      BY <1>1
    <3>2. SubSeq(s, n + 1, n + 1) = <<s[n + 1]>>
      BY <3>1, CutOne
    <3> QED BY <1>2, <3>2
  <2> QED BY <1>4, <1>5, <2>1 DEF Written
<1>9. Written(a) = SubSeq(s, 1, x)
  <2>1. SubSeq(s, 1, n) \o SubSeq(s, n + 1, n + 1) = SubSeq(s, 1, n + 1)
    <3>1. 1 \in 1..(Len(s) + 1) /\ n \in (1 - 1)..Len(s) /\ n + 1 \in n..Len(s)
      BY <1>1
    <3> QED BY <3>1, CutsJoin
  <2>2. SubSeq(s, 1, n + 1) \o SubSeq(s, n + 2, x) = SubSeq(s, 1, x)
    <3> DEFINE m == n + 1
    <3>1. 1 \in 1..(Len(s) + 1) /\ m \in (1 - 1)..Len(s) /\ x \in m..Len(s) /\ m + 1 = n + 2
      BY <1>1
    <3> HIDE DEF m
    <3>2. SubSeq(s, 1, m) \o SubSeq(s, m + 1, x) = SubSeq(s, 1, x)
      BY <3>1, CutsJoin
    <3> QED BY <3>1, <3>2 DEF m
  <2> QED BY <1>8, <2>1, <2>2
<1>10. a.rest = SubSeq(s, x + 2, Len(s))
  BY <1>4
<1> QED BY <1>7, <1>9, <1>10 DEF Reads, a

NoNull(a) == a # NULL

\* The scan takes an attribute exactly where one ends and the list may go on.
LEMMA AttributeTaken ==
  ASSUME NEW s \in Seq(STRING), NEW x \in Nat, EndsAt(s, x)
  PROVE  NoNull(Attribute(s)) /\ Reads(s, x, Attribute(s))
<1>1. x \in 1..Len(s) /\ GoesOn(s, x) /\ IsAttribute(SubSeq(s, 1, x))
  BY DEF EndsAt
<1>2. PICK n \in Nat : Piece(s, n, x)
  BY <1>1, PieceIs
<1> DEFINE u == SubSeq(s, n + 2, Len(s))
           j == x - n - 1
<1>3. n \in 1..(x - 2)
  BY <1>2 DEF Piece
<1>4. n \in 1..(Len(s) - 1)
  BY <1>1, <1>3
<1>5. IsNamed(s, n, u)
  <2>1. s[n + 1] = "=" /\ \A i \in 1..n : s[i] \notin {"=", ","}
    BY <1>2 DEF Piece
  <2> QED BY <1>4, <2>1, Zenon DEF IsNamed
<1> HIDE DEF u
<1>6. u \in Seq(STRING) /\ Len(u) = Len(s) - n - 1
  BY <1>5, CutBehind
<1>7. j \in 1..Len(u) /\ IsBehind(x, n, j)
  BY <1>1, <1>3, <1>6 DEF IsBehind
<1> HIDE DEF j
<1>8. ValueTo(u, j) /\ GoesOn(u, j)
  BY <1>1, <1>2, <1>5, <1>7, BehindSign
<1>9. CASE QuotedTo(u, j) /\ j > 2
  <2>1. Attribute(s) = TakenQuoted(s, n, u, j)
    <3>1. QuotedTo(u, j) => Attribute(s) = IF j > 2 /\ GoesOn(u, j)
                                           THEN TakenQuoted(s, n, u, j) ELSE NULL
      BY <1>5, <1>7, AttributeIs
    <3> QED BY <1>8, <1>9, <3>1
  <2>2. Reads(s, x, TakenQuoted(s, n, u, j))
    BY <1>1, <1>2, <1>5, <1>7, <1>9, ReadsQuoted
  <2>3. NoNull(TakenQuoted(s, n, u, j))
    BY <2>2, NullAssumption DEF Reads, AttributeNames, NoNull
  <2> QED BY <2>1, <2>2, <2>3
<1>10. CASE ~(QuotedTo(u, j) /\ j > 2)
  <2>1. u[1] # "q" /\ NoComma(u, j)
    BY <1>8, <1>10, Zenon DEF ValueTo, NoComma
  <2>2. PlainTo(u, j)
    BY <1>6, <1>7, <1>8, <2>1, PlainValue
  <2>3. Attribute(s) = TakenPlain(s, n, u, j)
    <3>1. j \in 0..Len(u) /\ j > 0
      BY <1>7
    <3>2. ~(u # <<>> /\ u[1] = "q") => \A m \in 0..Len(u) :
            PlainTo(u, m) => Attribute(s) = IF m > 0 /\ GoesOn(u, m)
                                            THEN TakenPlain(s, n, u, m) ELSE NULL
      BY <1>5, AttributeIs
    <3> QED BY <1>8, <2>1, <2>2, <3>1, <3>2, Zenon
  <2>4. Reads(s, x, TakenPlain(s, n, u, j))
    BY <1>1, <1>2, <1>5, <1>7, ReadsPlain
  <2>5. NoNull(TakenPlain(s, n, u, j))
    BY <2>4, NullAssumption DEF Reads, AttributeNames, NoNull
  <2> QED BY <2>3, <2>4, <2>5
<1> QED BY <1>9, <1>10

LEMMA AttributeEnds ==
  ASSUME NEW s \in Seq(STRING), NoNull(Attribute(s))
  PROVE  \E x \in Nat : EndsAt(s, x)
<1> DEFINE n == PrefixLen(s, LAMBDA c : c \notin {"=", ","})
           u == SubSeq(s, n + 2, Len(s))
<1>1. /\ n \in 0..Len(s) /\ \A i \in 1..n : s[i] \notin {"=", ","}
  BY NameIs
<1>2. n # 0 /\ n # Len(s) /\ s[n + 1] = "="
  BY DEF Attribute, NoNull
<1> HIDE DEF n
<1>a. n \in 0..Len(s)
  BY <1>1
<1>b. n \in Nat /\ n \in 1..(Len(s) - 1)
  BY <1>a, <1>2
<1>3. IsNamed(s, n, u)
  BY <1>1, <1>2, <1>b, Zenon DEF IsNamed
<1> HIDE DEF u
<1>4. u \in Seq(STRING) /\ Len(u) = Len(s) - n - 1
  BY <1>3, <1>b, CutBehind
<1>5. ASSUME NEW j \in 1..Len(u), ValueTo(u, j), GoesOn(u, j) PROVE \E x \in Nat : EndsAt(s, x)
  <2> DEFINE x == n + 1 + j
  <2>1. x \in Nat /\ IsBehind(x, n, j)
    BY <1>b DEF IsBehind
  <2> HIDE DEF x
  <2>2. x \in 1..Len(s) /\ Piece(s, n, x) /\ GoesOn(s, x)
    BY <1>3, <1>5, <1>b, <2>1, BehindSign
  <2>3. IsAttribute(SubSeq(s, 1, x))
    BY <1>b, <2>2, PieceIs
  <2>4. EndsAt(s, x)
    BY <2>2, <2>3 DEF EndsAt
  <2> QED BY <2>1, <2>4
<1>6. CASE u # <<>> /\ u[1] = "q"
  <2>1. PICK c \in 1..Len(u) : QuotedTo(u, c)
    <3>1. (u # <<>> /\ u[1] = "q" /\ \A c \in 1..Len(u) : ~QuotedTo(u, c)) => Attribute(s) = NULL
      BY <1>3, <1>b, AttributeIs
    <3> QED BY <1>6, <3>1, Zenon DEF NoNull
  <2>2. Attribute(s) = IF c > 2 /\ GoesOn(u, c) THEN TakenQuoted(s, n, u, c) ELSE NULL
    <3>1. \A d \in 1..Len(u) :
            QuotedTo(u, d) => Attribute(s) = IF d > 2 /\ GoesOn(u, d)
                                             THEN TakenQuoted(s, n, u, d) ELSE NULL
      BY <1>3, <1>b, AttributeIs
    <3> QED BY <2>1, <3>1
  <2>3. c > 2 /\ GoesOn(u, c)
    BY <2>2, Zenon DEF NoNull
  <2>4. ValueTo(u, c)
    BY <2>1, <2>3 DEF ValueTo
  <2> QED BY <1>5, <2>3, <2>4
<1>7. CASE ~(u # <<>> /\ u[1] = "q")
  <2>1. PICK m \in 0..Len(u) : PlainTo(u, m)
    BY <1>4, <1>7, ValueIs
  <2>2. Attribute(s) = IF m > 0 /\ GoesOn(u, m) THEN TakenPlain(s, n, u, m) ELSE NULL
    <3>1. ~(u # <<>> /\ u[1] = "q") => \A d \in 0..Len(u) :
            PlainTo(u, d) => Attribute(s) = IF d > 0 /\ GoesOn(u, d)
                                            THEN TakenPlain(s, n, u, d) ELSE NULL
      BY <1>3, <1>b, AttributeIs
    <3> QED BY <1>7, <2>1, <3>1, Zenon
  <2>3. m > 0 /\ GoesOn(u, m)
    BY <2>2, Zenon DEF NoNull
  <2>4. m \in 1..Len(u) /\ u # <<>>
    BY <1>4, <2>3
  <2>5. ValueTo(u, m)
    <3>1. \A i \in 1..m : u[i] # ","
      BY <2>1 DEF PlainTo
    <3> QED BY <1>7, <2>4, <3>1, Zenon DEF ValueTo
  <2> QED BY <1>5, <2>3, <2>4, <2>5
<1> QED BY <1>6, <1>7

-----------------------------------------------------------------------------
(* Lists of attributes                                                         *)

CommasFrom(s, k) == {i \in k..Len(s) : s[i] = ","}

\* The pieces between neighbouring ends are attributes.
Pieced(s, ends) ==
  \A i, j \in ends : (i < j /\ \A m \in ends : m <= i \/ j <= m)
                       => IsAttribute(SubSeq(s, i + 1, j - 1))

\* The text from k on is a list of attributes.
ListFrom(s, k) == \E cuts \in SUBSET CommasFrom(s, k) : Pieced(s, cuts \cup {k - 1, Len(s) + 1})

\* The list from k on has its first attribute ahead of e.
FirstEnds(s, k, e) ==
  /\ e \in k..(Len(s) + 1) /\ IsAttribute(SubSeq(s, k, e - 1))
  /\ e = Len(s) + 1 \/ (e \in CommasFrom(s, k) /\ ListFrom(s, e + 1))

LEMMA ListSplits ==
  ASSUME NEW s \in Seq(STRING), NEW k \in 1..(Len(s) + 1)
  PROVE  ListFrom(s, k) <=> \E e \in Nat : FirstEnds(s, k, e)
<1> DEFINE N == Len(s)
<1>0. N \in Nat /\ k \in Nat /\ k >= 1 /\ k <= N + 1
  OBVIOUS
<1>1. ASSUME ListFrom(s, k) PROVE \E e \in Nat : FirstEnds(s, k, e)
  <2>1. PICK cuts \in SUBSET CommasFrom(s, k) : Pieced(s, cuts \cup {k - 1, N + 1})
    BY <1>1 DEF ListFrom
  <2> DEFINE ends == cuts \cup {k - 1, N + 1}
  <2>2. \A i \in cuts : i \in k..N
    BY DEF CommasFrom
  <2>3. PICK e \in cuts \cup {N + 1} : \A i \in cuts \cup {N + 1} : e <= i
    <3>1. cuts \cup {N + 1} \in SUBSET Nat /\ cuts \cup {N + 1} # {}
      BY <1>0, <2>2
    <3> QED BY <3>1, LeastNat
  <2>4. e \in k..(N + 1) /\ e \in Nat
    BY <1>0, <2>2, <2>3
  <2>5. IsAttribute(SubSeq(s, k, e - 1))
    <3>1. k - 1 \in ends /\ e \in ends /\ k - 1 < e /\ (k - 1) + 1 = k
      BY <1>0, <2>4
    <3>2. \A m \in ends : m <= k - 1 \/ e <= m
      BY <1>0, <2>3
    <3>3. IsAttribute(SubSeq(s, (k - 1) + 1, e - 1))
      <4> HIDE DEF ends
      <4> QED BY <2>1, <3>1, <3>2 DEF Pieced, ends
    <3> QED BY <3>1, <3>3
  <2>6. CASE e = N + 1
    BY <2>4, <2>5, <2>6 DEF FirstEnds
  <2>7. CASE e # N + 1
    <3> DEFINE rest == cuts \ {e}
               later == rest \cup {(e + 1) - 1, N + 1}
    <3>1. e \in cuts /\ e \in CommasFrom(s, k) /\ (e + 1) - 1 = e
      BY <2>3, <2>4, <2>7
    <3>2. rest \in SUBSET CommasFrom(s, e + 1)
      <4>1. ASSUME NEW i \in rest PROVE i \in CommasFrom(s, e + 1)
        <5>1. i \in k..N /\ e <= i /\ i # e
          BY <2>2, <2>3
        <5>2. i \in (e + 1)..N
          BY <2>4, <5>1
        <5>3. i \in CommasFrom(s, k)
          OBVIOUS
        <5> QED BY <5>2, <5>3 DEF CommasFrom
      <4> QED BY <4>1
    <3>3. later \subseteq ends /\ ends \subseteq later \cup {k - 1}
      BY <3>1
    <3>4. \A i \in later : i \in Nat /\ k - 1 < i
      BY <1>0, <2>2, <2>4
    <3>5. Pieced(s, later)
      <4> HIDE DEF later, rest
      <4>1. ASSUME NEW i \in later, NEW j \in later, i < j, \A m \in later : m <= i \/ j <= m
            PROVE  IsAttribute(SubSeq(s, i + 1, j - 1))
        <5>1. i \in ends /\ j \in ends
          BY <3>3
        <5>2. \A m \in ends : m <= i \/ j <= m
          <6>1. k - 1 <= i
            BY <1>0, <3>4
          <6> QED BY <3>3, <4>1, <6>1
        <5> HIDE DEF ends
        <5> QED BY <2>1, <4>1, <5>1, <5>2 DEF Pieced, ends
      <4> QED BY <4>1 DEF Pieced
    <3>6. ListFrom(s, e + 1)
      <4> HIDE DEF rest
      <4> QED BY <3>2, <3>5 DEF ListFrom
    <3> QED BY <2>4, <2>5, <3>1, <3>6 DEF FirstEnds
  <2> QED BY <2>6, <2>7
<1>2. ASSUME NEW e \in Nat, FirstEnds(s, k, e) PROVE ListFrom(s, k)
  <2>1. e \in k..(N + 1) /\ IsAttribute(SubSeq(s, k, e - 1))
    BY <1>2 DEF FirstEnds
  <2>2. CASE e = N + 1
    <3> DEFINE ends == {} \cup {k - 1, N + 1}
    <3>1. \A i, j \in ends : i < j => i = k - 1 /\ j = e
      BY <1>0, <2>2
    <3>2. Pieced(s, ends)
      <4>1. (k - 1) + 1 = k
        BY <1>0
      <4> HIDE DEF ends
      <4> QED BY <2>1, <3>1, <4>1 DEF Pieced
    <3> QED BY <3>2 DEF ListFrom
  <2>3. CASE e # N + 1
    <3>1. e \in CommasFrom(s, k) /\ ListFrom(s, e + 1)
      BY <1>2, <2>3 DEF FirstEnds
    <3>2. PICK rest \in SUBSET CommasFrom(s, e + 1) : Pieced(s, rest \cup {(e + 1) - 1, N + 1})
      BY <3>1 DEF ListFrom
    <3> DEFINE cuts == rest \cup {e}
               later == rest \cup {(e + 1) - 1, N + 1}
               ends == cuts \cup {k - 1, N + 1}
    <3>a. e \in k..N
      BY <3>1, Zenon DEF CommasFrom
    <3>3. e \in k..N /\ (e + 1) - 1 = e
      BY <3>a
    <3>4. \A i \in rest : i \in (e + 1)..N
      BY <3>2 DEF CommasFrom
    <3>5. cuts \in SUBSET CommasFrom(s, k)
      <4>1. ASSUME NEW i \in rest PROVE i \in CommasFrom(s, k)
        <5>1. i \in k..N
          BY <1>0, <3>3, <3>4
        <5>2. i \in CommasFrom(s, e + 1)
          OBVIOUS
        <5> QED BY <5>1, <5>2 DEF CommasFrom
      <4> QED BY <3>1, <4>1
    <3>6. /\ \A i \in ends : i = k - 1 \/ i \in later
          /\ later \subseteq ends /\ e \in later /\ e \in ends
      BY <3>3
    <3>7. \A i \in later : i \in Nat /\ e <= i /\ k <= i
      BY <1>0, <3>3, <3>4
    <3>8. Pieced(s, ends)
      <4> HIDE DEF later, ends, cuts
      <4>1. ASSUME NEW i \in ends, NEW j \in ends, i < j, \A m \in ends : m <= i \/ j <= m
            PROVE  IsAttribute(SubSeq(s, i + 1, j - 1))
        <5>1. CASE i = k - 1
          <6>1. j \in later
            BY <1>0, <3>6, <4>1, <5>1
          <6>2. j = e
            <7>1. e <= i \/ j <= e
              BY <3>6, <4>1
            <7>2. e <= j /\ j \in Nat /\ ~(e <= i)
              BY <1>0, <3>3, <3>7, <5>1, <6>1
            <7> QED BY <7>1, <7>2
          <6>3. i + 1 = k
            BY <1>0, <5>1
          <6> QED BY <2>1, <6>2, <6>3
        <5>2. CASE i # k - 1
          <6>1. i \in later
            BY <3>6, <5>2
          <6>2. j \in later
            <7>1. j # k - 1
              BY <1>0, <3>7, <4>1, <6>1
            <7> QED BY <3>6, <7>1
          <6>3. \A m \in later : m <= i \/ j <= m
            BY <3>6, <4>1
          <6> QED BY <3>2, <4>1, <6>1, <6>2, <6>3 DEF Pieced, later
        <5> QED BY <5>1, <5>2
      <4> QED BY <4>1 DEF Pieced
    <3> QED BY <3>5, <3>8 DEF ListFrom
  <2> QED BY <2>2, <2>3
<1> QED BY <1>1, <1>2

Here(s, k)  == Attribute(SubSeq(s, k, Len(s)))
After(s, k) == Len(s) + 1 - Len(Here(s, k).rest)

\* The attribute at k ends ahead of e, where the list ends or goes on.
EndHere(s, k, e) ==
  /\ e \in (k + 1)..(Len(s) + 1) /\ IsAttribute(SubSeq(s, k, e - 1))
  /\ e = Len(s) + 1 \/ (e < Len(s) /\ s[e] = ",")

LEMMA EndHereIsEnd ==
  ASSUME NEW s \in Seq(STRING), NEW k \in 1..Len(s), NEW e \in Nat, NEW x \in Nat, e = k + x
  PROVE  EndHere(s, k, e) <=> EndsAt(SubSeq(s, k, Len(s)), x)
<1> DEFINE t == SubSeq(s, k, Len(s))
           N == Len(s)
<1>0. e = k + x /\ N \in Nat /\ k \in 1..N
  OBVIOUS
<1>1. /\ t \in Seq(STRING) /\ Len(t) = N - k + 1
      /\ \A i \in 1..(N - k + 1) : t[i] = s[k + i - 1]
  <2>1. N \in 0..N /\ k \in 1..(N + 1) /\ k <= N + 1
    OBVIOUS
  <2> QED BY <2>1, CutOf
<1> HIDE DEF t
<1>2. e \in (k + 1)..(N + 1) <=> x \in 1..Len(t)
  BY <1>0, <1>1
<1>3. ASSUME x \in 1..Len(t) PROVE SubSeq(t, 1, x) = SubSeq(s, k, e - 1)
  <2>1. /\ 1 \in 1..(N + 2 - k) /\ x \in 0..(N + 1 - k) /\ 1 <= x + 1
        /\ k + 1 - 1 = k /\ k + x - 1 = e - 1 /\ k \in 1..(N + 1)
    BY <1>0, <1>1, <1>3
  <2>2. SubSeq(SubSeq(s, k, Len(s)), 1, x) = SubSeq(s, k + 1 - 1, k + x - 1)
    BY <2>1, CutTwice
  <2> QED BY <2>1, <2>2 DEF t
<1>4. ASSUME x \in 1..Len(t)
      PROVE  GoesOn(t, x) <=> (e = N + 1 \/ (e < N /\ s[e] = ","))
  <2>1. x = Len(t) <=> e = N + 1
    BY <1>0, <1>1
  <2>2. x + 1 < Len(t) <=> e < N
    BY <1>0, <1>1
  <2>3. ASSUME x + 1 < Len(t) PROVE t[x + 1] = s[e]
    <3>1. x + 1 \in 1..(N - k + 1) /\ k + (x + 1) - 1 = e
      BY <1>0, <1>1, <1>4, <2>3
    <3> QED BY <1>1, <3>1
  <2> QED BY <2>1, <2>2, <2>3, Zenon DEF GoesOn
<1>5. EndHere(s, k, e) <=> EndsAt(t, x)
  BY <1>2, <1>3, <1>4, Zenon DEF EndHere, EndsAt
<1> QED BY <1>5 DEF t

LEMMA HereIs ==
  ASSUME NEW s \in Seq(STRING), NEW k \in 1..Len(s)
  PROVE  /\ NoNull(Here(s, k)) => \E e \in Nat : EndHere(s, k, e)
         /\ \A e \in Nat : EndHere(s, k, e) =>
              /\ NoNull(Here(s, k)) /\ Here(s, k) \in AttributeNames
              /\ Written(Here(s, k)) = SubSeq(s, k, e - 1)
              /\ After(s, k) = IF e = Len(s) + 1 THEN e ELSE e + 1
<1> DEFINE t == SubSeq(s, k, Len(s))
           N == Len(s)
           a == Attribute(t)
<1>0. N \in Nat /\ k \in 1..N /\ k \in Nat /\ N = Len(s)
  OBVIOUS
<1>1. t \in Seq(STRING) /\ Len(t) = N - k + 1
  <2>1. N \in 0..N /\ k \in 1..(N + 1) /\ k <= N + 1
    OBVIOUS
  <2> QED BY <2>1, CutOf
<1>2. a = Here(s, k)
  BY DEF Here
<1>3. ASSUME NoNull(a) PROVE \E e \in Nat : EndHere(s, k, e)
  <2>1. PICK x \in Nat : EndsAt(t, x)
    <3> HIDE DEF t
    <3> QED BY <1>1, <1>3, AttributeEnds
  <2> DEFINE e == k + x
  <2>2. e \in Nat /\ e = k + x
    BY <1>0
  <2> HIDE DEF e
  <2>3. EndHere(s, k, e)
    BY <2>1, <2>2, EndHereIsEnd
  <2> QED BY <2>2, <2>3
<1>4. ASSUME NEW e \in Nat, EndHere(s, k, e)
      PROVE  /\ NoNull(a) /\ a \in AttributeNames /\ Written(a) = SubSeq(s, k, e - 1)
             /\ N + 1 - Len(a.rest) = IF e = N + 1 THEN e ELSE e + 1
  <2>1. e \in (k + 1)..(N + 1) /\ (e = N + 1 \/ e < N)
    <3>1. e \in (k + 1)..(N + 1)
      BY <1>4 DEF EndHere
    <3>2. e = N + 1 \/ e < N
      BY <1>4, Zenon DEF EndHere
    <3> QED BY <3>1, <3>2
  <2> DEFINE x == e - k
  <2>2. x \in Nat /\ e = k + x /\ x \in 1..Len(t)
    BY <1>0, <1>1, <2>1
  <2> HIDE DEF x
  <2>3. EndsAt(t, x)
    BY <1>4, <2>2, EndHereIsEnd
  <2>4. NoNull(a) /\ Reads(t, x, a)
    <3> HIDE DEF t
    <3> QED BY <1>1, <2>2, <2>3, AttributeTaken
  <2>5. a \in AttributeNames /\ Written(a) = SubSeq(t, 1, x) /\ a.rest = SubSeq(t, x + 2, Len(t))
    BY <2>4 DEF Reads
  <2>6. SubSeq(t, 1, x) = SubSeq(s, k, e - 1)
    <3>1. /\ 1 \in 1..(N + 2 - k) /\ x \in 0..(N + 1 - k) /\ 1 <= x + 1
          /\ k + 1 - 1 = k /\ k + x - 1 = e - 1 /\ k \in 1..(N + 1)
      BY <1>0, <1>1, <2>2
    <3>2. SubSeq(SubSeq(s, k, Len(s)), 1, x) = SubSeq(s, k + 1 - 1, k + x - 1)
      BY <3>1, CutTwice
    <3> QED BY <3>1, <3>2
  <2>7. Len(SubSeq(t, x + 2, Len(t))) = IF e = N + 1 THEN 0 ELSE N - e
    <3> HIDE DEF t
    <3>1. CASE e = N + 1
      <4>1. x + 2 \in Int /\ Len(t) \in Int /\ Len(t) < x + 2
        BY <1>0, <1>1, <2>2, <3>1
      <4>2. SubSeq(t, x + 2, Len(t)) = <<>>
        BY <4>1, SubSeqEmpty
      <4> QED BY <3>1, <4>2
    <3>2. CASE e < N
      <4> DEFINE i == x + 2
      <4>1. /\ i \in 1..(Len(t) + 1) /\ Len(t) \in 0..Len(t) /\ i <= Len(t) + 1
            /\ Len(t) - i + 1 = N - e /\ e # N + 1
        BY <1>0, <1>1, <2>2, <3>2
      <4> HIDE DEF i
      <4>2. Len(SubSeq(t, i, Len(t))) = Len(t) - i + 1
        BY <1>1, <4>1, CutOf
      <4> QED BY <4>1, <4>2 DEF i
    <3> QED BY <2>1, <3>1, <3>2
  <2>8. N + 1 - Len(a.rest) = IF e = N + 1 THEN e ELSE e + 1
    <3> DEFINE l == Len(a.rest)
    <3>1. l = IF e = N + 1 THEN 0 ELSE N - e
      BY <2>5, <2>7
    <3> HIDE DEF l, a, t
    <3>2. N + 1 - l = IF e = N + 1 THEN e ELSE e + 1
      BY <1>0, <2>1, <3>1
    <3> QED BY <3>2 DEF l
  <2> QED BY <2>4, <2>5, <2>6, <2>8
<1> HIDE DEF a
<1> QED BY <1>2, <1>3, <1>4 DEF After

Attribute3 == [name : Seq(STRING), value : Seq(STRING), quoted : BOOLEAN]
Shown(a) == [name |-> a.name, value |-> a.value, quoted |-> a.quoted]

\* F has the attributes from each position on.
ReadsOn(F, s) ==
  \A k \in 1..(Len(s) + 1) :
    /\ F[k] \in Seq(Attribute3) \cup {NULL}
    /\ F[k] = IF k > Len(s) THEN <<>>
              ELSE IF Here(s, k) = NULL THEN NULL
              ELSE IF F[After(s, k)] = NULL THEN NULL
              ELSE <<Shown(Here(s, k))>> \o F[After(s, k)]

LEMMA HereGoesOn ==
  ASSUME NEW s \in Seq(STRING), NEW k \in 1..Len(s), NoNull(Here(s, k))
  PROVE  After(s, k) \in (k + 1)..(Len(s) + 1) /\ Shown(Here(s, k)) \in Attribute3
<1>1. PICK e \in Nat : EndHere(s, k, e)
  BY HereIs
<1>2. Here(s, k) \in AttributeNames /\ After(s, k) = IF e = Len(s) + 1 THEN e ELSE e + 1
  BY <1>1, HereIs
<1>3. e \in (k + 1)..(Len(s) + 1)
  BY <1>1 DEF EndHere
<1>4. Shown(Here(s, k)) \in Attribute3
  BY <1>2 DEF Shown, Attribute3, AttributeNames
<1>5. After(s, k) \in (k + 1)..(Len(s) + 1)
  BY <1>2, <1>3
<1> QED BY <1>4, <1>5

LEMMA AttributesRead ==
  ASSUME NEW s \in Seq(STRING)
  PROVE  \E F : ReadsOn(F, s) /\ Attributes(s) = F[1]
<1> DEFINE n == Len(s) + 1
           V == Seq(Attribute3) \cup {NULL}
           ends == {k \in 1..n : k > Len(s) \/ ~NoNull(Here(s, k))}
           base == [k \in 1..n |-> IF k > Len(s) THEN <<>> ELSE NULL]
           next == [k \in 1..n |-> After(s, k)]
           step == [x \in (1..n) \X V |->
                      IF x[1] \in ends \/ x[2] = NULL THEN NULL ELSE <<Shown(Here(s, x[1]))>> \o x[2]]
           Loop(g) == g = [k \in 1..(Len(s) + 1) |->
             IF k > Len(s) THEN <<>>
             ELSE LET a == Attribute(SubSeq(s, k, Len(s)))
                  IN IF a = NULL THEN NULL
                     ELSE LET others == g[Len(s) + 1 - Len(a.rest)]
                          IN IF others = NULL THEN NULL
                             ELSE <<[name |-> a.name, value |-> a.value, quoted |-> a.quoted]>> \o others]
           Does(g, k) == g[k] = IF k > Len(s) THEN <<>>
                                ELSE IF Here(s, k) = NULL THEN NULL
                                ELSE IF g[After(s, k)] = NULL THEN NULL
                                ELSE <<Shown(Here(s, k))>> \o g[After(s, k)]
           F == CHOOSE g : Loop(g)
<1>1. n \in Nat /\ n = Len(s) + 1
  OBVIOUS
<1>2. \A k \in 1..n : k \in ends <=> (k > Len(s) \/ Here(s, k) = NULL)
  BY DEF NoNull
<1>3. ASSUME NEW k \in 1..n, k \notin ends
      PROVE  k \in 1..Len(s) /\ next[k] = After(s, k) /\ next[k] \in (k + 1)..n
             /\ Shown(Here(s, k)) \in Attribute3
  <2>1. k \in 1..Len(s) /\ NoNull(Here(s, k))
    BY <1>3
  <2>2. next[k] = After(s, k)
    OBVIOUS
  <2> HIDE DEF next, ends
  <2> QED BY <2>1, <2>2, HereGoesOn
<1>4. base \in [1..n -> V] /\ \A k \in 1..n : base[k] = IF k > Len(s) THEN <<>> ELSE NULL
  <2>1. <<>> \in V /\ NULL \in V
    OBVIOUS
  <2> HIDE DEF V
  <2> QED BY <2>1
<1>5. \A a \in Attribute3 : \A w \in V : w # NULL => <<a>> \o w \in V
  <2> DEFINE A == Attribute3
  <2> HIDE DEF A
  <2>1. \A a \in A : \A w \in Seq(A) : <<a>> \o w \in Seq(A)
    OBVIOUS
  <2> QED BY <2>1 DEF A
<1>6. step \in [(1..n) \X V -> V]
  <2>1. NULL \in V
    OBVIOUS
  <2> HIDE DEF V, ends, n, next
  <2>2. ASSUME NEW x \in (1..n) \X V PROVE step[x] \in V
    <3>1. x[1] \in 1..n /\ x[2] \in V
      OBVIOUS
    <3>2. CASE x[1] \in ends \/ x[2] = NULL
      BY <2>1, <3>2
    <3>3. CASE ~(x[1] \in ends \/ x[2] = NULL)
      <4>1. Shown(Here(s, x[1])) \in Attribute3
        BY <1>3, <3>1, <3>3
      <4>2. <<Shown(Here(s, x[1]))>> \o x[2] \in V
        BY <1>5, <3>1, <3>3, <4>1
      <4> QED BY <3>3, <4>2
    <3> QED BY <3>2, <3>3
  <2> QED BY <2>2
<1>7. \A k \in 1..n : k \notin ends => \A w \in V :
        step[<<k, w>>] = IF w = NULL THEN NULL ELSE <<Shown(Here(s, k))>> \o w
  <2> HIDE DEF ends, n, V
  <2> QED OBVIOUS
<1> HIDE DEF base, step, next, ends, n
<1>8. PICK g \in [1..n -> V] : Jumps(g, n, ends, base, step, next)
  <2>1. Forward(n, ends, next)
    BY <1>3 DEF Forward
  <2> HIDE DEF V
  <2> QED BY <1>1, <1>4, <1>6, <2>1, JumpRecursion
<1>9. Loop(g)
  <2>1. ASSUME NEW k \in 1..n PROVE Does(g, k)
    <3> HIDE DEF V
    <3>1. g[k] = IF k \in ends THEN base[k] ELSE step[<<k, g[next[k]]>>]
      BY <1>8 DEF Jumps
    <3>2. CASE k \in ends
      BY <1>2, <1>4, <3>1, <3>2
    <3>3. CASE k \notin ends
      <4>1. next[k] \in 1..n /\ next[k] = After(s, k)
        BY <1>1, <1>3, <3>3
      <4>2. g[next[k]] \in V
        BY <4>1
      <4>3. ~(k > Len(s)) /\ Here(s, k) # NULL
        BY <1>2, <3>3
      <4>4. g[k] = IF g[After(s, k)] = NULL THEN NULL ELSE <<Shown(Here(s, k))>> \o g[After(s, k)]
        BY <1>7, <3>1, <3>3, <4>1, <4>2
      <4> QED BY <4>3, <4>4
    <3> QED BY <3>2, <3>3
  <2> HIDE DEF V
  <2> QED BY <2>1, <1>1 DEF Here, After, Shown
<1>10. Loop(F)
  BY <1>9
<1>11. Attributes(s) = F[1]
  BY DEF Attributes
<1> HIDE DEF F
<1>12. \A k \in 1..n : Does(F, k)
  BY <1>1, <1>10 DEF Here, After, Shown
<1> HIDE DEF Loop
<1> DEFINE T == {k \in 1..n : F[k] \in V}
<1>13. ASSUME NEW k \in 1..n, \A j \in 1..n : j > k => j \in T PROVE k \in T
  <2>0. <<>> \in V /\ NULL \in V
    OBVIOUS
  <2>a. F[k] = IF k > Len(s) THEN <<>>
               ELSE IF Here(s, k) = NULL THEN NULL
               ELSE IF F[After(s, k)] = NULL THEN NULL
               ELSE <<Shown(Here(s, k))>> \o F[After(s, k)]
    BY <1>12
  <2> HIDE DEF Does, V
  <2>1. CASE k \in ends
    <3>1. F[k] = <<>> \/ F[k] = NULL
      BY <1>2, <2>a, <2>1
    <3> QED BY <2>0, <3>1
  <2>2. CASE k \notin ends
    <3> DEFINE l == After(s, k)
    <3>1. l \in (k + 1)..n /\ Shown(Here(s, k)) \in Attribute3
      BY <1>3, <2>2
    <3>2. l \in 1..n /\ l > k
      BY <1>1, <3>1
    <3>3. F[l] \in V
      BY <1>13, <3>2
    <3>4. F[k] = IF F[l] = NULL THEN NULL ELSE <<Shown(Here(s, k))>> \o F[l]
      BY <1>2, <2>a, <2>2
    <3> HIDE DEF l
    <3>5. CASE F[l] = NULL
      BY <2>0, <3>4, <3>5
    <3>6. CASE F[l] # NULL
      <4>1. <<Shown(Here(s, k))>> \o F[l] \in V
        BY <1>5, <3>1, <3>3, <3>6
      <4> QED BY <3>4, <3>6, <4>1
    <3> QED BY <3>5, <3>6
  <2> QED BY <2>1, <2>2
<1>14. T = 1..n
  <2>1. T \in SUBSET (1..n)
    OBVIOUS
  <2> HIDE DEF T
  <2> QED BY <1>1, <1>13, <2>1, DownInduction
<1>15. ReadsOn(F, s)
  <2>1. ASSUME NEW k \in 1..n PROVE F[k] \in V /\ Does(F, k)
    <3> HIDE DEF V, Does
    <3> QED BY <1>12, <1>14
  <2> QED BY <1>1, <2>1 DEF ReadsOn
<1> QED BY <1>11, <1>15

\* An end of the first attribute is one with which the list ends or goes on.
LEMMA FirstIsEnd ==
  ASSUME NEW s \in Seq(STRING), NEW k \in 1..Len(s), NEW e \in Nat
  PROVE  FirstEnds(s, k, e) <=> EndHere(s, k, e) /\ (e = Len(s) + 1 \/ ListFrom(s, e + 1))
<1> DEFINE N == Len(s)
<1>0. N \in Nat /\ k \in 1..N /\ k \in Nat
  OBVIOUS
<1>1. ASSUME NEW i \in 1..(N + 1) PROVE ~IsAttribute(SubSeq(s, i, i - 1))
  <2>1. SubSeq(s, i, i - 1) = <<>>
    <3>1. i \in Int /\ i - 1 \in Int /\ i - 1 < i
      OBVIOUS
    <3> QED BY <3>1, SubSeqEmpty
  <2>2. ~IsAttribute(<<>>)
    BY DEF IsAttribute
  <2> QED BY <2>1, <2>2
<1>2. ~ListFrom(s, N + 1)
  <2>1. ASSUME NEW x \in Nat, FirstEnds(s, N + 1, x) PROVE FALSE
    <3>1. x \in (N + 1)..(N + 1) /\ IsAttribute(SubSeq(s, N + 1, x - 1))
      BY <2>1 DEF FirstEnds
    <3>2. x = N + 1 /\ N + 1 \in 1..(N + 1)
      BY <1>0, <3>1
    <3> QED BY <1>1, <3>1, <3>2
  <2>2. N + 1 \in 1..(N + 1)
    BY <1>0
  <2> QED BY <2>1, <2>2, ListSplits
<1>3. ASSUME FirstEnds(s, k, e) PROVE EndHere(s, k, e) /\ (e = N + 1 \/ ListFrom(s, e + 1))
  <2>1. e \in k..(N + 1) /\ IsAttribute(SubSeq(s, k, e - 1))
        /\ (e = N + 1 \/ (e \in CommasFrom(s, k) /\ ListFrom(s, e + 1)))
    BY <1>3 DEF FirstEnds
  <2>2. e # k
    <3>1. k \in 1..(N + 1)
      BY <1>0
    <3> QED BY <1>1, <2>1, <3>1
  <2>3. e \in (k + 1)..(N + 1)
    BY <1>0, <2>1, <2>2
  <2>4. e = N + 1 \/ (e \in k..N /\ s[e] = "," /\ e # N)
    <3>1. e = N => e + 1 = N + 1
      OBVIOUS
    <3> QED BY <1>2, <2>1, <3>1, Zenon DEF CommasFrom
  <2>5. e \in k..N /\ e # N => e < N
    BY <1>0
  <2> QED BY <2>1, <2>3, <2>4, <2>5, Zenon DEF EndHere
<1>4. ASSUME EndHere(s, k, e), e = N + 1 \/ ListFrom(s, e + 1) PROVE FirstEnds(s, k, e)
  <2>1. e \in (k + 1)..(N + 1)
    BY <1>4 DEF EndHere
  <2>2. IsAttribute(SubSeq(s, k, e - 1)) /\ (e = N + 1 \/ (e < N /\ s[e] = ","))
    BY <1>4, Zenon DEF EndHere
  <2>3. e \in k..(N + 1) /\ (e < N => e \in k..N)
    BY <1>0, <2>1
  <2>4. e = N + 1 \/ e \in CommasFrom(s, k)
    BY <2>2, <2>3, Zenon DEF CommasFrom
  <2> QED BY <1>4, <2>2, <2>3, <2>4, Zenon DEF FirstEnds
<1> QED BY <1>3, <1>4

\* What stands at a position is what its attribute and the position behind it give.
LEMMA OnFrom ==
  ASSUME NEW s \in Seq(STRING), NEW F, ReadsOn(F, s), NEW k \in 1..Len(s),
         NoNull(Here(s, k)), NEW l, l = After(s, k)
  PROVE  /\ l \in (k + 1)..(Len(s) + 1) /\ F[l] \in Seq(Attribute3) \cup {NULL}
         /\ NoNull(F[k]) <=> NoNull(F[l])
         /\ NoNull(F[l]) => F[k] = <<Shown(Here(s, k))>> \o F[l]
<1> DEFINE A == Attribute3
           a == Shown(Here(s, k))
<1>1. l \in (k + 1)..(Len(s) + 1) /\ l = After(s, k) /\ a \in A
  BY HereGoesOn
<1>2. l \in 1..(Len(s) + 1) /\ k \in 1..(Len(s) + 1) /\ ~(k > Len(s))
  BY <1>1
<1>3. F[l] \in Seq(A) \cup {NULL}
  BY <1>2 DEF ReadsOn
<1>4. F[k] = IF F[l] = NULL THEN NULL ELSE <<a>> \o F[l]
  <2>1. F[k] = IF k > Len(s) THEN <<>>
               ELSE IF Here(s, k) = NULL THEN NULL
               ELSE IF F[After(s, k)] = NULL THEN NULL
               ELSE <<Shown(Here(s, k))>> \o F[After(s, k)]
    BY <1>2 DEF ReadsOn
  <2> QED BY <1>1, <1>2, <2>1 DEF NoNull
<1>5. NULL \notin Seq(A)
  BY NullAssumption DEF Attribute3
<1> HIDE DEF A, a
<1>6. F[l] # NULL => <<a>> \o F[l] \in Seq(A)
  BY <1>1, <1>3
<1>7. NoNull(F[k]) <=> NoNull(F[l])
  BY <1>4, <1>5, <1>6 DEF NoNull
<1> QED BY <1>1, <1>3, <1>4, <1>7 DEF NoNull, A, a

\* The attributes from a position on are read exactly when the text from there is a list.
LEMMA ListRead ==
  ASSUME NEW s \in Seq(STRING), NEW F, ReadsOn(F, s), NEW k \in 1..Len(s)
  PROVE  NoNull(F[k]) <=> ListFrom(s, k)
<1> DEFINE N == Len(s)
           n == N + 1
           Same(j) == j <= N => (NoNull(F[j]) <=> ListFrom(s, j))
           T == {j \in 1..n : Same(j)}
<1>0. N \in Nat /\ n \in Nat /\ n = N + 1
  OBVIOUS
<1>1. NoNull(F[n])
  <2>1. n \in 1..n /\ n > N
    BY <1>0
  <2>2. F[n] = <<>>
    BY <2>1 DEF ReadsOn
  <2>3. <<>> \in Seq(Attribute3)
    OBVIOUS
  <2> QED BY <2>2, <2>3, NullAssumption DEF NoNull, Attribute3
<1>2. ASSUME NEW j \in 1..n, \A i \in 1..n : i > j => i \in T PROVE j \in T
  <2>1. SUFFICES ASSUME j <= N PROVE NoNull(F[j]) <=> ListFrom(s, j)
    OBVIOUS
  <2>2. j \in 1..N /\ j \in 1..(N + 1)
    BY <1>0, <2>1
  <2>3. ASSUME NEW e \in Nat, EndHere(s, j, e)
        PROVE  NoNull(F[j]) <=> (e = N + 1 \/ ListFrom(s, e + 1))
    <3> DEFINE l == After(s, j)
    <3>1. NoNull(Here(s, j)) /\ l = IF e = N + 1 THEN e ELSE e + 1
      BY <2>2, <2>3, HereIs
    <3>2. NoNull(F[j]) <=> NoNull(F[l])
      BY <2>2, <3>1, OnFrom
    <3>3. e \in (j + 1)..(N + 1)
      BY <2>3 DEF EndHere
    <3>a. e = N + 1 \/ e < N
      BY <2>3, Zenon DEF EndHere
    <3> HIDE DEF l
    <3>4. CASE e = N + 1
      BY <1>1, <3>1, <3>2, <3>4
    <3>5. CASE e < N
      <4>1. e + 1 \in 1..n /\ e + 1 > j /\ e + 1 <= N /\ e # N + 1 /\ l = e + 1
        BY <1>0, <2>2, <3>1, <3>3, <3>5
      <4>2. NoNull(F[e + 1]) <=> ListFrom(s, e + 1)
        <5>1. e + 1 \in T
          BY <1>2, <4>1
        <5> QED BY <4>1, <5>1
      <4> QED BY <3>2, <4>1, <4>2
    <3> QED BY <3>a, <3>4, <3>5
  <2> HIDE DEF T
  <2>4. ASSUME NoNull(F[j]) PROVE ListFrom(s, j)
    <3>1. NoNull(Here(s, j))
      <4>1. F[j] = IF j > Len(s) THEN <<>>
               ELSE IF Here(s, j) = NULL THEN NULL
               ELSE IF F[After(s, j)] = NULL THEN NULL
               ELSE <<Shown(Here(s, j))>> \o F[After(s, j)]
        BY <2>2 DEF ReadsOn
      <4>2. ~(j > Len(s))
        BY <2>2
      <4> QED BY <2>4, <4>1, <4>2, Zenon DEF NoNull
    <3>2. PICK e \in Nat : EndHere(s, j, e)
      BY <2>2, <3>1, HereIs
    <3>3. e = N + 1 \/ ListFrom(s, e + 1)
      BY <2>3, <2>4, <3>2
    <3>4. FirstEnds(s, j, e)
      BY <2>2, <3>2, <3>3, FirstIsEnd
    <3> QED BY <2>2, <3>4, ListSplits
  <2>5. ASSUME ListFrom(s, j) PROVE NoNull(F[j])
    <3>1. PICK e \in Nat : FirstEnds(s, j, e)
      BY <2>2, <2>5, ListSplits
    <3>2. EndHere(s, j, e) /\ (e = N + 1 \/ ListFrom(s, e + 1))
      BY <2>2, <3>1, FirstIsEnd
    <3> QED BY <2>3, <3>2
  <2> QED BY <2>4, <2>5
<1>3. T = 1..n
  <2>1. T \in SUBSET (1..n)
    OBVIOUS
  <2> HIDE DEF T
  <2> QED BY <1>0, <1>2, <2>1, DownInduction
<1>4. k \in T /\ k <= N
  BY <1>0, <1>3
<1> QED BY <1>4

\* A text is a list of attributes when it is one from its first character on.
LEMMA ListIsList ==
  ASSUME NEW s \in Seq(STRING)
  PROVE  IsAttributeList(s) <=> ListFrom(s, 1)
<1>1. DOMAIN s = 1..Len(s)
  OBVIOUS
<1>2. {i \in DOMAIN s : s[i] = ","} = CommasFrom(s, 1)
  BY <1>1, Zenon DEF CommasFrom
<1>3. IsAttributeList(s) <=> \E cuts \in SUBSET CommasFrom(s, 1) : Pieced(s, cuts \cup {0, Len(s) + 1})
  BY <1>2, Zenon DEF IsAttributeList, Pieced
<1>4. 1 - 1 = 0
  OBVIOUS
<1>5. ListFrom(s, 1) <=> \E cuts \in SUBSET CommasFrom(s, 1) : Pieced(s, cuts \cup {0, Len(s) + 1})
  BY <1>4, Zenon DEF ListFrom
<1> QED BY <1>3, <1>5, Zenon

-----------------------------------------------------------------------------
(* Writing a list of attributes down                                           *)

\* Two texts with a comma between them, if there is a first one.
Joint(x, y) == IF x = <<>> THEN y ELSE x \o <<",">> \o y

Listed(L) ==
  FoldLeft(LAMBDA s, a : IF s = <<>> THEN Written(a) ELSE s \o <<",">> \o Written(a), <<>>, L)

\* The loop of Listed.
ListLoop(h, L) ==
  h = [p \in SUBSET DOMAIN L |->
         IF p = {} THEN <<>>
         ELSE IF h[p \ {Max(p)}] = <<>> THEN Written(L[Max(p)])
              ELSE h[p \ {Max(p)}] \o <<",">> \o Written(L[Max(p)])]

\* G has what is written down after each attribute.
Lists(G, L, n, C) ==
  /\ G[0] = <<>> /\ \A k \in 1..n : G[k] = Joint(G[k - 1], Written(L[k]))
  /\ \A k \in 0..n : G[k] \in Seq(C)

HasComma(C) == "," \in C

LEMMA ListedSteps ==
  ASSUME NEW L, NEW n \in Nat, DOMAIN L = 1..n, NEW C, HasComma(C),
         \A i \in 1..n : Written(L[i]) \in Seq(C)
  PROVE  \E G : Listed(L) = G[n] /\ Lists(G, L, n, C)
<1> DEFINE V == Seq(C)
           step == [p \in (1..n) \X V |-> Joint(p[2], Written(L[p[1]]))]
           h == CHOOSE it : ListLoop(it, L)
<1>0. <<>> \in V
  OBVIOUS
<1>1. \A x, y \in V : Joint(x, y) \in V
  <2>1. \A c \in C : <<c>> \in V
    BY OneOf
  <2> DEFINE o == <<",">>
  <2>2. o \in V
    BY <2>1, Zenon DEF HasComma
  <2> HIDE DEF o
  <2>3. \A x, y \in V : x \o y \in V
    OBVIOUS
  <2>4. \A x, y \in V : x \o o \o y \in V
    <3> HIDE DEF V
    <3> QED BY <2>2, <2>3
  <2> QED BY <2>4 DEF Joint, o
<1>2. step \in [(1..n) \X V -> V]
  <2>1. \A i \in 1..n : Written(L[i]) \in V
    OBVIOUS
  <2> HIDE DEF V
  <2>2. \A p \in (1..n) \X V : Joint(p[2], Written(L[p[1]])) \in V
    BY <1>1, <2>1
  <2> QED BY <2>2
<1>3. \A i \in 1..n : \A v \in V : step[<<i, v>>] = Joint(v, Written(L[i]))
  <2> HIDE DEF V
  <2> QED OBVIOUS
<1>4. Listed(L) = h[DOMAIN L]
  BY DEF Listed, FoldLeft, MapThenFoldSet, ListLoop
<1> HIDE DEF V, step, h
<1>5. PICK f \in [SUBSET (1..n) -> V] : FoldOf(f, n, <<>>, step)
  BY <1>0, <1>2, FoldExists
<1>6. ListLoop(f, L)
  <2>1. ASSUME NEW p \in SUBSET (1..n), p # {}
        PROVE  step[<<Max(p), f[p \ {Max(p)}]>>] =
                 IF f[p \ {Max(p)}] = <<>> THEN Written(L[Max(p)])
                 ELSE f[p \ {Max(p)}] \o <<",">> \o Written(L[Max(p)])
    <3>1. Max(p) \in p
      BY <2>1, LastOff
    <3>2. Max(p) \in 1..n /\ f[p \ {Max(p)}] \in V
      BY <3>1
    <3>3. step[<<Max(p), f[p \ {Max(p)}]>>] = Joint(f[p \ {Max(p)}], Written(L[Max(p)]))
      BY <1>3, <3>2
    <3> QED BY <3>3, Zenon DEF Joint
  <2> DEFINE m(p) == step[<<Max(p), f[p \ {Max(p)}]>>]
             w(p) == IF f[p \ {Max(p)}] = <<>> THEN Written(L[Max(p)])
                     ELSE f[p \ {Max(p)}] \o <<",">> \o Written(L[Max(p)])
  <2>2. \A p \in SUBSET (1..n) : p # {} => m(p) = w(p)
    BY <2>1
  <2>3. f = [p \in SUBSET (1..n) |-> IF p = {} THEN <<>> ELSE m(p)]
    BY <1>5, Zenon DEF FoldOf
  <2>4. f = [p \in SUBSET (1..n) |-> IF p = {} THEN <<>> ELSE w(p)]
    <3> HIDE DEF m, w
    <3> QED BY <2>2, <2>3
  <2> QED BY <2>4, Zenon DEF ListLoop
<1>7. ListLoop(h, L)
  BY <1>6, Zenon DEF h
<1>8. h[1..0] = <<>>
  <2>1. 1..0 = {} /\ 1..0 \in SUBSET (1..n)
    OBVIOUS
  <2>2. h[1..0] = IF 1..0 = {} THEN <<>> 
         ELSE IF h[(1..0) \ {Max(1..0)}] = <<>> THEN Written(L[Max(1..0)])
              ELSE h[(1..0) \ {Max(1..0)}] \o <<",">> \o Written(L[Max(1..0)])
    BY <1>7, <2>1, Zenon DEF ListLoop
  <2> QED BY <2>1, <2>2, Zenon
<1>9. ASSUME NEW k \in 1..n PROVE h[1..k] = Joint(h[1..(k - 1)], Written(L[k]))
  <2>1. 1..k \in SUBSET (1..n) /\ 1..k # {} /\ Max(1..k) = k /\ (1..k) \ {k} = 1..(k - 1)
    BY LastOff
  <2>2. h[1..k] = IF 1..k = {} THEN <<>>
         ELSE IF h[(1..k) \ {Max(1..k)}] = <<>> THEN Written(L[Max(1..k)])
              ELSE h[(1..k) \ {Max(1..k)}] \o <<",">> \o Written(L[Max(1..k)])
    BY <1>7, <2>1, Zenon DEF ListLoop
  <2> QED BY <2>1, <2>2, Zenon DEF Joint
<1> DEFINE T == {k \in Nat : k <= n => h[1..k] \in V}
<1>10. 0 \in T
  BY <1>0, <1>8
<1>11. ASSUME NEW k \in T PROVE k + 1 \in T
  <2>1. SUFFICES ASSUME k + 1 <= n PROVE h[1..(k + 1)] \in V
    OBVIOUS
  <2>a. k \in Nat /\ (k <= n => h[1..k] \in V)
    OBVIOUS
  <2> HIDE DEF T
  <2>b. k + 1 \in 1..n /\ (k + 1) - 1 = k /\ k <= n
    BY <2>1, <2>a
  <2>2. k + 1 \in 1..n /\ (k + 1) - 1 = k /\ h[1..k] \in V
    BY <2>a, <2>b
  <2>3. h[1..(k + 1)] = Joint(h[1..k], Written(L[k + 1]))
    BY <1>9, <2>2
  <2>4. Written(L[k + 1]) \in V
    BY <2>2 DEF V
  <2> QED BY <1>1, <2>2, <2>3, <2>4
<1>12. T = Nat
  <2>1. T \in SUBSET Nat
    OBVIOUS
  <2> HIDE DEF T
  <2> QED BY <1>10, <1>11, <2>1, SetInduction
<1> DEFINE G == [k \in 0..n |-> h[1..k]]
<1>13. \A k \in 0..n : G[k] = h[1..k] /\ G[k] \in V
  <2>1. \A k \in Nat : k <= n => h[1..k] \in V
    BY <1>12
  <2> HIDE DEF T
  <2>2. \A k \in 0..n : k \in Nat /\ k <= n
    OBVIOUS
  <2> QED BY <2>1, <2>2
<1>14. \A k \in 1..n : k \in 0..n /\ k - 1 \in 0..n
  OBVIOUS
<1>15. 0 \in 0..n /\ n \in 0..n
  OBVIOUS
<1> HIDE DEF G, T
<1>16. Lists(G, L, n, C)
  <2>1. G[0] = <<>>
    BY <1>8, <1>13, <1>15
  <2>2. \A k \in 1..n : G[k] = Joint(G[k - 1], Written(L[k]))
    BY <1>9, <1>13, <1>14
  <2> QED BY <1>13, <2>1, <2>2 DEF Lists, V
<1> QED BY <1>4, <1>13, <1>15, <1>16

\* None of the attributes is written as nothing.
Writable(t, m, C) == \A k \in 1..m : Written(t[k]) \in Seq(C) /\ Written(t[k]) # <<>>

\* How an attribute is written ahead of what F has for the ones behind it.
Led(x, F, k) == IF k = 0 THEN x ELSE x \o <<",">> \o F[k]

\* f is what F has after the first k, and it is nothing when there are none.
Placed(f, F, k) == f = F[k] /\ (k = 0 <=> f = <<>>)

\* What is written after an attribute and k more, and after the k more alone.
LEMMA LeadsOn ==
  ASSUME NEW C, HasComma(C), NEW x \in Seq(C), x # <<>>, NEW w \in Seq(C), w # <<>>,
         NEW k \in Nat, NEW F, NEW f \in Seq(C), Placed(f, F, k)
  PROVE  /\ F[k + 1] = Joint(f, w) => Joint(Led(x, F, k), w) = Led(x, F, k + 1)
         /\ Joint(f, w) # <<>>
<1> DEFINE o == <<",">>
<1>1. o \in Seq(C) /\ Len(o) = 1
  <2>1. \A c \in C : <<c>> \in Seq(C) /\ Len(<<c>>) = 1
    BY OneOf
  <2> QED BY <2>1, Zenon DEF HasComma
<1> HIDE DEF o
<1>2. x \o o \o f # <<>> /\ f \o o \o w # <<>>
  BY <1>1, Something
<1>a. SameJoin(x, o, f, w)
  BY <1>1, JoinAgain
<1>3. k + 1 # 0
  OBVIOUS
<1>4. CASE k = 0
  <2>1. Led(x, F, k) = x /\ Joint(f, w) = w
    BY <1>4, Zenon DEF Led, Joint, Placed
  <2>2. Joint(x, w) = x \o o \o w
    BY Zenon DEF Joint, o
  <2>3. F[k + 1] = w => Led(x, F, k + 1) = x \o o \o w
    BY <1>3, Zenon DEF Led, o
  <2> QED BY <2>1, <2>2, <2>3, Zenon
<1>5. CASE k # 0
  <2>1. Led(x, F, k) = x \o o \o f /\ Joint(f, w) = f \o o \o w
    BY <1>5, Zenon DEF Led, Joint, o, Placed
  <2>2. Joint(x \o o \o f, w) = (x \o o \o f) \o o \o w
    BY <1>2, Zenon DEF Joint, o
  <2>3. (x \o o \o f) \o o \o w = x \o o \o (f \o o \o w)
    BY <1>a DEF SameJoin
  <2>4. Led(x, F, k + 1) = x \o o \o F[k + 1]
    BY <1>3, Zenon DEF Led, o
  <2> QED BY <1>2, <2>1, <2>2, <2>3, <2>4, Zenon
<1> QED BY <1>4, <1>5

\* A list is written as its first attribute and the others behind a comma.
LEMMA ListedFront ==
  ASSUME NEW A, NEW a \in A, NEW t \in Seq(A), NEW C, HasComma(C),
         Written(a) \in Seq(C), Written(a) # <<>>, Writable(t, Len(t), C)
  PROVE  Listed(<<a>> \o t) = IF t = <<>> THEN Written(a)
                              ELSE Written(a) \o <<",">> \o Listed(t)
<1> DEFINE m == Len(t)
           u == <<a>> \o t
           x == Written(a)
<1>1. /\ m \in Nat /\ DOMAIN t = 1..m /\ DOMAIN u = 1..(m + 1) /\ u[1] = a
      /\ \A k \in 1..m : u[k + 1] = t[k]
  <2>1. u \in Seq(A) /\ Len(u) = m + 1
    OBVIOUS
  <2>2. m \in Nat /\ DOMAIN t = 1..m /\ u[1] = a /\ \A k \in 1..m : u[k + 1] = t[k]
    OBVIOUS
  <2>3. DOMAIN u = 1..(m + 1)
    <3> HIDE DEF u, m
    <3> QED BY <2>1
  <2> QED BY <2>2, <2>3
<1>a. t = <<>> <=> m = 0
  OBVIOUS
<1>2. x \in Seq(C) /\ x # <<>> /\ Writable(t, m, C)
  OBVIOUS
<1> HIDE DEF m, u, x
<1>3. \A i \in 1..m : Written(t[i]) \in Seq(C) /\ Written(t[i]) # <<>>
  BY <1>2 DEF Writable
<1>4. PICK F : Listed(t) = F[m] /\ Lists(F, t, m, C)
  BY <1>1, <1>3, ListedSteps
<1>5. PICK G : Listed(u) = G[m + 1] /\ Lists(G, u, m + 1, C)
  <2>1. \A i \in 1..(m + 1) : Written(u[i]) \in Seq(C)
    <3> SUFFICES ASSUME NEW i \in 1..(m + 1) PROVE Written(u[i]) \in Seq(C)
      OBVIOUS
    <3>1. CASE i = 1
      BY <1>1, <1>2, <3>1 DEF x
    <3>2. CASE i # 1
      <4>1. i - 1 \in 1..m /\ (i - 1) + 1 = i
        BY <1>1, <3>2
      <4>2. u[i] = t[i - 1]
        BY <1>1, <4>1
      <4> QED BY <1>3, <4>1, <4>2
    <3> QED BY <3>1, <3>2
  <2>2. m + 1 \in Nat
    BY <1>1
  <2> QED BY <1>1, <2>1, <2>2, ListedSteps
<1> DEFINE Ok(k) == k <= m => G[k + 1] = Led(x, F, k) /\ (k = 0 <=> F[k] = <<>>)
           P == {k \in Nat : Ok(k)}
<1>6. 0 \in P
  <2>1. 1 \in 1..(m + 1) /\ 1 - 1 = 0 /\ 0 + 1 = 1 /\ 0 \in Nat
    BY <1>1
  <2>2. G[1] = Joint(G[0], Written(u[1])) /\ G[0] = <<>> /\ F[0] = <<>>
    BY <1>4, <1>5, <2>1 DEF Lists
  <2>3. G[1] = x
    BY <1>1, <2>2, Zenon DEF Joint, x
  <2>4. Led(x, F, 0) = x
    BY Zenon DEF Led
  <2>5. Ok(0)
    BY <2>1, <2>2, <2>3, <2>4, Zenon
  <2> QED BY <2>1, <2>5
<1>7. ASSUME NEW k \in P PROVE k + 1 \in P
  <2>1. k \in Nat /\ k + 1 \in Nat /\ Ok(k)
    OBVIOUS
  <2>2. ASSUME k + 1 <= m PROVE G[(k + 1) + 1] = Led(x, F, k + 1) /\ F[k + 1] # <<>>
    <3>1. /\ k + 1 \in 1..m /\ (k + 1) - 1 = k /\ k <= m /\ k \in 0..m
          /\ (k + 1) + 1 \in 1..(m + 1) /\ ((k + 1) + 1) - 1 = k + 1
      BY <1>1, <2>1, <2>2, SMTT(20)
    <3>2. G[k + 1] = Led(x, F, k) /\ (k = 0 <=> F[k] = <<>>)
      BY <2>1, <3>1
    <3> DEFINE w == Written(t[k + 1])
               f == F[k]
    <3>3. w \in Seq(C) /\ w # <<>> /\ u[(k + 1) + 1] = t[k + 1]
      BY <1>1, <1>3, <3>1
    <3>4. f \in Seq(C) /\ F[k + 1] = Joint(f, w)
      BY <1>4, <3>1 DEF Lists
    <3>5. G[(k + 1) + 1] = Joint(G[k + 1], w)
      BY <1>5, <3>1, <3>3 DEF Lists
    <3>6. Placed(f, F, k)
      BY <3>2, Zenon DEF Placed
    <3> HIDE DEF w, f, P
    <3>7. /\ F[k + 1] = Joint(f, w) => Joint(Led(x, F, k), w) = Led(x, F, k + 1)
          /\ Joint(f, w) # <<>>
      BY <1>2, <2>1, <3>2, <3>3, <3>4, <3>6, LeadsOn
    <3> QED BY <3>2, <3>4, <3>5, <3>7
  <2>3. k + 1 # 0
    BY <2>1
  <2>4. Ok(k + 1)
    BY <2>2, <2>3, Zenon
  <2> QED BY <2>1, <2>4
<1>8. m \in P
  <2>1. P \in SUBSET Nat
    OBVIOUS
  <2> HIDE DEF P
  <2> QED BY <1>1, <1>6, <1>7, <2>1, SetInduction
<1>9. G[m + 1] = Led(x, F, m)
  <2>1. m <= m
    BY <1>1
  <2> QED BY <1>8, <2>1
<1> HIDE DEF P
<1>10. Listed(u) = IF t = <<>> THEN x ELSE x \o <<",">> \o Listed(t)
  BY <1>4, <1>5, <1>9, <1>a, Zenon DEF Led
<1> QED BY <1>10 DEF u, x

\* The list L is written down as the text of s from k on.
WritesFrom(L, s, k) ==
  /\ L \in Seq(Attribute3) /\ L # <<>> /\ Writable(L, Len(L), STRING)
  /\ Listed(L) = SubSeq(s, k, Len(s))

CharsAndComma == STRING \cup {","}

LEMMA WiderTexts == HasComma(CharsAndComma) /\ \A x \in Seq(STRING) : x \in Seq(CharsAndComma)
<1>1. HasComma(CharsAndComma)
  BY DEF HasComma, CharsAndComma
<1> DEFINE A == STRING
           B == CharsAndComma
<1>2. \A c \in A : c \in B
  BY DEF CharsAndComma
<1> HIDE DEF A, B
<1>3. \A x \in Seq(A) : x \in Seq(B)
  BY <1>2
<1> QED BY <1>1, <1>3 DEF A, B

\* The attribute at k, with nothing or the list behind it, is written down as the text from k on.
LEMMA WritesOne ==
  ASSUME NEW s \in Seq(STRING), NEW k \in 1..Len(s), NEW e \in Nat, EndHere(s, k, e),
         NEW a \in Attribute3, Written(a) = SubSeq(s, k, e - 1),
         NEW t \in Seq(Attribute3), e = Len(s) + 1 => t = <<>>,
         e # Len(s) + 1 => WritesFrom(t, s, e + 1)
  PROVE  WritesFrom(<<a>> \o t, s, k)
<1> DEFINE N == Len(s)
           u == <<a>> \o t
           A == Attribute3
           C == CharsAndComma
           w == Written(a)
<1>0. N \in Nat /\ k \in 1..N /\ k \in Nat
  OBVIOUS
<1>1. e \in (k + 1)..(N + 1)
  BY DEF EndHere
<1>a. e = N + 1 \/ (e < N /\ s[e] = ",")
  BY Zenon DEF EndHere
<1>2. w \in Seq(STRING) /\ w # <<>>
  <2>1. k \in 1..(N + 1) /\ e - 1 \in 0..N /\ k <= (e - 1) + 1 /\ (e - 1) - k + 1 > 0
    BY <1>0, <1>1
  <2> DEFINE j == e - 1
  <2>2. k \in 1..(N + 1) /\ j \in 0..N /\ k <= j + 1 /\ j - k + 1 > 0
    BY <2>1
  <2>a. w = SubSeq(s, k, j)
    OBVIOUS
  <2> HIDE DEF j, w
  <2>3. SubSeq(s, k, j) \in Seq(STRING) /\ Len(SubSeq(s, k, j)) = j - k + 1
    BY <2>2, CutOf
  <2>4. Len(<<>>) = 0
    OBVIOUS
  <2> QED BY <2>2, <2>3, <2>4, <2>a, SMTT(20)
<1>3. Writable(t, Len(t), STRING)
  <2>1. CASE e = N + 1
    <3>1. t = <<>>
      BY <2>1
    <3>2. \A i \in 1..0 : FALSE
      OBVIOUS
    <3>3. Len(<<>>) = 0
      OBVIOUS
    <3> QED BY <3>1, <3>2, <3>3, Zenon DEF Writable
  <2>2. CASE e # N + 1
    BY <2>2, Zenon DEF WritesFrom
  <2> QED BY <2>1, <2>2
<1> HIDE DEF w
<1>4. /\ u \in Seq(A) /\ Len(u) = Len(t) + 1 /\ u[1] = a /\ Len(t) \in Nat
      /\ \A i \in 1..Len(t) : u[i + 1] = t[i]
  <2> HIDE DEF A
  <2>1. t \in Seq(A) /\ a \in A
    BY DEF A
  <2> QED BY <2>1
<1>5. u # <<>>
  <2>1. Len(<<>>) = 0
    OBVIOUS
  <2> HIDE DEF u
  <2> QED BY <1>4, <2>1
<1> HIDE DEF u
<1>6. Writable(u, Len(u), STRING)
  <2>1. ASSUME NEW i \in 1..Len(u) PROVE Written(u[i]) \in Seq(STRING) /\ Written(u[i]) # <<>>
    <3>1. CASE i = 1
      BY <1>2, <1>4, <3>1 DEF w
    <3>2. CASE i # 1
      <4>1. i - 1 \in 1..Len(t) /\ (i - 1) + 1 = i
        BY <1>4, <3>2
      <4>2. u[i] = t[i - 1]
        BY <1>4, <4>1
      <4>3. Written(t[i - 1]) \in Seq(STRING) /\ Written(t[i - 1]) # <<>>
        BY <1>3, <4>1, Zenon DEF Writable
      <4> QED BY <4>2, <4>3, Zenon
    <3> QED BY <3>1, <3>2
  <2> QED BY <2>1, Zenon DEF Writable
<1>7. Listed(u) = IF t = <<>> THEN w ELSE w \o <<",">> \o Listed(t)
  <2>1. w \in Seq(C) /\ HasComma(C)
    BY <1>2, WiderTexts
  <2>2. Writable(t, Len(t), C)
    <3> HIDE DEF C
    <3>1. \A x \in Seq(STRING) : x \in Seq(C)
      BY WiderTexts DEF C
    <3> QED BY <1>3, <3>1, Zenon DEF Writable
  <2>3. t \in Seq(A) /\ a \in A
    OBVIOUS
  <2> HIDE DEF A, C
  <2> QED BY <1>2, <2>1, <2>2, <2>3, ListedFront DEF w, u
<1>8. Listed(u) = SubSeq(s, k, N)
  <2>1. CASE e = N + 1
    <3>1. e - 1 = N
      BY <1>0, <2>1
    <3> QED BY <1>7, <2>1, <3>1 DEF w
  <2>2. CASE e # N + 1
    <3>1. e < N /\ s[e] = ","
      BY <1>a, <2>2, Zenon
    <3>2. Listed(t) = SubSeq(s, e + 1, N) /\ t # <<>>
      BY <2>2, Zenon DEF WritesFrom
    <3> DEFINE b == e - 1
    <3>3. /\ b + 1 = e /\ k \in 1..(N + 1) /\ b \in (k - 1)..N /\ e \in b..N
          /\ e \in (k - 1)..N /\ N \in e..N /\ e \in 1..N
      <4>1. e < N
        BY <3>1, Zenon
      <4> QED BY <1>0, <1>1, <4>1
    <3> HIDE DEF b
    <3>4. SubSeq(s, k, b) \o SubSeq(s, b + 1, e) = SubSeq(s, k, e)
      BY <3>3, CutsJoin
    <3>5. SubSeq(s, k, e) \o SubSeq(s, e + 1, N) = SubSeq(s, k, N)
      BY <3>3, CutsJoin
    <3>6. SubSeq(s, e, e) = <<s[e]>>
      BY <3>3, CutOne
    <3>7. w = SubSeq(s, k, b)
      BY DEF w, b
    <3>8. w \o <<",">> = SubSeq(s, k, e)
      BY <3>1, <3>3, <3>4, <3>6, <3>7, Zenon
    <3>9. Listed(u) = w \o <<",">> \o Listed(t)
      BY <1>7, <3>2, Zenon
    <3> QED BY <3>2, <3>5, <3>8, <3>9, Zenon
  <2> QED BY <2>1, <2>2
<1> QED BY <1>4, <1>5, <1>6, <1>8 DEF WritesFrom, u

\* What has been read from a position on is written down as the text from there.
LEMMA WritesRead ==
  ASSUME NEW s \in Seq(STRING), NEW F, ReadsOn(F, s), NEW k \in 1..Len(s), NoNull(F[k])
  PROVE  WritesFrom(F[k], s, k)
<1> DEFINE N == Len(s)
           n == N + 1
           Ok(j) == (j <= N /\ NoNull(F[j])) => WritesFrom(F[j], s, j)
           T == {j \in 1..n : Ok(j)}
<1>0. N \in Nat /\ n \in Nat /\ n = N + 1
  OBVIOUS
<1>1. F[n] = <<>>
  <2>1. n \in 1..n /\ n > N
    BY <1>0
  <2> QED BY <2>1 DEF ReadsOn
<1>2. ASSUME NEW j \in 1..n, \A i \in 1..n : i > j => i \in T PROVE j \in T
  <2>1. SUFFICES ASSUME j <= N, NoNull(F[j]) PROVE WritesFrom(F[j], s, j)
    OBVIOUS
  <2>2. j \in 1..N /\ j \in 1..(N + 1)
    BY <1>0, <2>1
  <2>a. NoNull(Here(s, j))
    <3>1. F[j] = IF j > Len(s) THEN <<>>
             ELSE IF Here(s, j) = NULL THEN NULL
             ELSE IF F[After(s, j)] = NULL THEN NULL
             ELSE <<Shown(Here(s, j))>> \o F[After(s, j)]
      BY <2>2 DEF ReadsOn
    <3>2. ~(j > Len(s))
      BY <2>2
    <3> QED BY <2>1, <3>1, <3>2, Zenon DEF NoNull
  <2>3. PICK e \in Nat : EndHere(s, j, e)
    BY <2>2, <2>a, HereIs
  <2>4. /\ Written(Here(s, j)) = SubSeq(s, j, e - 1) /\ After(s, j) = IF e = N + 1 THEN e ELSE e + 1
    BY <2>2, <2>3, HereIs
  <2> DEFINE a == Shown(Here(s, j))
             l == After(s, j)
  <2>5. a \in Attribute3
    BY <2>2, <2>a, HereGoesOn
  <2>6. Written(a) = SubSeq(s, j, e - 1)
    BY <2>4 DEF Written, Shown
  <2>7. /\ l \in (j + 1)..(N + 1) /\ F[l] \in Seq(Attribute3) \cup {NULL}
        /\ NoNull(F[l]) /\ F[j] = <<a>> \o F[l]
    BY <2>1, <2>2, <2>a, OnFrom
  <2>8. F[l] \in Seq(Attribute3)
    BY <2>7 DEF NoNull
  <2>9. e \in (j + 1)..(N + 1)
    BY <2>3 DEF EndHere
  <2>b. e = N + 1 \/ e < N
    BY <2>3, Zenon DEF EndHere
  <2> HIDE DEF a, l
  <2>10. e = Len(s) + 1 => F[l] = <<>>
    BY <1>1, <2>4 DEF l
  <2>11. ASSUME e # Len(s) + 1 PROVE WritesFrom(F[l], s, e + 1)
    <3>1. e < N
      BY <2>b, <2>11
    <3>2. e + 1 \in 1..n /\ e + 1 > j /\ e + 1 <= N /\ l = e + 1
      BY <1>0, <2>2, <2>4, <2>9, <2>11, <3>1 DEF l
    <3>3. e + 1 \in T
      BY <1>2, <3>2
    <3>4. Ok(e + 1)
      BY <3>3
    <3> QED BY <2>7, <3>2, <3>4
  <2>12. WritesFrom(<<a>> \o F[l], s, j)
    <3> DEFINE t == F[l]
    <3>1. t \in Seq(Attribute3) /\ (e = Len(s) + 1 => t = <<>>)
          /\ (e # Len(s) + 1 => WritesFrom(t, s, e + 1))
      BY <2>8, <2>10, <2>11
    <3> HIDE DEF t, T, Ok, n
    <3>2. WritesFrom(<<a>> \o t, s, j)
      BY <2>2, <2>3, <2>5, <2>6, <3>1, WritesOne
    <3> QED BY <3>2 DEF t
  <2> QED BY <2>7, <2>12
<1>3. T = 1..n
  <2>1. T \in SUBSET (1..n)
    OBVIOUS
  <2> HIDE DEF T
  <2> QED BY <1>0, <1>2, <2>1, DownInduction
<1>4. k \in T /\ k <= N
  BY <1>0, <1>3
<1> QED BY <1>4

\* A text is read exactly when it is a list of attributes, and the attributes are its own.
LEMMA ReadsList ==
  ASSUME NEW s \in Seq(STRING), s # <<>>
  PROVE  /\ Attributes(s) # NULL <=> IsAttributeList(s)
         /\ Attributes(s) # NULL => s = Listed(Attributes(s))
<1>1. PICK F : ReadsOn(F, s) /\ Attributes(s) = F[1]
  BY AttributesRead
<1>2. 1 \in 1..Len(s)
  OBVIOUS
<1>3. NoNull(F[1]) <=> IsAttributeList(s)
  BY <1>1, <1>2, ListRead, ListIsList
<1>4. ASSUME NoNull(F[1]) PROVE s = Listed(F[1])
  <2>1. Listed(F[1]) = SubSeq(s, 1, Len(s))
    BY <1>1, <1>2, <1>4, WritesRead DEF WritesFrom
  <2>2. SubSeq(s, 1, Len(s)) = s
    OBVIOUS
  <2> QED BY <2>1, <2>2
<1> QED BY <1>1, <1>3, <1>4 DEF NoNull

\* A list of attributes (of a key or of a section) is read exactly when the text is
\* one, and the attributes are all that it says: written down, they give the text.
THEOREM AttributesAlwaysExact == Spec => []AttributesExact
<1>1. text \in Seq(STRING) => AttributesExact
  <2>1. ASSUME text \in Seq(STRING), text # <<>>
        PROVE  /\ Attributes(text) # NULL <=> IsAttributeList(text)
               /\ Attributes(text) # NULL => text = Listed(Attributes(text))
    BY <2>1, ReadsList
  <2> QED BY <2>1 DEF AttributesExact, Listed
<1> QED BY <1>1, Typed, PTL

-----------------------------------------------------------------------------
(* Powers and numbers                                                          *)

PowersTo(p, b, n) ==
  \A k \in 0..n : p[k] \in Nat /\ p[k] = IF k = 0 THEN 1 ELSE b * p[k - 1]

PowerLoop(p, b, n) == p = [k \in 0..n |-> IF k = 0 THEN 1 ELSE b * p[k - 1]]

LEMMA PowerFound ==
  ASSUME NEW b \in Nat, NEW n \in Nat
  PROVE  \E p : PowersTo(p, b, n) /\ Power(b, n) = p[n]
<1> DEFINE step == [x \in (1..n) \X Nat |-> b * x[2]]
           q == CHOOSE p : PowerLoop(p, b, n)
<1>1. step \in [(1..n) \X Nat -> Nat]
  BY NatTimes
<1>2. \A k \in 1..n : \A w \in Nat : step[<<k, w>>] = b * w
  OBVIOUS
<1> HIDE DEF step
<1>3. PICK f \in [SUBSET (1..n) -> Nat] : FoldOf(f, n, 1, step)
  BY <1>1, FoldExists
<1>4. Stepwise(f, n, Nat, 1, step)
  BY <1>1, <1>3, FoldSteps
<1> DEFINE p == [k \in 0..n |-> f[1..k]]
<1>5. \A k \in 0..n : p[k] = f[1..k] /\ p[k] \in Nat
  BY <1>4 DEF Stepwise
<1>6. \A k \in 0..n : p[k] = IF k = 0 THEN 1 ELSE b * p[k - 1]
  <2> SUFFICES ASSUME NEW k \in 0..n PROVE p[k] = IF k = 0 THEN 1 ELSE b * p[k - 1]
    OBVIOUS
  <2>1. CASE k = 0
    <3>1. p[k] = f[1..0]
      BY <1>5, <2>1
    <3> QED BY <1>4, <2>1, <3>1 DEF Stepwise
  <2>2. CASE k # 0
    <3>1. k \in 1..n /\ k - 1 \in 0..n
      BY <2>2
    <3> HIDE DEF p
    <3>2. f[1..k] = step[<<k, f[1..(k - 1)]>>]
      BY <1>4, <3>1 DEF Stepwise
    <3>3. p[k] = f[1..k] /\ p[k - 1] = f[1..(k - 1)] /\ p[k - 1] \in Nat
      BY <1>5, <3>1
    <3> QED BY <1>2, <2>2, <3>1, <3>2, <3>3
  <2> QED BY <2>1, <2>2
<1>7. PowerLoop(p, b, n)
  <2>1. p = [k \in 0..n |-> p[k]]
    OBVIOUS
  <2> HIDE DEF p
  <2> QED BY <1>6, <2>1, Zenon DEF PowerLoop
<1>8. PowerLoop(q, b, n)
  BY <1>7, Zenon
<1>9. Power(b, n) = q[n]
  BY DEF Power, PowerLoop
<1> HIDE DEF q, p
<1>10. \A k \in 0..n : q[k] = IF k = 0 THEN 1 ELSE b * q[k - 1]
  BY <1>8 DEF PowerLoop
<1> DEFINE T == {k \in Nat : k <= n => q[k] \in Nat}
<1>11. 0 \in T
  <2>1. 0 \in 0..n
    OBVIOUS
  <2> QED BY <1>10, <2>1
<1>12. ASSUME NEW k \in T PROVE k + 1 \in T
  <2>1. SUFFICES ASSUME k + 1 <= n PROVE q[k + 1] \in Nat
    OBVIOUS
  <2>a. k \in Nat /\ (k <= n => q[k] \in Nat)
    OBVIOUS
  <2> HIDE DEF T
  <2>2. k + 1 \in 0..n /\ k + 1 # 0 /\ (k + 1) - 1 = k /\ k <= n
    BY <2>1, <2>a
  <2>3. q[k + 1] = b * q[k]
    BY <1>10, <2>2
  <2> QED BY <2>a, <2>2, <2>3, NatTimes
<1>13. \A k \in 0..n : q[k] \in Nat
  <2>1. T \in SUBSET Nat
    OBVIOUS
  <2>2. T = Nat
    <3> HIDE DEF T
    <3> QED BY <1>11, <1>12, <2>1, SetInduction
  <2>3. \A k \in Nat : k <= n => q[k] \in Nat
    BY <2>2
  <2> HIDE DEF T
  <2> QED BY <2>3
<1> QED BY <1>9, <1>10, <1>13 DEF PowersTo

LEMMA PowerNext ==
  ASSUME NEW b \in Nat, NEW n \in Nat
  PROVE  /\ Power(b, 0) = 1 /\ Power(b, n) \in Nat
         /\ Power(b, n + 1) = b * Power(b, n)
<1>1. Power(b, 0) = 1
  <2>1. PICK p : PowersTo(p, b, 0) /\ Power(b, 0) = p[0]
    BY PowerFound
  <2>2. 0 \in 0..0
    OBVIOUS
  <2> QED BY <2>1, <2>2 DEF PowersTo
<1>2. PICK p : PowersTo(p, b, n) /\ Power(b, n) = p[n]
  BY PowerFound
<1>3. PICK q : PowersTo(q, b, n + 1) /\ Power(b, n + 1) = q[n + 1]
  <2>1. n + 1 \in Nat
    OBVIOUS
  <2> QED BY <2>1, PowerFound
<1> DEFINE T == {k \in Nat : k <= n => p[k] = q[k]}
<1>4. 0 \in T
  <2>1. 0 \in 0..n /\ 0 \in 0..(n + 1)
    OBVIOUS
  <2> QED BY <1>2, <1>3, <2>1 DEF PowersTo
<1>5. ASSUME NEW k \in T PROVE k + 1 \in T
  <2>1. SUFFICES ASSUME k + 1 <= n PROVE p[k + 1] = q[k + 1]
    OBVIOUS
  <2>a. k \in Nat /\ (k <= n => p[k] = q[k])
    OBVIOUS
  <2> HIDE DEF T
  <2>2. k + 1 \in 0..n /\ k + 1 \in 0..(n + 1) /\ k + 1 # 0 /\ (k + 1) - 1 = k /\ k <= n
    BY <2>1, <2>a
  <2>3. p[k + 1] = b * p[k] /\ q[k + 1] = b * q[k]
    BY <1>2, <1>3, <2>2 DEF PowersTo
  <2> QED BY <2>a, <2>2, <2>3
<1>6. n \in T
  <2>1. T \in SUBSET Nat
    OBVIOUS
  <2> HIDE DEF T
  <2> QED BY <1>4, <1>5, <2>1, SetInduction
<1>7. p[n] = q[n]
  BY <1>6
<1> HIDE DEF T
<1>8. n + 1 \in 0..(n + 1) /\ n + 1 # 0 /\ (n + 1) - 1 = n /\ n \in 0..n
  OBVIOUS
<1>9. q[n + 1] = b * q[n] /\ p[n] \in Nat
  BY <1>2, <1>3, <1>8 DEF PowersTo
<1> QED BY <1>1, <1>2, <1>3, <1>7, <1>9

Naturals(v, m) == \A i \in 1..m : v[i] \in Nat

\* The number that the first m digits v spell.
Spells(v, m, b) ==
  SumFunctionOnSet([i \in 1..m |-> v[i] * Power(b, m - i)], 1..m)

LEMMA SpellsNothing == ASSUME NEW v, NEW b PROVE Spells(v, 0, b) = 0
<1>1. 1..0 = {}
  OBVIOUS
<1> QED BY <1>1, SumOfNothing DEF Spells

LEMMA SpellsNext ==
  ASSUME NEW b \in Nat, NEW m \in Nat, NEW v, Naturals(v, m + 1)
  PROVE  /\ Spells(v, m, b) \in Int
         /\ Spells(v, m + 1, b) = b * Spells(v, m, b) + v[m + 1]
<1> DEFINE S == 1..m
           f == [i \in 1..m |-> v[i] * Power(b, m - i)]
           e == [i \in 1..(m + 1) |-> v[i] * Power(b, (m + 1) - i)]
           g == [i \in 1..m |-> e[i]]
<1>1. \A i \in 1..m : f[i] = v[i] * Power(b, m - i) /\ i \in 1..(m + 1) /\ g[i] = e[i]
  OBVIOUS
<1>2. \A i \in 1..(m + 1) : e[i] = v[i] * Power(b, (m + 1) - i)
  OBVIOUS
<1>a. Spells(v, m, b) = SumFunctionOnSet(f, S) /\ Spells(v, m + 1, b) = SumFunctionOnSet(e, 1..(m + 1))
  BY DEF Spells
<1> HIDE DEF f, e, g
<1>3. ASSUME NEW i \in 1..m PROVE f[i] \in Nat /\ e[i] = b * f[i]
  <2> DEFINE d == m - i
             w == Power(b, d)
  <2>1. d \in Nat /\ (m + 1) - i = d + 1
    OBVIOUS
  <2> HIDE DEF d
  <2>2. w \in Nat /\ Power(b, d + 1) = b * w
    BY <2>1, PowerNext
  <2>3. v[i] \in Nat
    BY <1>1 DEF Naturals
  <2>4. f[i] = v[i] * w
    BY <1>1 DEF d
  <2>5. e[i] = v[i] * (b * w)
    BY <1>1, <1>2, <2>1, <2>2
  <2> HIDE DEF w
  <2>6. \A x, y, z \in Nat : x * (y * z) = y * (x * z) /\ x * z \in Nat
    OBVIOUS
  <2>7. v[i] * (b * w) = b * (v[i] * w) /\ v[i] * w \in Nat
    BY <2>2, <2>3, <2>6
  <2> QED BY <2>4, <2>5, <2>7
<1>4. e[m + 1] = v[m + 1] /\ v[m + 1] \in Nat
  <2>1. m + 1 \in 1..(m + 1) /\ (m + 1) - (m + 1) = 0
    OBVIOUS
  <2>2. v[m + 1] \in Nat
    BY <2>1 DEF Naturals
  <2>3. e[m + 1] = v[m + 1] * 1
    BY <1>2, <2>1, PowerNext
  <2> QED BY <2>2, <2>3
<1>5. IsFiniteSet(S) /\ m + 1 \notin S /\ 1..(m + 1) = S \cup {m + 1}
  <2>1. 1 \in Int /\ m \in Int
    OBVIOUS
  <2>2. IsFiniteSet(S)
    BY <2>1, FS_Interval
  <2>3. m + 1 \notin S /\ 1..(m + 1) = S \cup {m + 1}
    OBVIOUS
  <2> QED BY <2>2, <2>3
<1>6. Integral(f, S)
  BY <1>3 DEF Integral
<1>7. Integral(e, S \cup {m + 1})
  <2>1. \A i \in S : e[i] \in Int
    <3>1. \A x \in Nat : b * x \in Int
      OBVIOUS
    <3> QED BY <1>3, <3>1
  <2> QED BY <1>4, <2>1 DEF Integral
<1>8. \A i \in S : g[i] = b * f[i]
  BY <1>1, <1>3
<1>9. \A i \in S : e[i] = g[i]
  BY <1>1
<1> HIDE DEF S
<1>10. /\ SumFunctionOnSet(g, S) \in Int
       /\ SumFunctionOnSet(e, S \cup {m + 1}) = e[m + 1] + SumFunctionOnSet(g, S)
  BY <1>5, <1>7, <1>9, SumWithOneMore
<1>11. /\ SumFunctionOnSet(f, S) \in Int
       /\ SumFunctionOnSet(g, S) = b * SumFunctionOnSet(f, S)
  <2>1. b \in Int
    OBVIOUS
  <2> QED BY <1>5, <1>6, <1>8, <2>1, SumTimes
<1> DEFINE x == SumFunctionOnSet(f, S)
           y == SumFunctionOnSet(g, S)
<1>12. x \in Int /\ y \in Int /\ y = b * x /\ Spells(v, m, b) = x
       /\ Spells(v, m + 1, b) = v[m + 1] + y
  BY <1>4, <1>5, <1>10, <1>11, <1>a
<1> HIDE DEF x, y
<1> QED BY <1>4, <1>12

LEMMA SpellsTyped ==
  ASSUME NEW b \in Nat, NEW m \in Nat, NEW v, Naturals(v, m)
  PROVE  Spells(v, m, b) \in Nat
<1> DEFINE T == {k \in Nat : k <= m => Spells(v, k, b) \in Nat}
<1>1. 0 \in T
  BY SpellsNothing
<1>2. ASSUME NEW k \in T PROVE k + 1 \in T
  <2>1. SUFFICES ASSUME k + 1 <= m PROVE Spells(v, k + 1, b) \in Nat
    OBVIOUS
  <2>2. k \in Nat /\ (k <= m => Spells(v, k, b) \in Nat)
    OBVIOUS
  <2> HIDE DEF T
  <2>3. k <= m /\ k + 1 \in 1..m /\ \A i \in 1..(k + 1) : i \in 1..m
    BY <2>1, <2>2
  <2>4. Naturals(v, k + 1) /\ v[k + 1] \in Nat
    BY <2>3 DEF Naturals
  <2> DEFINE x == Spells(v, k, b)
  <2>5. Spells(v, k + 1, b) = b * x + v[k + 1] /\ x \in Nat
    BY <2>2, <2>3, <2>4, SpellsNext
  <2> HIDE DEF x
  <2>6. b * x \in Nat
    BY <2>5, NatTimes
  <2> QED BY <2>4, <2>5, <2>6
<1>3. m \in T
  <2>1. T \in SUBSET Nat
    OBVIOUS
  <2> HIDE DEF T
  <2> QED BY <1>1, <1>2, <2>1, SetInduction
<1> QED BY <1>3

\* Digits are worth what they are worth, wherever they are read from.
LEMMA SpellsSame ==
  ASSUME NEW b, NEW m \in Nat, NEW v, NEW w, \A i \in 1..m : v[i] = w[i]
  PROVE  Spells(v, m, b) = Spells(w, m, b)
<1>1. [i \in 1..m |-> v[i] * Power(b, m - i)] = [i \in 1..m |-> w[i] * Power(b, m - i)]
  OBVIOUS
<1> QED BY <1>1 DEF Spells

\* The digits of a text, and the number they spell.
LEMMA NumberIs ==
  ASSUME NEW s, NEW m \in Nat, DOMAIN s = 1..m, Len(s) = m, NEW b, NEW digit, NEW v,
         \A i \in 1..m : v[i] = digit[s[i]]
  PROVE  Number(s, b, digit) = Spells(v, m, b)
<1> DEFINE e == [i \in 1..m |-> digit[s[i]] * Power(b, m - i)]
           f == [i \in 1..m |-> v[i] * Power(b, m - i)]
<1>1. e = f
  OBVIOUS
<1>2. Number(s, b, digit) = SumFunction(e)
  BY DEF Number
<1>3. DOMAIN e = 1..m
  OBVIOUS
<1> HIDE DEF e
<1>4. SumFunction(e) = SumFunctionOnSet(e, 1..m)
  BY <1>3 DEF SumFunction
<1> QED BY <1>1, <1>2, <1>4 DEF Spells

-----------------------------------------------------------------------------
(* Digits                                                                      *)

LEMMA DigitValues ==
  /\ \A c \in DOMAIN Digits : Digits[c] \in 0..9
  /\ DOMAIN Digits \subseteq DOMAIN HexDigits
  /\ \A c \in DOMAIN HexDigits : HexDigits[c] \in 0..15
<1> DEFINE D == ToSet(Numerals)
           H == ToSet(Numerals \o Small \o Capital)
<1>1. \A c \in D : \E d \in 0..9 : Numerals[d + 1] = c
  <2> SUFFICES ASSUME NEW c \in D PROVE \E d \in 0..9 : Numerals[d + 1] = c
    OBVIOUS
  <2>1. DOMAIN Numerals = 1..10
    BY DEF Numerals
  <2>2. PICK i \in 1..10 : Numerals[i] = c
    BY <2>1 DEF ToSet
  <2>3. i - 1 \in 0..9 /\ (i - 1) + 1 = i
    OBVIOUS
  <2> QED BY <2>2, <2>3
<1>2. \A c \in H : c \in D \/ \E d \in 10..15 : c \in {Small[d - 9], Capital[d - 9]}
  <2> SUFFICES ASSUME NEW c \in H, c \notin D
               PROVE  \E d \in 10..15 : c = Small[d - 9] \/ c = Capital[d - 9]
    OBVIOUS
  <2> DEFINE t == Numerals \o Small \o Capital
  <2>1. Len(Numerals) = 10 /\ Len(Small) = 6 /\ Len(Capital) = 6
    BY DEF Numerals, Small, Capital
  <2>a. DOMAIN Numerals = 1..10
    BY DEF Numerals
  <2>2. /\ DOMAIN t = 1..22
        /\ \A i \in 1..22 : t[i] = IF i <= 10 THEN Numerals[i]
                                   ELSE IF i <= 16 THEN Small[i - 10] ELSE Capital[i - 16]
    BY DEF Numerals, Small, Capital
  <2>3. PICK i \in 1..22 : t[i] = c
    BY <2>2 DEF ToSet
  <2> HIDE DEF t
  <2>4. ~(i <= 10)
    <3>1. ASSUME i <= 10 PROVE FALSE
      <4>1. i \in 1..10 /\ Numerals[i] = c
        BY <2>2, <2>3, <3>1
      <4> QED BY <2>a, <4>1 DEF ToSet
    <3> QED BY <3>1
  <2>5. CASE i <= 16
    <3>1. i - 1 \in 10..15 /\ (i - 1) - 9 = i - 10
      BY <2>4, <2>5
    <3>2. c = Small[i - 10]
      BY <2>2, <2>3, <2>4, <2>5
    <3> QED BY <3>1, <3>2
  <2>6. CASE ~(i <= 16)
    <3>1. i - 7 \in 10..15 /\ (i - 7) - 9 = i - 16
      BY <2>6
    <3>2. c = Capital[i - 16]
      BY <2>2, <2>3, <2>4, <2>6
    <3> QED BY <3>1, <3>2
  <2> QED BY <2>5, <2>6
<1>3. DOMAIN Digits = D /\ \A c \in D : Digits[c] \in 0..9
  <2> HIDE DEF D
  <2>1. DOMAIN Digits = D /\ \A c \in D : Digits[c] = CHOOSE d \in 0..9 : Numerals[d + 1] = c
    BY DEF Digits, D
  <2> QED BY <1>1, <2>1
<1>4. D \subseteq H
  <2> DEFINE t == Numerals \o Small \o Capital
  <2>1. DOMAIN Numerals = 1..10 /\ DOMAIN t = 1..22
    BY DEF Numerals, Small, Capital
  <2>2. \A i \in 1..10 : t[i] = Numerals[i]
    BY DEF Numerals, Small, Capital
  <2> HIDE DEF t
  <2>3. ASSUME NEW c \in D PROVE c \in H
    <3>1. PICK i \in 1..10 : Numerals[i] = c
      BY <2>1 DEF ToSet
    <3>2. i \in 1..22 /\ t[i] = c
      BY <2>2, <3>1
    <3>3. c \in {t[j] : j \in DOMAIN t}
      BY <2>1, <3>2
    <3>4. H = {t[j] : j \in DOMAIN t}
      BY DEF ToSet, t
    <3> QED BY <3>3, <3>4
  <2> QED BY <2>3
<1>5. DOMAIN HexDigits = H /\ \A c \in H : HexDigits[c] \in 0..15
  <2> DEFINE P(c, d) == c \in {Small[d - 9], Capital[d - 9]}
  <2>1. /\ DOMAIN HexDigits = H
        /\ \A c \in H : HexDigits[c] = IF c \in D THEN Digits[c] ELSE CHOOSE d \in 10..15 : P(c, d)
    <3> HIDE DEF H, D
    <3> QED BY <1>3 DEF HexDigits, H
  <2>2. \A c \in H : c \in D \/ \E d \in 10..15 : P(c, d)
    BY <1>2
  <2> HIDE DEF P, H, D
  <2>3. \A x \in 0..9 : x \in 0..15
    OBVIOUS
  <2>4. \A x \in 10..15 : x \in 0..15
    OBVIOUS
  <2>5. ASSUME NEW c \in H PROVE HexDigits[c] \in 0..15
    <3>1. CASE c \in D
      BY <1>3, <2>1, <2>3, <3>1
    <3>2. CASE c \notin D
      <4>1. PICK d \in 10..15 : P(c, d)
        BY <2>2, <3>2
      <4>2. (CHOOSE d2 \in 10..15 : P(c, d2)) \in 10..15
        BY <4>1, Zenon
      <4>3. HexDigits[c] = CHOOSE d2 \in 10..15 : P(c, d2)
        BY <2>1, <3>2, Zenon
      <4> QED BY <2>4, <4>2, <4>3, Zenon
    <3> QED BY <3>1, <3>2
  <2> QED BY <2>1, <2>5
<1> HIDE DEF D, H
<1> QED BY <1>3, <1>4, <1>5

-----------------------------------------------------------------------------
(* parse_decimal                                                               *)

\* The digits at the start of a text are the first n characters.
DigitsTo(s, n) == /\ n \in 0..Len(s) /\ \A i \in 1..n : IsDigit(s[i])
                  /\ n < Len(s) => ~IsDigit(s[n + 1])

NonDigits(s) == {i \in 1..Len(s) : ~IsDigit(s[i])}

LEMMA DigitsAhead ==
  ASSUME NEW s \in Seq(STRING)
  PROVE  DigitsTo(s, PrefixLen(s, IsDigit))
<1> DEFINE n == Ahead(s, NonDigits(s))
<1>1. PrefixLen(s, IsDigit) = n
  BY DEF PrefixLen, SelectInSeq, Ahead, NonDigits
<1>2. /\ n \in 0..Len(s) /\ \A i \in 1..n : i \notin NonDigits(s)
      /\ n < Len(s) => n + 1 \in NonDigits(s)
  <2>1. NonDigits(s) \in SUBSET (1..Len(s))
    BY DEF NonDigits
  <2> QED BY <2>1, FirstOfThem
<1> HIDE DEF n
<1>3. DigitsTo(s, n)
  <2>1. \A i \in 1..Len(s) : i \in NonDigits(s) <=> ~IsDigit(s[i])
    BY DEF NonDigits
  <2>2. \A i \in 1..n : i \in 1..Len(s)
    BY <1>2
  <2>3. n < Len(s) => n + 1 \in 1..Len(s)
    BY <1>2
  <2> QED BY <1>2, <2>1, <2>2, <2>3 DEF DigitsTo
<1> QED BY <1>1, <1>3

\* There is only one place where the digits end.
LEMMA DigitsEnd ==
  ASSUME NEW s \in Seq(STRING), NEW n, NEW m, DigitsTo(s, n), DigitsTo(s, m)
  PROVE  n = m
<1>1. n \in 0..Len(s) /\ m \in 0..Len(s) /\ Len(s) \in Nat
  BY DEF DigitsTo
<1>2. ASSUME NEW x \in 0..Len(s), NEW y \in 0..Len(s), x < y, DigitsTo(s, x), DigitsTo(s, y)
      PROVE  FALSE
  <2>1. x < Len(s) /\ x + 1 \in 1..y
    BY <1>2
  <2> QED BY <1>2, <2>1 DEF DigitsTo
<1>3. n < m \/ m < n \/ n = m
  BY <1>1
<1> QED BY <1>1, <1>2, <1>3

Worth(t) == [i \in DOMAIN t |-> Digits[t[i]]]

AllDigits(t) == \A i \in DOMAIN t : IsDigit(t[i])

LEMMA WorthIs ==
  ASSUME NEW t, AllDigits(t)
  PROVE  \A i \in DOMAIN t : Worth(t)[i] = Digits[t[i]] /\ Worth(t)[i] \in 0..9
BY DigitValues DEF AllDigits, IsDigit, Worth

Shifted(t) == FoldLeft(LAMBDA r, c : Shift(r, Digits[c]), 0, t)

\* The loop of Shifted.
ShiftLoop(h, t) ==
  h = [p \in SUBSET DOMAIN t |->
         IF p = {} THEN 0 ELSE Shift(h[p \ {Max(p)}], Digits[t[Max(p)]])]

Shifts(G, t, n) ==
  G[0] = 0 /\ \A k \in 1..n : G[k] = Shift(G[k - 1], Digits[t[k]])

LEMMA ShiftSteps ==
  ASSUME NEW t, NEW n \in Nat, DOMAIN t = 1..n, AllDigits(t)
  PROVE  \E G : Shifted(t) = G[n] /\ Shifts(G, t, n)
<1> DEFINE V == Int \cup {NULL}
           step == [p \in (1..n) \X V |-> Shift(p[2], Digits[t[p[1]]])]
           h == CHOOSE it : ShiftLoop(it, t)
<1>1. \A v \in V : \A d \in 0..9 : Shift(v, d) \in V
  BY DEF Shift
<1>2. 0 \in V
  OBVIOUS
<1>3. \A i \in 1..n : Digits[t[i]] \in 0..9
  BY DigitValues DEF AllDigits, IsDigit
<1> HIDE DEF V
<1>4. step \in [(1..n) \X V -> V]
  <2>1. \A p \in (1..n) \X V : Shift(p[2], Digits[t[p[1]]]) \in V
    BY <1>1, <1>3
  <2> QED BY <2>1
<1>5. \A i \in 1..n : \A v \in V : step[<<i, v>>] = Shift(v, Digits[t[i]])
  OBVIOUS
<1>6. Shifted(t) = h[DOMAIN t]
  BY DEF Shifted, FoldLeft, MapThenFoldSet, ShiftLoop
<1> HIDE DEF step, h
<1>7. PICK f \in [SUBSET (1..n) -> V] : FoldOf(f, n, 0, step)
  BY <1>2, <1>4, FoldExists
<1>8. ShiftLoop(f, t)
  <2> DEFINE m(p) == step[<<Max(p), f[p \ {Max(p)}]>>]
             w(p) == Shift(f[p \ {Max(p)}], Digits[t[Max(p)]])
  <2>1. ASSUME NEW p \in SUBSET (1..n), p # {} PROVE m(p) = w(p)
    <3>1. Max(p) \in p
      BY <2>1, LastOff
    <3>2. Max(p) \in 1..n /\ f[p \ {Max(p)}] \in V
      BY <3>1
    <3> QED BY <1>5, <3>2
  <2>2. f = [p \in SUBSET (1..n) |-> IF p = {} THEN 0 ELSE m(p)]
    BY <1>7, Zenon DEF FoldOf
  <2>3. f = [p \in SUBSET (1..n) |-> IF p = {} THEN 0 ELSE w(p)]
    <3> HIDE DEF m, w
    <3> QED BY <2>1, <2>2
  <2> QED BY <2>3, Zenon DEF ShiftLoop
<1>9. ShiftLoop(h, t)
  BY <1>8, Zenon DEF h
<1>10. h[1..0] = 0
  <2>1. 1..0 = {} /\ 1..0 \in SUBSET (1..n)
    OBVIOUS
  <2> QED BY <1>9, <2>1 DEF ShiftLoop
<1>11. ASSUME NEW k \in 1..n PROVE h[1..k] = Shift(h[1..(k - 1)], Digits[t[k]])
  <2>1. 1..k \in SUBSET (1..n) /\ 1..k # {} /\ Max(1..k) = k /\ (1..k) \ {k} = 1..(k - 1)
    BY LastOff
  <2>2. h[1..k] = IF 1..k = {} THEN 0 ELSE Shift(h[(1..k) \ {Max(1..k)}], Digits[t[Max(1..k)]])
    BY <1>9, <2>1, Zenon DEF ShiftLoop
  <2> QED BY <2>1, <2>2, Zenon
<1> DEFINE G == [k \in 0..n |-> h[1..k]]
<1>12. \A k \in 0..n : G[k] = h[1..k]
  OBVIOUS
<1>13. 0 \in 0..n /\ n \in 0..n /\ \A k \in 1..n : k \in 0..n /\ k - 1 \in 0..n
  OBVIOUS
<1> HIDE DEF G
<1>14. Shifts(G, t, n)
  BY <1>10, <1>11, <1>12, <1>13 DEF Shifts
<1> QED BY <1>6, <1>12, <1>13, <1>14

\* The test ahead of each digit finds out whether the number with the digit still fits.
LEMMA GuardExact ==
  ASSUME NEW x \in Nat, NEW d \in 0..9, NEW max \in Nat
  PROVE  x > (max - d) \div 10 <=> x * 10 + d > max
<1> DEFINE y == (max - d) \div 10
<1>1. 10 * y <= max - d /\ max - d < 10 * y + 10 /\ y \in Int
  OBVIOUS
<1> HIDE DEF y
<1>2. x > y <=> x * 10 + d > max
  BY <1>1
<1> QED BY <1>2 DEF y

\* Digit by digit the number is held as long as it fits.
LEMMA ShiftSpells ==
  ASSUME NEW t, NEW n \in Nat, DOMAIN t = 1..n, AllDigits(t), NEW G, Shifts(G, t, n)
  PROVE  /\ Spells(Worth(t), n, 10) \in Nat
         /\ G[n] = IF Spells(Worth(t), n, 10) <= MaxOffset THEN Spells(Worth(t), n, 10) ELSE NULL
<1> DEFINE v == Worth(t)
           x(k) == Spells(v, k, 10)
           Ok(k) == k <= n => x(k) \in Nat /\ G[k] = IF x(k) <= MaxOffset THEN x(k) ELSE NULL
           T == {k \in Nat : Ok(k)}
<1>1. \A i \in 1..n : v[i] = Digits[t[i]] /\ v[i] \in 0..9
  BY WorthIs
<1>2. G[0] = 0 /\ \A k \in 1..n : G[k] = Shift(G[k - 1], Digits[t[k]])
  BY DEF Shifts
<1>3. MaxOffset \in Nat /\ \A i \in Nat : i # NULL
  BY LimitsAssumption, NullAssumption
<1> HIDE DEF v
<1>4. 0 \in T
  <2>1. x(0) = 0
    BY SpellsNothing
  <2> QED BY <1>2, <1>3, <2>1
<1>5. ASSUME NEW k \in T PROVE k + 1 \in T
  <2>1. SUFFICES ASSUME k + 1 <= n PROVE Ok(k + 1)
    OBVIOUS
  <2>2. k \in Nat /\ Ok(k)
    OBVIOUS
  <2>3. k + 1 \in 1..n /\ (k + 1) - 1 = k /\ k <= n /\ \A i \in 1..(k + 1) : i \in 1..n
    BY <2>1, <2>2
  <2>4. Naturals(v, k + 1) /\ v[k + 1] \in 0..9
    BY <1>1, <2>3 DEF Naturals
  <2> DEFINE a == x(k)
             b == x(k + 1)
             d == v[k + 1]
  <2>5. a \in Nat /\ G[k] = (IF a <= MaxOffset THEN a ELSE NULL)
    BY <2>2, <2>3
  <2>6. b = 10 * a + d /\ d \in 0..9
    <3>1. 10 \in Nat
      OBVIOUS
    <3> QED BY <2>2, <2>4, <3>1, SpellsNext
  <2>7. G[k + 1] = Shift(G[k], d)
    BY <1>1, <1>2, <2>3
  <2> HIDE DEF T, x, a, b, d
  <2>8. a > (MaxOffset - d) \div 10 <=> a * 10 + d > MaxOffset
    BY <1>3, <2>5, <2>6, GuardExact
  <2>9. b \in Nat /\ a * 10 + d = b
    BY <2>5, <2>6
  <2>10. G[k + 1] = IF b <= MaxOffset THEN b ELSE NULL
    <3>1. CASE a <= MaxOffset
      <4>1. G[k] = a /\ a # NULL
        BY <1>3, <2>5, <3>1
      <4>2. G[k + 1] = IF a > (MaxOffset - d) \div 10 THEN NULL ELSE a * 10 + d
        BY <2>7, <4>1, Zenon DEF Shift
      <4>3. b > MaxOffset <=> ~(b <= MaxOffset)
        BY <1>3, <2>9
      <4> QED BY <2>8, <2>9, <4>2, <4>3, Zenon
    <3>2. CASE ~(a <= MaxOffset)
      <4>1. G[k + 1] = NULL
        BY <2>5, <2>7, <3>2, Zenon DEF Shift
      <4>2. ~(b <= MaxOffset)
        BY <1>3, <2>5, <2>6, <3>2
      <4> QED BY <4>1, <4>2
    <3> QED BY <3>1, <3>2
  <2> QED BY <2>9, <2>10 DEF b, x
<1>6. n \in T
  <2>1. T \in SUBSET Nat
    OBVIOUS
  <2> HIDE DEF T
  <2> QED BY <1>4, <1>5, <2>1, SetInduction
<1>7. Ok(n) /\ n <= n
  BY <1>6
<1> QED BY <1>7 DEF v

\* What DecimalExact says of a text.
Fitting(s) == {n \in 1..Len(s) : /\ \A i \in 1..n : IsDigit(s[i])
                                 /\ n = Len(s) \/ ~IsDigit(s[n + 1])
                                 /\ Number(SubSeq(s, 1, n), 10, Digits) <= MaxOffset}
DecimalRead(s) ==
  Decimal(s) = IF Fitting(s) = {} THEN NULL
               ELSE [value |-> Number(SubSeq(s, 1, Max(Fitting(s))), 10, Digits),
                     rest  |-> SubSeq(s, Max(Fitting(s)) + 1, Len(s))]

LEMMA DecimalReads == ASSUME NEW s \in Seq(STRING) PROVE DecimalRead(s)
<1> DEFINE n == PrefixLen(s, IsDigit)
           t == SubSeq(s, 1, n)
           value == Number(t, 10, Digits)
<1>1. DigitsTo(s, n) /\ n \in 0..Len(s)
  BY DigitsAhead DEF DigitsTo
<1> DEFINE taken == Shifted(t)
<1>2. Decimal(s) = IF n = 0 \/ taken = NULL THEN NULL
                   ELSE [value |-> taken, rest |-> SubSeq(s, n + 1, Len(s))]
  BY DEF Decimal, Shifted
<1> HIDE DEF n, taken
<1>3. /\ t \in Seq(STRING) /\ Len(t) = n /\ n \in Nat /\ DOMAIN t = 1..n
      /\ \A i \in 1..n : t[i] = s[i]
  <2>1. 1 \in 1..(Len(s) + 1) /\ 1 <= n + 1 /\ n - 1 + 1 = n /\ \A i \in 1..n : 1 + i - 1 = i
    BY <1>1
  <2>2. t \in Seq(STRING) /\ Len(t) = n /\ \A i \in 1..n : t[i] = s[i]
    BY <1>1, <2>1, CutOf
  <2> HIDE DEF t
  <2> QED BY <1>1, <2>2
<1> HIDE DEF t
<1>4. AllDigits(t)
  BY <1>1, <1>3 DEF AllDigits, DigitsTo
<1>5. value \in Nat /\ taken = IF value <= MaxOffset THEN value ELSE NULL
  <2>1. PICK G : Shifted(t) = G[n] /\ Shifts(G, t, n)
    BY <1>3, <1>4, ShiftSteps
  <2>2. value = Spells(Worth(t), n, 10)
    <3>1. \A i \in 1..n : Worth(t)[i] = Digits[t[i]]
      BY <1>3, <1>4, WorthIs
    <3> QED BY <1>3, <3>1, NumberIs
  <2> QED BY <1>3, <1>4, <2>1, <2>2, ShiftSpells DEF taken
<1>6. \A m \in Fitting(s) : m = n
  <2> SUFFICES ASSUME NEW m \in Fitting(s) PROVE m = n
    OBVIOUS
  <2>1. /\ m \in 1..Len(s) /\ \A i \in 1..m : IsDigit(s[i])
        /\ m = Len(s) \/ ~IsDigit(s[m + 1])
    BY DEF Fitting
  <2>2. m \in 0..Len(s) /\ (m < Len(s) => m # Len(s))
    BY <2>1
  <2>3. DigitsTo(s, m)
    BY <2>1, <2>2, Zenon DEF DigitsTo
  <2> QED BY <1>1, <2>3, DigitsEnd
<1>7. n \in Fitting(s) <=> n # 0 /\ value <= MaxOffset
  <2>1. n \in 1..Len(s) <=> n # 0
    BY <1>1
  <2>2. n < Len(s) \/ n = Len(s)
    BY <1>1
  <2>3. (\A i \in 1..n : IsDigit(s[i])) /\ (n = Len(s) \/ ~IsDigit(s[n + 1]))
    BY <1>1, <2>2, Zenon DEF DigitsTo
  <2> QED BY <2>1, <2>3, Zenon DEF Fitting, t, value
<1> DEFINE best == Max(Fitting(s))
<1>8. \A m \in Nat : m # NULL
  BY NullAssumption
<1>9. CASE n \in Fitting(s)
  <2>1. n # 0 /\ value <= MaxOffset /\ taken = value /\ value # NULL
    BY <1>5, <1>7, <1>8, <1>9
  <2>2. best = n
    <3>1. Fitting(s) = {n}
      BY <1>6, <1>9
    <3>2. IsFiniteSet({n}) /\ {n} \in SUBSET Nat /\ {n} # {}
      BY <1>3, FS_Singleton
    <3>3. Max({n}) \in {n}
      BY <3>2, MaxOfFinite
    <3> QED BY <3>1, <3>3
  <2>3. Decimal(s) = [value |-> value, rest |-> SubSeq(s, n + 1, Len(s))]
    BY <1>2, <2>1, Zenon
  <2>4. value = Number(SubSeq(s, 1, n), 10, Digits)
    BY DEF t
  <2>5. Fitting(s) # {}
    BY <1>9
  <2> HIDE DEF best, value
  <2>6. DecimalRead(s)
    <3>1. Decimal(s) = [value |-> Number(SubSeq(s, 1, best), 10, Digits),
                        rest |-> SubSeq(s, best + 1, Len(s))]
      BY <2>2, <2>3, <2>4, Zenon
    <3> QED BY <2>5, <3>1, Zenon DEF DecimalRead, best
  <2> QED BY <2>6
<1>10. CASE n \notin Fitting(s)
  <2>1. Fitting(s) = {}
    BY <1>6, <1>10
  <2>2. n = 0 \/ taken = NULL
    BY <1>5, <1>7, <1>10
  <2> QED BY <1>2, <2>1, <2>2, Zenon DEF DecimalRead
<1> QED BY <1>9, <1>10

-----------------------------------------------------------------------------
(* Numbers in two parts                                                        *)

\* The digits behind the first i.
Behind(v, i, m) == [k \in 1..m |-> v[i + k]]

LEMMA SpellsSplit ==
  ASSUME NEW b \in Nat, NEW i \in Nat, NEW m \in Nat, NEW v, Naturals(v, i + m)
  PROVE  /\ Spells(v, i, b) \in Nat /\ Spells(Behind(v, i, m), m, b) \in Nat
         /\ Spells(v, i + m, b) = Spells(v, i, b) * Power(b, m) + Spells(Behind(v, i, m), m, b)
<1> DEFINE u == Behind(v, i, m)
           a == Spells(v, i, b)
           Ok(k) == k <= m => Spells(v, i + k, b) = a * Power(b, k) + Spells(u, k, b)
           T == {k \in Nat : Ok(k)}
<1>1. \A k \in 1..m : u[k] = v[i + k] /\ i + k \in 1..(i + m)
  BY DEF Behind
<1> HIDE DEF u
<1>2. Naturals(u, m) /\ Naturals(v, i)
  <2>1. \A k \in 1..i : k \in 1..(i + m)
    OBVIOUS
  <2> QED BY <1>1, <2>1 DEF Naturals
<1>3. a \in Nat /\ Spells(u, m, b) \in Nat
  BY <1>2, SpellsTyped
<1> HIDE DEF a
<1>4. 0 \in T
  <2>1. Power(b, 0) = 1 /\ Spells(u, 0, b) = 0 /\ i + 0 = i
    BY PowerNext, SpellsNothing
  <2>2. Spells(v, i, b) = a * 1 + 0
    BY <1>3 DEF a
  <2>3. Ok(0)
    BY <2>1, <2>2
  <2> QED BY <2>3
<1>5. ASSUME NEW k \in T PROVE k + 1 \in T
  <2>1. SUFFICES ASSUME k + 1 <= m PROVE Spells(v, i + (k + 1), b) = a * Power(b, k + 1) + Spells(u, k + 1, b)
    OBVIOUS
  <2>2. k \in Nat /\ Ok(k)
    OBVIOUS
  <2> HIDE DEF T
  <2>3. k <= m /\ k + 1 \in 1..m /\ i + (k + 1) = (i + k) + 1 /\ i + k \in Nat
    BY <2>1, <2>2
  <2> DEFINE x == Spells(v, i + k, b)
             y == Spells(u, k, b)
             w == Power(b, k)
             d == v[i + (k + 1)]
  <2>4. x = a * w + y
    BY <2>2, <2>3
  <2>5. Naturals(u, k + 1) /\ Naturals(v, (i + k) + 1) /\ u[k + 1] = d
    <3>1. \A j \in 1..(k + 1) : j \in 1..m
      BY <2>3
    <3>2. \A j \in 1..((i + k) + 1) : j \in 1..(i + m)
      BY <2>3
    <3> QED BY <1>1, <1>2, <2>3, <3>1, <3>2 DEF Naturals
  <2>6. Spells(u, k + 1, b) = b * y + d
    BY <2>2, <2>5, SpellsNext
  <2>7. Spells(v, (i + k) + 1, b) = b * x + d
    <3>1. Spells(v, (i + k) + 1, b) = b * Spells(v, i + k, b) + v[(i + k) + 1]
      BY <2>3, <2>5, SpellsNext
    <3> QED BY <2>3, <3>1
  <2>8. Power(b, k + 1) = b * w /\ w \in Nat
    BY <2>2, PowerNext
  <2>9. y \in Nat /\ d \in Nat
    <3>1. Naturals(u, k)
      <4>1. \A j \in 1..k : j \in 1..(k + 1)
        BY <2>2
      <4> QED BY <2>5, <4>1 DEF Naturals
    <3>2. d \in Nat
      BY <2>3, <2>5 DEF Naturals
    <3> QED BY <2>2, <3>1, <3>2, SpellsTyped
  <2> HIDE DEF x, y, w, d
  <2>10. b * (a * w + y) + d = a * (b * w) + (b * y + d)
    <3>1. a * w \in Nat /\ b * (a * w) = a * (b * w)
      <4>1. \A p, q, r \in Nat : p * (q * r) = q * (p * r) /\ q * r \in Nat
        OBVIOUS
      <4> QED BY <1>3, <2>8, <4>1
    <3>2. b * (a * w + y) = b * (a * w) + b * y
      <4>1. \A p, q, r \in Nat : p * (q + r) = p * q + p * r
        OBVIOUS
      <4> QED BY <2>9, <3>1, <4>1
    <3>3. b * (a * w) \in Nat /\ b * y \in Nat
      BY <2>9, <3>1, NatTimes
    <3> QED BY <2>9, <3>1, <3>2, <3>3
  <2> QED BY <2>3, <2>4, <2>6, <2>7, <2>8, <2>10
<1>6. m \in T
  <2>1. T \in SUBSET Nat
    OBVIOUS
  <2> HIDE DEF T
  <2> QED BY <1>4, <1>5, <2>1, SetInduction
<1>7. Spells(v, i + m, b) = a * Power(b, m) + Spells(u, m, b)
  <2>1. m <= m
    OBVIOUS
  <2> QED BY <1>6, <2>1
<1> QED BY <1>3, <1>7 DEF a, u

\* A number of m digits is below the power with m zeros.
LEMMA SpellsBelow ==
  ASSUME NEW b \in Nat, NEW m \in Nat, NEW v, Naturals(v, m), \A i \in 1..m : v[i] < b
  PROVE  Spells(v, m, b) < Power(b, m)
<1> DEFINE Ok(k) == k <= m => Spells(v, k, b) < Power(b, k)
           T == {k \in Nat : Ok(k)}
<1>1. 0 \in T
  <2>1. Power(b, 0) = 1 /\ Spells(v, 0, b) = 0
    BY PowerNext, SpellsNothing
  <2>2. Ok(0)
    BY <2>1
  <2> QED BY <2>2
<1>2. ASSUME NEW k \in T PROVE k + 1 \in T
  <2>1. SUFFICES ASSUME k + 1 <= m PROVE Spells(v, k + 1, b) < Power(b, k + 1)
    OBVIOUS
  <2>2. k \in Nat /\ Ok(k)
    OBVIOUS
  <2> HIDE DEF T
  <2>3. k <= m /\ k + 1 \in 1..m /\ \A j \in 1..(k + 1) : j \in 1..m
    BY <2>1, <2>2
  <2>4. Naturals(v, k + 1) /\ v[k + 1] \in Nat /\ v[k + 1] < b /\ Naturals(v, k)
    <3>1. \A j \in 1..k : j \in 1..m
      BY <2>2, <2>3
    <3> QED BY <2>3, <3>1 DEF Naturals
  <2> DEFINE x == Spells(v, k, b)
             w == Power(b, k)
             d == v[k + 1]
  <2>5. x < w /\ x \in Nat /\ w \in Nat /\ d \in Nat /\ d < b
    BY <2>2, <2>3, <2>4, SpellsTyped, PowerNext
  <2>6. Spells(v, k + 1, b) = b * x + d /\ Power(b, k + 1) = b * w
    BY <2>2, <2>4, SpellsNext, PowerNext
  <2> HIDE DEF x, w, d
  <2>7. b * x + d < b * w
    <3> DEFINE z == w - x - 1
    <3>1. z \in Nat /\ w = x + 1 + z
      BY <2>5
    <3> HIDE DEF z
    <3>2. b * (x + 1 + z) = b * x + b + b * z
      <4>1. \A p, q, r \in Nat : p * (q + 1 + r) = p * q + p + p * r
        OBVIOUS
      <4> QED BY <2>5, <3>1, <4>1
    <3>3. b * x \in Nat /\ b * z \in Nat
      BY <2>5, <3>1, NatTimes
    <3> QED BY <2>5, <3>1, <3>2, <3>3
  <2> QED BY <2>6, <2>7
<1>3. m \in T
  <2>1. T \in SUBSET Nat
    OBVIOUS
  <2> HIDE DEF T
  <2> QED BY <1>1, <1>2, <2>1, SetInduction
<1>4. Ok(m) /\ m <= m
  BY <1>3
<1> QED BY <1>4

LEMMA TenTimes ==
  \A n \in Nat : Power(10, n) \in Nat /\ Power(10, n + 1) = 10 * Power(10, n)
<1>1. 10 \in Nat
  OBVIOUS
<1> QED BY <1>1, PowerNext

LEMMA PowersOfTen ==
  Power(10, 0) = 1 /\ Power(10, 1) = 10 /\ Power(10, 2) = 100 /\ Power(10, 3) = 1000
<1>1. 10 \in Nat /\ 0 \in Nat /\ 1 \in Nat /\ 2 \in Nat
  OBVIOUS
<1>2. Power(10, 0) = 1
  BY <1>1, PowerNext
<1>3. Power(10, 1) = 10
  <2>1. 0 + 1 = 1 /\ 10 * 1 = 10
    OBVIOUS
  <2> QED BY <1>1, <1>2, <2>1, TenTimes
<1>4. Power(10, 2) = 100
  <2>1. 1 + 1 = 2 /\ 10 * 10 = 100
    OBVIOUS
  <2> QED BY <1>1, <1>3, <2>1, TenTimes
<1>5. Power(10, 3) = 1000
  <2>1. 2 + 1 = 3 /\ 10 * 100 = 1000
    OBVIOUS
  <2> QED BY <1>1, <1>4, <2>1, TenTimes
<1> QED BY <1>2, <1>3, <1>4, <1>5

LEMMA ThousandTimes == ASSUME NEW n \in Nat PROVE Power(10, n + 3) = 1000 * Power(10, n)
<1>1. n + 1 \in Nat /\ n + 2 \in Nat /\ (n + 1) + 1 = n + 2 /\ (n + 2) + 1 = n + 3
  OBVIOUS
<1> DEFINE x == Power(10, n)
<1>2. Power(10, n + 1) = 10 * x /\ x \in Nat
  BY TenTimes
<1>3. Power(10, n + 2) = 10 * (10 * x)
  BY <1>1, <1>2, TenTimes
<1>4. Power(10, n + 3) = 10 * (10 * (10 * x))
  BY <1>1, <1>3, TenTimes
<1> HIDE DEF x
<1>5. 10 * (10 * (10 * x)) = 1000 * x
  BY <1>2
<1> QED BY <1>4, <1>5 DEF x

-----------------------------------------------------------------------------
(* get_duration_ms                                                             *)

Scans == [v1 : Nat, v2 : Nat, n : Nat, dot : BOOLEAN, stop : BOOLEAN]

\* Before the dot, behind it, and at the end.
Whole(a)         == [v1 |-> a, v2 |-> 0, n |-> 0, dot |-> FALSE, stop |-> FALSE]
Dotted(a, b, n)  == [v1 |-> a, v2 |-> b, n |-> n, dot |-> TRUE, stop |-> FALSE]
Ended(r)         == [r EXCEPT !.stop = TRUE]

\* What a character does to the scan.
LEMMA ScanTyped == ASSUME NEW r \in Scans, NEW c PROVE Scan(r, c) \in Scans
<1>1. /\ r.v1 \in Nat /\ r.v2 \in Nat /\ r.n \in Nat
      /\ r = [v1 |-> r.v1, v2 |-> r.v2, n |-> r.n, dot |-> r.dot, stop |-> r.stop]
      /\ r.dot \in BOOLEAN /\ r.stop \in BOOLEAN
  BY DEF Scans
<1>2. CASE IsDigit(c)
  <2> DEFINE d == Digits[c]
             a == r.v1 * 10 + d
             b == r.v2 * 10 + d
             n == r.n + 1
  <2>1. d \in 0..9
    BY <1>2, DigitValues DEF IsDigit
  <2> HIDE DEF d
  <2>2. a \in Nat /\ b \in Nat /\ n \in Nat
    BY <1>1, <2>1
  <2>3. Scan(r, c) \in {r, [r EXCEPT !.v1 = a], [r EXCEPT !.v2 = b, !.n = n],
                        [r EXCEPT !.dot = TRUE], [r EXCEPT !.stop = TRUE]}
    BY <1>2 DEF Scan, d
  <2> HIDE DEF a, b, n
  <2>4. /\ [r EXCEPT !.v1 = a] \in Scans /\ [r EXCEPT !.v2 = b, !.n = n] \in Scans
        /\ [r EXCEPT !.dot = TRUE] \in Scans /\ [r EXCEPT !.stop = TRUE] \in Scans
    BY <2>2 DEF Scans
  <2> QED BY <2>3, <2>4
<1>3. CASE ~IsDigit(c)
  <2>1. Scan(r, c) \in {r, [r EXCEPT !.dot = TRUE], [r EXCEPT !.stop = TRUE]}
    BY <1>3 DEF Scan
  <2>2. [r EXCEPT !.dot = TRUE] \in Scans /\ [r EXCEPT !.stop = TRUE] \in Scans
    BY DEF Scans
  <2> QED BY <2>1, <2>2
<1> QED BY <1>2, <1>3

LEMMA ScanStays == ASSUME NEW r, NEW c, r.stop PROVE Scan(r, c) = r
BY DEF Scan

LEMMA ScanDigit ==
  ASSUME NEW a, NEW c, IsDigit(c)
  PROVE  Scan(Whole(a), c) = Whole(a * 10 + Digits[c])
BY DEF Scan, Whole

LEMMA ScanDecimal ==
  ASSUME NEW a, NEW b, NEW n, NEW c, IsDigit(c), n < 3
  PROVE  Scan(Dotted(a, b, n), c) = Dotted(a, b * 10 + Digits[c], n + 1)
BY DEF Scan, Dotted

LEMMA ScanDot ==
  ASSUME NEW a, NEW c, ~IsDigit(c), c = "."
  PROVE  Scan(Whole(a), c) = Dotted(a, 0, 0)
BY DEF Scan, Whole, Dotted

LEMMA ScanEnds ==
  ASSUME NEW a, NEW c, ~IsDigit(c), c # "."
  PROVE  Scan(Whole(a), c) = Ended(Whole(a))
BY DEF Scan, Whole, Ended

LEMMA ScanCut ==
  ASSUME NEW a, NEW b, NEW n, NEW c, ~IsDigit(c) \/ ~(n < 3)
  PROVE  Scan(Dotted(a, b, n), c) = Ended(Dotted(a, b, n))
BY DEF Scan, Dotted, Ended

Scanning(u) == FoldLeft(Scan, Scanned, u)

\* The loop of Scanning.
ScanLoop(h, u) ==
  h = [p \in SUBSET DOMAIN u |-> IF p = {} THEN Scanned ELSE Scan(h[p \ {Max(p)}], u[Max(p)])]

ScansOn(G, u, n) ==
  /\ G[0] = Scanned /\ \A k \in 1..n : G[k] = Scan(G[k - 1], u[k])
  /\ \A k \in 0..n : G[k] \in Scans

LEMMA ScanSteps ==
  ASSUME NEW u, NEW n \in Nat, DOMAIN u = 1..n
  PROVE  \E G : Scanning(u) = G[n] /\ ScansOn(G, u, n)
<1> DEFINE V == Scans
           step == [p \in (1..n) \X V |-> Scan(p[2], u[p[1]])]
           h == CHOOSE it : ScanLoop(it, u)
<1>1. Scanned \in V
  BY DEF Scanned, Scans
<1>2. \A v \in V : \A c : Scan(v, c) \in V
  BY ScanTyped
<1>3. Scanning(u) = h[DOMAIN u]
  BY DEF Scanning, FoldLeft, MapThenFoldSet, ScanLoop
<1> HIDE DEF V
<1>4. step \in [(1..n) \X V -> V]
  <2>1. \A p \in (1..n) \X V : Scan(p[2], u[p[1]]) \in V
    BY <1>2
  <2> QED BY <2>1
<1>5. \A i \in 1..n : \A v \in V : step[<<i, v>>] = Scan(v, u[i])
  OBVIOUS
<1> HIDE DEF step, h
<1>7. PICK f \in [SUBSET (1..n) -> V] : FoldOf(f, n, Scanned, step)
  BY <1>1, <1>4, FoldExists
<1>8. ScanLoop(f, u)
  <2> DEFINE m(p) == step[<<Max(p), f[p \ {Max(p)}]>>]
             w(p) == Scan(f[p \ {Max(p)}], u[Max(p)])
  <2>1. ASSUME NEW p \in SUBSET (1..n), p # {} PROVE m(p) = w(p)
    <3>1. Max(p) \in p
      BY <2>1, LastOff
    <3>2. Max(p) \in 1..n /\ f[p \ {Max(p)}] \in V
      BY <3>1
    <3> QED BY <1>5, <3>2
  <2>2. f = [p \in SUBSET (1..n) |-> IF p = {} THEN Scanned ELSE m(p)]
    BY <1>7, Zenon DEF FoldOf
  <2>3. f = [p \in SUBSET (1..n) |-> IF p = {} THEN Scanned ELSE w(p)]
    <3> HIDE DEF m, w
    <3> QED BY <2>1, <2>2
  <2> QED BY <2>3, Zenon DEF ScanLoop
<1>9. ScanLoop(h, u)
  BY <1>8, Zenon DEF h
<1>10. h[1..0] = Scanned
  <2>1. 1..0 = {} /\ 1..0 \in SUBSET (1..n)
    OBVIOUS
  <2> QED BY <1>9, <2>1 DEF ScanLoop
<1>11. ASSUME NEW k \in 1..n PROVE h[1..k] = Scan(h[1..(k - 1)], u[k])
  <2>1. 1..k \in SUBSET (1..n) /\ 1..k # {} /\ Max(1..k) = k /\ (1..k) \ {k} = 1..(k - 1)
    BY LastOff
  <2>2. h[1..k] = IF 1..k = {} THEN Scanned ELSE Scan(h[(1..k) \ {Max(1..k)}], u[Max(1..k)])
    BY <1>9, <2>1, Zenon DEF ScanLoop
  <2> QED BY <2>1, <2>2, Zenon
<1> DEFINE T == {k \in Nat : k <= n => h[1..k] \in V}
<1>12. 0 \in T
  BY <1>1, <1>10
<1>13. ASSUME NEW k \in T PROVE k + 1 \in T
  <2>1. SUFFICES ASSUME k + 1 <= n PROVE h[1..(k + 1)] \in V
    OBVIOUS
  <2>a. k \in Nat /\ (k <= n => h[1..k] \in V)
    OBVIOUS
  <2> HIDE DEF T
  <2>2. k + 1 \in 1..n /\ (k + 1) - 1 = k /\ k <= n
    BY <2>1, <2>a
  <2>3. h[1..(k + 1)] = Scan(h[1..k], u[k + 1])
    BY <1>11, <2>2
  <2> QED BY <1>2, <2>2, <2>3, <2>a
<1>14. \A k \in Nat : k <= n => h[1..k] \in V
  <2>1. T \in SUBSET Nat
    OBVIOUS
  <2>2. T = Nat
    <3> HIDE DEF T
    <3> QED BY <1>12, <1>13, <2>1, SetInduction
  <2> QED BY <2>2
<1> HIDE DEF T
<1> DEFINE G == [k \in 0..n |-> h[1..k]]
<1>15. \A k \in 0..n : G[k] = h[1..k]
  OBVIOUS
<1>16. 0 \in 0..n /\ n \in 0..n /\ \A k \in 1..n : k \in 0..n /\ k - 1 \in 0..n
  OBVIOUS
<1>17. \A k \in 0..n : k \in Nat /\ k <= n
  OBVIOUS
<1> HIDE DEF G
<1>18. ScansOn(G, u, n)
  BY <1>10, <1>11, <1>14, <1>15, <1>16, <1>17 DEF ScansOn, V
<1> QED BY <1>3, <1>15, <1>16, <1>18

\* A stopped scan has its result.
LEMMA ScanRests ==
  ASSUME NEW u, NEW n \in Nat, NEW G, ScansOn(G, u, n), NEW k \in 0..n, G[k].stop
  PROVE  G[n] = G[k]
<1> DEFINE T == {j \in Nat : k + j <= n => G[k + j] = G[k]}
<1>1. 0 \in T
  OBVIOUS
<1>2. ASSUME NEW j \in T PROVE j + 1 \in T
  <2>1. SUFFICES ASSUME k + (j + 1) <= n PROVE G[k + (j + 1)] = G[k]
    OBVIOUS
  <2>2. j \in Nat /\ (k + j <= n => G[k + j] = G[k])
    OBVIOUS
  <2> HIDE DEF T
  <2>3. k + j <= n /\ k + (j + 1) \in 1..n /\ (k + (j + 1)) - 1 = k + j
    BY <2>1, <2>2
  <2>4. G[k + (j + 1)] = Scan(G[k + j], u[k + (j + 1)])
    BY <2>3 DEF ScansOn
  <2> QED BY <2>2, <2>3, <2>4, ScanStays
<1>3. n - k \in T /\ k + (n - k) = n
  <2>1. T \in SUBSET Nat
    OBVIOUS
  <2>2. n - k \in Nat /\ k + (n - k) = n
    OBVIOUS
  <2> HIDE DEF T
  <2> QED BY <1>1, <1>2, <2>1, <2>2, SetInduction
<1>4. k + (n - k) <= n => G[k + (n - k)] = G[k]
  BY <1>3
<1> QED BY <1>3, <1>4

\* w holds the i digits at the start of u, and the d digits behind the dot that follows them.
LaidOut(u, n, w, i, d) ==
  /\ \A k \in 1..i : IsDigit(u[k]) /\ w[k] = Digits[u[k]]
  /\ i < n => ~IsDigit(u[i + 1])
  /\ \A k \in 1..d : IsDigit(u[i + 1 + k]) /\ w[i + k] = Digits[u[i + 1 + k]]

HasDot(u, n, i) == i < n /\ u[i + 1] = "."

LEMMA ScanWhole ==
  ASSUME NEW u, NEW n \in Nat, NEW G, ScansOn(G, u, n),
         NEW i \in 0..n, NEW d \in Nat, NEW w, LaidOut(u, n, w, i, d)
  PROVE  Spells(w, i, 10) \in Nat /\ G[i] = Whole(Spells(w, i, 10))
<1> DEFINE x(k) == Spells(w, k, 10)
           T == {k \in Nat : k <= i => x(k) \in Nat /\ G[k] = Whole(x(k))}
<1>1. \A k \in 1..i : IsDigit(u[k]) /\ w[k] = Digits[u[k]] /\ w[k] \in 0..9
  BY DigitValues DEF LaidOut, IsDigit
<1>2. 0 \in T
  <2>1. x(0) = 0
    BY SpellsNothing
  <2>2. G[0] = Whole(0)
    BY DEF ScansOn, Scanned, Whole
  <2> QED BY <2>1, <2>2
<1>3. ASSUME NEW k \in T PROVE k + 1 \in T
  <2>1. SUFFICES ASSUME k + 1 <= i
                 PROVE  x(k + 1) \in Nat /\ G[k + 1] = Whole(x(k + 1))
    OBVIOUS
  <2>2. k \in Nat /\ (k <= i => x(k) \in Nat /\ G[k] = Whole(x(k)))
    OBVIOUS
  <2> HIDE DEF T
  <2>3. k <= i /\ k + 1 \in 1..i /\ k + 1 \in 1..n /\ (k + 1) - 1 = k /\ \A j \in 1..(k + 1) : j \in 1..i
    BY <2>1, <2>2
  <2>4. Naturals(w, k + 1) /\ 10 \in Nat
    BY <1>1, <2>3 DEF Naturals
  <2>5. x(k + 1) = 10 * x(k) + w[k + 1]
    BY <2>2, <2>4, SpellsNext
  <2>6. G[k + 1] = Scan(G[k], u[k + 1])
    BY <2>3 DEF ScansOn
  <2>7. x(k) \in Nat /\ G[k] = Whole(x(k))
    BY <2>2, <2>3
  <2>8. IsDigit(u[k + 1]) /\ w[k + 1] = Digits[u[k + 1]] /\ w[k + 1] \in 0..9
    BY <1>1, <2>3
  <2> DEFINE a == x(k)
             b == x(k + 1)
             c == w[k + 1]
  <2>9. b = 10 * a + c /\ a \in Nat /\ c \in 0..9
    BY <2>5, <2>7, <2>8
  <2>10. G[k + 1] = Whole(a * 10 + c)
    BY <2>6, <2>7, <2>8, ScanDigit
  <2> HIDE DEF a, b, c
  <2>11. b \in Nat /\ a * 10 + c = b
    BY <2>9
  <2> QED BY <2>10, <2>11 DEF b
<1>4. i \in T
  <2>1. T \in SUBSET Nat /\ i \in Nat
    OBVIOUS
  <2> HIDE DEF T
  <2> QED BY <1>2, <1>3, <2>1, SetInduction
<1>5. i <= i /\ (i <= i => x(i) \in Nat /\ G[i] = Whole(x(i)))
  BY <1>4
<1> QED BY <1>5

\* The decimals are read up to the third.
LEMMA ScanDecimals ==
  ASSUME NEW u, NEW n \in Nat, NEW G, ScansOn(G, u, n),
         NEW i \in 0..n, NEW d \in Nat, NEW w, LaidOut(u, n, w, i, d), HasDot(u, n, i),
         i + 1 + d <= n, NEW e \in 0..d, e <= 3
  PROVE  /\ Spells(Behind(w, i, d), e, 10) \in Nat
         /\ G[i + 1 + e] = Dotted(Spells(w, i, 10), Spells(Behind(w, i, d), e, 10), e)
<1> DEFINE z == Behind(w, i, d)
           a == Spells(w, i, 10)
           y(k) == Spells(z, k, 10)
           Ok(k) == k <= e => y(k) \in Nat /\ G[i + 1 + k] = Dotted(a, y(k), k)
           T == {k \in Nat : Ok(k)}
<1>1. \A k \in 1..d : z[k] = w[i + k]
  BY DEF Behind
<1>2. \A k \in 1..d : IsDigit(u[i + 1 + k]) /\ z[k] = Digits[u[i + 1 + k]] /\ z[k] \in 0..9
  <2>1. \A k \in 1..d : IsDigit(u[i + 1 + k]) /\ w[i + k] = Digits[u[i + 1 + k]]
    BY DEF LaidOut
  <2>2. \A c : IsDigit(c) => Digits[c] \in 0..9
    BY DigitValues DEF IsDigit
  <2> HIDE DEF z
  <2> QED BY <1>1, <2>1, <2>2, Zenon
<1> HIDE DEF z
<1>3. a \in Nat /\ G[i] = Whole(a)
  BY ScanWhole
<1> HIDE DEF a
<1>4. 0 \in T
  <2>1. y(0) = 0
    BY SpellsNothing
  <2>2. i + 1 \in 1..n /\ (i + 1) - 1 = i /\ i + 1 + 0 = i + 1
    BY DEF HasDot
  <2>3. G[i + 1] = Scan(G[i], u[i + 1])
    BY <2>2 DEF ScansOn
  <2>4. ~IsDigit(u[i + 1]) /\ u[i + 1] = "."
    BY Zenon DEF HasDot, LaidOut
  <2>5. G[i + 1] = Dotted(a, 0, 0)
    BY <1>3, <2>3, <2>4, ScanDot
  <2>6. Ok(0)
    BY <2>1, <2>2, <2>5
  <2> QED BY <2>6
<1>5. ASSUME NEW k \in T PROVE k + 1 \in T
  <2>1. SUFFICES ASSUME k + 1 <= e
                 PROVE  y(k + 1) \in Nat /\ G[i + 1 + (k + 1)] = Dotted(a, y(k + 1), k + 1)
    OBVIOUS
  <2>2. k \in Nat /\ Ok(k)
    OBVIOUS
  <2> HIDE DEF T
  <2>3. k <= e /\ k + 1 \in 1..d /\ k < 3 /\ \A j \in 1..(k + 1) : j \in 1..d
    BY <2>1, <2>2
  <2>4. i + 1 + (k + 1) \in 1..n /\ (i + 1 + (k + 1)) - 1 = i + 1 + k
    BY <2>2, <2>3
  <2>5. Naturals(z, k + 1) /\ 10 \in Nat
    BY <1>2, <2>3 DEF Naturals
  <2>6. y(k + 1) = 10 * y(k) + z[k + 1]
    BY <2>2, <2>5, SpellsNext
  <2>7. G[i + 1 + (k + 1)] = Scan(G[i + 1 + k], u[i + 1 + (k + 1)])
    BY <2>4 DEF ScansOn
  <2>8. y(k) \in Nat /\ G[i + 1 + k] = Dotted(a, y(k), k)
    BY <2>2, <2>3
  <2>9. IsDigit(u[i + 1 + (k + 1)]) /\ z[k + 1] = Digits[u[i + 1 + (k + 1)]] /\ z[k + 1] \in 0..9
    BY <1>2, <2>3
  <2> DEFINE p == y(k)
             q == y(k + 1)
             c == z[k + 1]
  <2>10. q = 10 * p + c /\ p \in Nat /\ c \in 0..9
    BY <2>6, <2>8, <2>9
  <2>11. G[i + 1 + (k + 1)] = Dotted(a, p * 10 + c, k + 1)
    BY <2>3, <2>7, <2>8, <2>9, ScanDecimal
  <2> HIDE DEF p, q, c
  <2>12. q \in Nat /\ p * 10 + c = q
    BY <2>10
  <2> QED BY <2>11, <2>12 DEF q
<1>6. e \in T
  <2>1. T \in SUBSET Nat /\ e \in Nat
    OBVIOUS
  <2> HIDE DEF T
  <2> QED BY <1>4, <1>5, <2>1, SetInduction
<1>7. e <= e /\ Ok(e)
  BY <1>6
<1> QED BY <1>7 DEF a, z

\* What the scan of a text without leading blanks ends with.
ScannedTo(r, x, y, e) == r.v1 = x /\ r.v2 = y /\ r.n = e

LEMMA ScanReads ==
  ASSUME NEW u, NEW n \in Nat, DOMAIN u = 1..n,
         NEW i \in 0..n, NEW d \in Nat, NEW w, LaidOut(u, n, w, i, d),
         ~HasDot(u, n, i) => d = 0,
         HasDot(u, n, i) => i + 1 + d <= n /\ (i + 1 + d < n => ~IsDigit(u[i + 1 + d + 1])),
         NEW e \in 0..3, e = IF d <= 3 THEN d ELSE 3
  PROVE  /\ Spells(w, i, 10) \in Nat /\ Spells(Behind(w, i, d), e, 10) \in Nat
         /\ ScannedTo(Scanning(u), Spells(w, i, 10), Spells(Behind(w, i, d), e, 10), e)
<1> DEFINE x == Spells(w, i, 10)
           y == Spells(Behind(w, i, d), e, 10)
<1>1. PICK G : Scanning(u) = G[n] /\ ScansOn(G, u, n)
  BY ScanSteps
<1>2. x \in Nat /\ G[i] = Whole(x)
  BY <1>1, ScanWhole
<1>3. /\ Ended(Whole(x)).stop /\ Ended(Dotted(x, y, e)).stop
      /\ ScannedTo(Whole(x), x, 0, 0) /\ ScannedTo(Ended(Whole(x)), x, 0, 0)
      /\ ScannedTo(Dotted(x, y, e), x, y, e) /\ ScannedTo(Ended(Dotted(x, y, e)), x, y, e)
  BY DEF Whole, Dotted, Ended, ScannedTo
<1> HIDE DEF x, y
<1>4. ASSUME ~HasDot(u, n, i) PROVE y \in Nat /\ ScannedTo(Scanning(u), x, y, e)
  <2>1. d = 0 /\ e = 0
    BY <1>4
  <2>2. y = 0
    BY <2>1, SpellsNothing DEF y
  <2>3. CASE i = n
    BY <1>1, <1>2, <1>3, <2>1, <2>2, <2>3
  <2>4. CASE i < n
    <3>1. ~IsDigit(u[i + 1]) /\ u[i + 1] # "."
      BY <1>4, <2>4 DEF HasDot, LaidOut
    <3>2. i + 1 \in 1..n /\ i + 1 \in 0..n /\ (i + 1) - 1 = i
      BY <2>4
    <3>3. G[i + 1] = Scan(G[i], u[i + 1])
      BY <1>1, <3>2 DEF ScansOn
    <3>4. G[i + 1] = Ended(Whole(x))
      BY <1>2, <3>1, <3>3, ScanEnds
    <3>5. G[n] = G[i + 1]
      BY <1>1, <1>3, <3>2, <3>4, ScanRests
    <3> QED BY <1>1, <1>2, <1>3, <2>1, <2>2, <3>4, <3>5
  <2> QED BY <2>3, <2>4
<1>5. ASSUME HasDot(u, n, i) PROVE y \in Nat /\ ScannedTo(Scanning(u), x, y, e)
  <2>1. i + 1 + d <= n /\ e \in 0..d /\ e <= 3
    BY <1>5
  <2>2. y \in Nat /\ G[i + 1 + e] = Dotted(x, y, e)
    BY <1>1, <1>5, <2>1, ScanDecimals DEF x, y
  <2>3. i + 1 + e \in 0..n
    BY <2>1
  <2>4. CASE i + 1 + e = n
    BY <1>1, <1>2, <1>3, <2>2, <2>4
  <2>5. CASE i + 1 + e < n
    <3>1. i + 1 + e + 1 \in 1..n /\ i + 1 + e + 1 \in 0..n /\ (i + 1 + e + 1) - 1 = i + 1 + e
      BY <2>3, <2>5
    <3>2. G[i + 1 + e + 1] = Scan(G[i + 1 + e], u[i + 1 + e + 1])
      BY <1>1, <3>1 DEF ScansOn
    <3>3. ~IsDigit(u[i + 1 + e + 1]) \/ ~(e < 3)
      <4>1. e = d \/ ~(e < 3)
        OBVIOUS
      <4> QED BY <1>5, <2>5, <4>1
    <3>4. G[i + 1 + e + 1] = Ended(Dotted(x, y, e))
      BY <2>2, <3>2, <3>3, ScanCut
    <3>5. G[n] = G[i + 1 + e + 1]
      BY <1>1, <1>3, <3>1, <3>4, ScanRests
    <3> QED BY <1>1, <1>2, <1>3, <2>2, <3>4, <3>5
  <2>6. i + 1 + e = n \/ i + 1 + e < n
    BY <2>3
  <2> QED BY <2>4, <2>5, <2>6
<1> QED BY <1>2, <1>4, <1>5 DEF x, y

Ms(r) == r.v1 * 1000 + r.v2 * Scale[r.n]

\* A duration is its number, cut to milliseconds; the number has the decimals of the power p.
Truncates(ms, number, p) == ms * p <= number * 1000 /\ number * 1000 < (ms + 1) * p

\* Up to three decimals a duration is exact.
LEMMA ShortTruncates ==
  ASSUME NEW x \in Nat, NEW y \in Nat, NEW d \in 0..3, NEW r, ScannedTo(r, x, y, d)
  PROVE  Truncates(Ms(r), x * Power(10, d) + y, Power(10, d))
<1>1. Ms(r) = x * 1000 + y * Scale[d]
  BY DEF Ms, ScannedTo
<1>2. d = 0 \/ d = 1 \/ d = 2 \/ d = 3
  OBVIOUS
<1>3. Scale[0] = 1000 /\ Scale[1] = 100 /\ Scale[2] = 10 /\ Scale[3] = 1
  BY DEF Scale
<1>4. CASE d = 0
  <2>1. Power(10, d) = 1 /\ Scale[d] = 1000
    BY <1>3, <1>4, PowersOfTen
  <2> DEFINE p == Power(10, d)
             f == Scale[d]
             ms == Ms(r)
  <2>2. p = 1 /\ f = 1000 /\ ms = x * 1000 + y * f
    BY <1>1, <2>1
  <2> HIDE DEF p, f, ms
  <2>3. ms * p <= (x * p + y) * 1000 /\ (x * p + y) * 1000 < (ms + 1) * p
    BY <2>2
  <2> QED BY <2>3 DEF Truncates, p, ms
<1>5. CASE d = 1
  <2>1. Power(10, d) = 10 /\ Scale[d] = 100
    BY <1>3, <1>5, PowersOfTen
  <2> DEFINE p == Power(10, d)
             f == Scale[d]
             ms == Ms(r)
  <2>2. p = 10 /\ f = 100 /\ ms = x * 1000 + y * f
    BY <1>1, <2>1
  <2> HIDE DEF p, f, ms
  <2>3. ms * p <= (x * p + y) * 1000 /\ (x * p + y) * 1000 < (ms + 1) * p
    BY <2>2
  <2> QED BY <2>3 DEF Truncates, p, ms
<1>6. CASE d = 2
  <2>1. Power(10, d) = 100 /\ Scale[d] = 10
    BY <1>3, <1>6, PowersOfTen
  <2> DEFINE p == Power(10, d)
             f == Scale[d]
             ms == Ms(r)
  <2>2. p = 100 /\ f = 10 /\ ms = x * 1000 + y * f
    BY <1>1, <2>1
  <2> HIDE DEF p, f, ms
  <2>3. ms * p <= (x * p + y) * 1000 /\ (x * p + y) * 1000 < (ms + 1) * p
    BY <2>2
  <2> QED BY <2>3 DEF Truncates, p, ms
<1>7. CASE d = 3
  <2>1. Power(10, d) = 1000 /\ Scale[d] = 1
    BY <1>3, <1>7, PowersOfTen
  <2> DEFINE p == Power(10, d)
             f == Scale[d]
             ms == Ms(r)
  <2>2. p = 1000 /\ f = 1 /\ ms = x * 1000 + y * f
    BY <1>1, <2>1
  <2> HIDE DEF p, f, ms
  <2>3. ms * p <= (x * p + y) * 1000 /\ (x * p + y) * 1000 < (ms + 1) * p
    BY <2>2
  <2> QED BY <2>3 DEF Truncates, p, ms
<1> QED BY <1>2, <1>4, <1>5, <1>6, <1>7

\* Behind the third decimal a duration loses less than a millisecond: the
\* decimals are the three y and the rest z, which is below the power q.
LEMMA LongTruncates ==
  ASSUME NEW x \in Nat, NEW y \in Nat, NEW q \in Nat, NEW z \in Nat, z < q,
         NEW r, ScannedTo(r, x, y, 3)
  PROVE  Truncates(Ms(r), x * (1000 * q) + (y * q + z), 1000 * q)
<1> DEFINE ms == Ms(r)
           a == x * q
           b == y * q
           m == ms * q
<1>1. ms = x * 1000 + y
  BY DEF Ms, ScannedTo, Scale
<1> HIDE DEF ms
<1>2. a \in Nat /\ b \in Nat
  BY NatTimes
<1>3. \A i, j, k \in Nat : (i * 1000 + j) * k = 1000 * (i * k) + j * k
  OBVIOUS
<1>4. m = 1000 * a + b
  BY <1>1, <1>3
<1>5. x * (1000 * q) = 1000 * a
  OBVIOUS
<1>6. ms * (1000 * q) = 1000 * m /\ (ms + 1) * (1000 * q) = 1000 * m + 1000 * q
  <2>1. \A i, j \in Nat : i * (1000 * j) = 1000 * (i * j) /\ (i + 1) * (1000 * j) = 1000 * (i * j) + 1000 * j
    OBVIOUS
  <2>2. ms \in Nat
    BY <1>1
  <2> QED BY <2>1, <2>2
<1> DEFINE A == x * (1000 * q)
           B == ms * (1000 * q)
           C == (ms + 1) * (1000 * q)
<1>7. A = 1000 * a /\ B = 1000 * m /\ C = 1000 * m + 1000 * q
  BY <1>5, <1>6
<1> HIDE DEF a, b, m, A, B, C
<1>8. B <= (A + (b + z)) * 1000 /\ (A + (b + z)) * 1000 < C
  BY <1>2, <1>4, <1>7
<1> QED BY <1>8 DEF Truncates, A, B, C, b, ms

LEMMA SpelledTruncates ==
  ASSUME NEW i \in Nat, NEW d \in Nat, NEW w, \A k \in 1..(i + d) : w[k] \in 0..9,
         NEW e \in 0..3, e = IF d <= 3 THEN d ELSE 3,
         NEW r, ScannedTo(r, Spells(w, i, 10), Spells(Behind(w, i, d), e, 10), e)
  PROVE  Truncates(Ms(r), Spells(w, i + d, 10), Power(10, d))
<1> DEFINE z == Behind(w, i, d)
           x == Spells(w, i, 10)
           y == Spells(z, e, 10)
           number == Spells(w, i + d, 10)
<1>1. Naturals(w, i + d) /\ 10 \in Nat
  BY DEF Naturals
<1>2. x \in Nat /\ Spells(z, d, 10) \in Nat /\ number = x * Power(10, d) + Spells(z, d, 10)
  BY <1>1, SpellsSplit
<1>3. \A k \in 1..d : z[k] \in 0..9
  <2>1. \A k \in 1..d : i + k \in 1..(i + d) /\ z[k] = w[i + k]
    BY DEF Behind
  <2> QED BY <2>1
<1>a. ScannedTo(r, x, y, e)
  OBVIOUS
<1> HIDE DEF x, z, number
<1>4. CASE d <= 3
  <2>1. e = d /\ d \in 0..3
    BY <1>4
  <2>2. y \in Nat /\ number = x * Power(10, d) + y
    BY <1>2, <2>1
  <2> HIDE DEF y
  <2>3. Truncates(Ms(r), x * Power(10, d) + y, Power(10, d))
    BY <1>2, <1>a, <2>1, <2>2, ShortTruncates
  <2> QED BY <2>2, <2>3 DEF number
<1>5. CASE ~(d <= 3)
  <2> DEFINE m == d - 3
             v == Behind(z, 3, m)
             q == Power(10, m)
             rest == Spells(v, m, 10)
  <2>1. m \in Nat /\ 3 + m = d /\ m + 3 = d /\ e = 3 /\ 3 \in Nat
    BY <1>5
  <2> HIDE DEF m
  <2>2. Naturals(z, 3 + m)
    BY <1>3, <2>1 DEF Naturals
  <2>3. Spells(z, 3, 10) \in Nat /\ rest \in Nat /\ Spells(z, 3 + m, 10) = Spells(z, 3, 10) * q + rest
    BY <1>1, <2>1, <2>2, SpellsSplit, SMTT(20)
  <2>4. \A k \in 1..m : v[k] \in 0..9
    <3>1. \A k \in 1..m : 3 + k \in 1..d /\ v[k] = z[3 + k]
      BY <2>1 DEF Behind
    <3> QED BY <1>3, <3>1
  <2>5. rest < q
    <3> HIDE DEF v
    <3>1. Naturals(v, m) /\ \A k \in 1..m : v[k] < 10
      BY <2>4 DEF Naturals
    <3> QED BY <1>1, <2>1, <3>1, SpellsBelow
  <2>6. q \in Nat /\ Power(10, m + 3) = 1000 * q
    BY <2>1, TenTimes, ThousandTimes, SMTT(20)
  <2>7. y \in Nat /\ Spells(z, d, 10) = y * q + rest
    BY <2>1, <2>3
  <2>8. Power(10, d) = 1000 * q
    BY <2>1, <2>6
  <2> HIDE DEF y, q, rest
  <2>9. number = x * (1000 * q) + (y * q + rest)
    BY <1>2, <2>7, <2>8
  <2>10. ScannedTo(r, x, y, 3)
    BY <1>a, <2>1
  <2>11. Truncates(Ms(r), x * (1000 * q) + (y * q + rest), 1000 * q)
    BY <1>2, <2>3, <2>5, <2>6, <2>7, <2>10, LongTruncates
  <2> QED BY <2>8, <2>9, <2>11 DEF number
<1> QED BY <1>4, <1>5

\* The parts of DurationTruncated, of a text u without leading blanks.
WholeTo(u)    == PrefixLen(u, IsDigit)
Beyond(u)     == SubSeq(u, WholeTo(u) + 2, Len(u))
DecimalsTo(u) == IF WholeTo(u) < Len(u) /\ u[WholeTo(u) + 1] = "."
                 THEN PrefixLen(Beyond(u), IsDigit) ELSE 0
AllOf(u)      == SubSeq(u, 1, WholeTo(u)) \o SubSeq(Beyond(u), 1, DecimalsTo(u))

LEMMA DurationParts ==
  ASSUME NEW u \in Seq(STRING)
  PROVE  LET i == WholeTo(u)
             d == DecimalsTo(u)
             w == Worth(AllOf(u))
         IN /\ i \in 0..Len(u) /\ d \in Nat
            /\ LaidOut(u, Len(u), w, i, d)
            /\ ~HasDot(u, Len(u), i) => d = 0
            /\ HasDot(u, Len(u), i) =>
                 i + 1 + d <= Len(u) /\ (i + 1 + d < Len(u) => ~IsDigit(u[i + 1 + d + 1]))
            /\ \A k \in 1..(i + d) : w[k] \in 0..9
            /\ Number(AllOf(u), 10, Digits) = Spells(w, i + d, 10)
<1> DEFINE i == WholeTo(u)
           d == DecimalsTo(u)
           t == AllOf(u)
           w == Worth(t)
           a == SubSeq(u, 1, i)
           b == Beyond(u)
           c == SubSeq(b, 1, d)
           n == Len(u)
           dotted == HasDot(u, n, i)
<1>1. DigitsTo(u, i) /\ i \in 0..n /\ n \in Nat
  <2>1. DigitsTo(u, i)
    BY DigitsAhead DEF WholeTo
  <2> QED BY <2>1 DEF DigitsTo
<1>a. /\ b = SubSeq(u, i + 2, n) /\ t = a \o c
      /\ d = IF dotted THEN PrefixLen(b, IsDigit) ELSE 0
  BY DEF Beyond, DecimalsTo, AllOf, HasDot
<1> HIDE DEF i, d, t, b, n
<1>2. /\ a \in Seq(STRING) /\ Len(a) = i /\ \A k \in 1..i : a[k] = u[k]
  BY <1>1, HeadOf DEF n
<1>3. ASSUME dotted
      PROVE  /\ b \in Seq(STRING) /\ Len(b) = n - i - 1
             /\ \A k \in 1..(n - i - 1) : b[k] = u[i + 1 + k]
  <2>1. i < n
    BY <1>3 DEF HasDot
  <2>2. i + 2 \in 1..(n + 1) /\ n \in 0..n /\ i + 2 <= n + 1 /\ n - (i + 2) + 1 = n - i - 1
        /\ \A k \in 1..(n - i - 1) : i + 2 + k - 1 = i + 1 + k
    BY <1>1, <2>1
  <2> DEFINE e == SubSeq(u, i + 2, n)
  <2>3. e \in Seq(STRING) /\ Len(e) = n - (i + 2) + 1 /\ \A k \in 1..(n - (i + 2) + 1) : e[k] = u[i + 2 + k - 1]
    BY <2>2, CutOf DEF n
  <2> HIDE DEF e
  <2>4. e \in Seq(STRING) /\ Len(e) = n - i - 1 /\ \A k \in 1..(n - i - 1) : e[k] = u[i + 1 + k]
    BY <2>2, <2>3
  <2>5. b = e
    BY <1>a DEF e
  <2> QED BY <2>4, <2>5
<1>4. /\ d \in Nat /\ c \in Seq(STRING) /\ Len(c) = d
      /\ \A k \in 1..d : IsDigit(u[i + 1 + k]) /\ c[k] = u[i + 1 + k]
      /\ ~dotted => d = 0
      /\ dotted => i + 1 + d <= n /\ (i + 1 + d < n => ~IsDigit(u[i + 1 + d + 1]))
  <2>1. CASE dotted
    <3>1. d = PrefixLen(b, IsDigit)
      BY <1>a, <2>1
    <3>2. DigitsTo(b, d)
      BY <1>3, <2>1, <3>1, DigitsAhead
    <3>3. /\ d \in 0..(n - i - 1) /\ \A k \in 1..d : IsDigit(b[k])
          /\ d < n - i - 1 => ~IsDigit(b[d + 1])
      BY <1>3, <2>1, <3>2 DEF DigitsTo
    <3>4. n - i - 1 \in Nat
      BY <1>1, <2>1 DEF HasDot
    <3>5. c \in Seq(STRING) /\ Len(c) = d /\ \A k \in 1..d : c[k] = b[k]
      BY <1>3, <2>1, <3>3, HeadOf
    <3> HIDE DEF c, dotted
    <3>6. \A k \in 1..d : b[k] = u[i + 1 + k]
      <4>1. \A k \in 1..d : k \in 1..(n - i - 1)
        BY <3>3, <3>4
      <4> QED BY <1>3, <2>1, <4>1
    <3>7. d \in Nat /\ i + 1 + d <= n
      BY <1>1, <3>3, <3>4
    <3>8. i + 1 + d < n => ~IsDigit(u[i + 1 + d + 1])
      <4>1. ASSUME i + 1 + d < n PROVE d < n - i - 1 /\ d + 1 \in 1..(n - i - 1)
                                       /\ i + 1 + d + 1 = i + 1 + (d + 1)
        BY <1>1, <3>3, <3>4, <4>1
      <4>2. ASSUME i + 1 + d < n PROVE b[d + 1] = u[i + 1 + d + 1]
        BY <1>3, <2>1, <4>1, <4>2
      <4> QED BY <3>3, <4>1, <4>2
    <3> QED BY <2>1, <3>3, <3>5, <3>6, <3>7, <3>8
  <2>2. CASE ~dotted
    <3>1. d = 0
      BY <1>a, <2>2
    <3>2. c = <<>>
      <4>1. 1 \in Int /\ 0 \in Int /\ 0 < 1
        OBVIOUS
      <4> QED BY <3>1, <4>1, SubSeqEmpty
    <3>3. <<>> \in Seq(STRING) /\ Len(<<>>) = 0 /\ 0 \in Nat /\ 1..0 = {}
      OBVIOUS
    <3> HIDE DEF c, dotted
    <3> QED BY <2>2, <3>1, <3>2, <3>3
  <2> QED BY <2>1, <2>2
<1> HIDE DEF a, c
<1>5. JoinOf(t, a, i, c, d)
  BY <1>2, <1>4, <1>a, TextsAfter
<1>6. /\ \A k \in 1..i : t[k] = u[k] /\ IsDigit(u[k])
      /\ \A k \in 1..d : t[i + k] = u[i + 1 + k]
  <2>1. /\ \A k \in 1..i : t[k] = a[k]
        /\ \A k \in 1..d : t[i + k] = c[k]
    BY <1>5 DEF JoinOf
  <2>2. \A k \in 1..i : IsDigit(u[k])
    BY <1>1 DEF DigitsTo
  <2>3. ASSUME NEW k \in 1..i PROVE t[k] = u[k] /\ IsDigit(u[k])
    <3>1. t[k] = a[k] /\ a[k] = u[k]
      BY <1>2, <2>1
    <3> QED BY <2>2, <3>1
  <2>4. ASSUME NEW k \in 1..d PROVE t[i + k] = u[i + 1 + k]
    <3>1. c[k] = u[i + 1 + k]
      BY <1>4
    <3>2. t[i + k] = c[k]
      BY <2>1
    <3> QED BY <3>1, <3>2
  <2> QED BY <2>3, <2>4, Zenon
<1>7. t \in Seq(STRING) /\ Len(t) = i + d /\ DOMAIN t = 1..(i + d) /\ i + d \in Nat
  BY <1>1, <1>4, <1>5 DEF JoinOf
<1>8. AllDigits(t)
  <2>1. ASSUME NEW k \in 1..(i + d) PROVE IsDigit(t[k])
    <3>1. CASE k <= i
      <4>1. k \in 1..i
        BY <1>1, <3>1
      <4> QED BY <1>6, <4>1
    <3>2. CASE ~(k <= i)
      <4>1. k - i \in 1..d /\ i + (k - i) = k
        BY <1>1, <1>4, <3>2
      <4> QED BY <1>4, <1>6, <4>1
    <3> QED BY <3>1, <3>2
  <2> QED BY <1>7, <2>1 DEF AllDigits
<1>9. \A k \in 1..(i + d) : w[k] = Digits[t[k]] /\ w[k] \in 0..9
  BY <1>7, <1>8, WorthIs
<1> HIDE DEF w
<1>10. Number(t, 10, Digits) = Spells(w, i + d, 10)
  BY <1>7, <1>9, NumberIs
<1>11. LaidOut(u, n, w, i, d)
  <2>1. \A k \in 1..i : w[k] = Digits[u[k]]
    <3>1. \A k \in 1..i : k \in 1..(i + d)
      BY <1>1, <1>4
    <3> QED BY <1>6, <1>9, <3>1
  <2>2. \A k \in 1..d : w[i + k] = Digits[u[i + 1 + k]]
    <3>1. \A k \in 1..d : i + k \in 1..(i + d)
      BY <1>1, <1>4
    <3> QED BY <1>6, <1>9, <3>1
  <2>3. i < n => ~IsDigit(u[i + 1])
    BY <1>1 DEF DigitsTo, n
  <2> QED BY <1>4, <1>6, <2>1, <2>2, <2>3 DEF LaidOut
<1>12. \A k \in 1..(i + d) : w[k] \in 0..9
  BY <1>9
<1> HIDE DEF dotted
<1> QED BY <1>1, <1>4, <1>10, <1>11, <1>12 DEF i, d, w, t, n, dotted

\* What DurationTruncated says of a text.
DurationRead(s) ==
  LET u == SubSeq(s, PrefixLen(s, Blank) + 1, Len(s))
  IN Truncates(Ms(Scanning(u)), Number(AllOf(u), 10, Digits), Power(10, DecimalsTo(u)))

NonBlanks(s) == {i \in 1..Len(s) : ~Blank(s[i])}

LEMMA DurationReads == ASSUME NEW s \in Seq(STRING) PROVE DurationRead(s)
<1> DEFINE k == PrefixLen(s, Blank)
           u == SubSeq(s, k + 1, Len(s))
           i == WholeTo(u)
           d == DecimalsTo(u)
           w == Worth(AllOf(u))
           n == Len(u)
           e == IF d <= 3 THEN d ELSE 3
<1>1. k \in 0..Len(s)
  <2>1. k = Ahead(s, NonBlanks(s))
    BY DEF PrefixLen, SelectInSeq, Ahead, NonBlanks
  <2>2. NonBlanks(s) \in SUBSET (1..Len(s))
    BY DEF NonBlanks
  <2> QED BY <2>1, <2>2, FirstOfThem
<1> HIDE DEF k
<1>2. u \in Seq(STRING)
  <2>1. k + 1 \in 1..(Len(s) + 1) /\ Len(s) \in 0..Len(s) /\ k + 1 <= Len(s) + 1
    BY <1>1
  <2> QED BY <2>1, CutOf
<1> HIDE DEF u
<1>3. /\ i \in 0..n /\ d \in Nat /\ LaidOut(u, n, w, i, d)
      /\ ~HasDot(u, n, i) => d = 0
      /\ HasDot(u, n, i) => i + 1 + d <= n /\ (i + 1 + d < n => ~IsDigit(u[i + 1 + d + 1]))
      /\ \A j \in 1..(i + d) : w[j] \in 0..9
      /\ Number(AllOf(u), 10, Digits) = Spells(w, i + d, 10)
  BY <1>2, DurationParts
<1>4. DOMAIN u = 1..n /\ n \in Nat
  BY <1>2
<1> HIDE DEF i, d, w, n
<1>5. e \in 0..3 /\ e = IF d <= 3 THEN d ELSE 3
  BY <1>3
<1> HIDE DEF e
<1>6. ScannedTo(Scanning(u), Spells(w, i, 10), Spells(Behind(w, i, d), e, 10), e)
  BY <1>3, <1>4, <1>5, ScanReads
<1>7. Truncates(Ms(Scanning(u)), Spells(w, i + d, 10), Power(10, d))
  <2>1. i \in Nat
    BY <1>3, <1>4
  <2> DEFINE r == Scanning(u)
  <2>2. ScannedTo(r, Spells(w, i, 10), Spells(Behind(w, i, d), e, 10), e)
    BY <1>6
  <2> HIDE DEF r
  <2>3. Truncates(Ms(r), Spells(w, i + d, 10), Power(10, d))
    BY <1>3, <1>5, <2>1, <2>2, SpelledTruncates
  <2> QED BY <2>3 DEF r
<1> QED BY <1>3, <1>7 DEF DurationRead, d, u, k

-----------------------------------------------------------------------------
(* parse_iv                                                                    *)

LEMMA ZerosSpell ==
  ASSUME NEW b \in Nat, NEW m \in Nat, NEW v, \A i \in 1..m : v[i] = 0
  PROVE  Spells(v, m, b) = 0
<1> DEFINE T == {k \in Nat : k <= m => Spells(v, k, b) = 0}
<1>1. 0 \in T
  BY SpellsNothing
<1>2. ASSUME NEW k \in T PROVE k + 1 \in T
  <2>1. SUFFICES ASSUME k + 1 <= m PROVE Spells(v, k + 1, b) = 0
    OBVIOUS
  <2>2. k \in Nat /\ (k <= m => Spells(v, k, b) = 0)
    OBVIOUS
  <2> HIDE DEF T
  <2>3. k <= m /\ k + 1 \in 1..m /\ \A j \in 1..(k + 1) : j \in 1..m
    BY <2>1, <2>2
  <2>4. Naturals(v, k + 1) /\ v[k + 1] = 0
    BY <2>3 DEF Naturals
  <2>5. Spells(v, k + 1, b) = b * Spells(v, k, b) + v[k + 1]
    BY <2>2, <2>4, SpellsNext
  <2>6. Spells(v, k, b) = 0
    BY <2>2, <2>3
  <2>7. Spells(v, k + 1, b) = b * 0 + 0
    BY <2>4, <2>5, <2>6
  <2> QED BY <2>7
<1>3. m \in T
  <2>1. T \in SUBSET Nat
    OBVIOUS
  <2> HIDE DEF T
  <2> QED BY <1>1, <1>2, <2>1, SetInduction
<1>4. m <= m /\ (m <= m => Spells(v, m, b) = 0)
  BY <1>3
<1> QED BY <1>4

\* Bytes of two nibbles each spell what the nibbles spell.
LEMMA PairsSpell ==
  ASSUME NEW m \in Nat, NEW v, Naturals(v, 2 * m), NEW u,
         \A i \in 1..m : u[i] = 16 * v[2 * i - 1] + v[2 * i]
  PROVE  Spells(u, m, 256) = Spells(v, 2 * m, 16)
<1> DEFINE T == {k \in Nat : k <= m => Spells(u, k, 256) = Spells(v, 2 * k, 16)}
<1>a. \A i \in 1..m : v[2 * i - 1] \in Nat /\ v[2 * i] \in Nat
  <2>1. \A i \in 1..m : 2 * i - 1 \in 1..(2 * m) /\ 2 * i \in 1..(2 * m)
    OBVIOUS
  <2> QED BY <2>1 DEF Naturals
<1>b. \A i \in 1..m : u[i] \in Nat
  <2> SUFFICES ASSUME NEW i \in 1..m PROVE u[i] \in Nat
    OBVIOUS
  <2> DEFINE x == v[2 * i - 1]
             y == v[2 * i]
  <2>1. x \in Nat /\ y \in Nat /\ u[i] = 16 * x + y
    BY <1>a
  <2> HIDE DEF x, y
  <2> QED BY <2>1
<1>1. 0 \in T
  <2>1. Spells(u, 0, 256) = 0 /\ Spells(v, 0, 16) = 0 /\ 2 * 0 = 0
    BY SpellsNothing
  <2>2. Spells(u, 0, 256) = Spells(v, 2 * 0, 16)
    BY <2>1
  <2> QED BY <2>2
<1>2. ASSUME NEW k \in T PROVE k + 1 \in T
  <2>1. SUFFICES ASSUME k + 1 <= m PROVE Spells(u, k + 1, 256) = Spells(v, 2 * (k + 1), 16)
    OBVIOUS
  <2>2. k \in Nat /\ (k <= m => Spells(u, k, 256) = Spells(v, 2 * k, 16))
    OBVIOUS
  <2> HIDE DEF T
  <2> DEFINE n == 2 * k
  <2>3. /\ k <= m /\ k + 1 \in 1..m /\ n \in Nat /\ n + 1 \in Nat
        /\ 2 * (k + 1) = (n + 1) + 1 /\ 2 * (k + 1) - 1 = n + 1
    BY <2>1, <2>2
  <2>4. Naturals(u, k + 1)
    <3>1. \A j \in 1..(k + 1) : j \in 1..m
      BY <2>3
    <3> QED BY <1>b, <3>1 DEF Naturals
  <2>5. Naturals(v, n + 1) /\ Naturals(v, (n + 1) + 1)
    <3>1. (\A j \in 1..((n + 1) + 1) : j \in 1..(2 * m)) /\ (\A j \in 1..(n + 1) : j \in 1..(2 * m))
      BY <2>2, <2>3
    <3> QED BY <3>1 DEF Naturals
  <2>a. 256 \in Nat /\ 16 \in Nat
    OBVIOUS
  <2>6. Spells(u, k + 1, 256) = 256 * Spells(u, k, 256) + u[k + 1]
    BY <2>2, <2>4, <2>a, SpellsNext
  <2> HIDE DEF n
  <2>7. Spells(v, n + 1, 16) = 16 * Spells(v, n, 16) + v[n + 1] /\ Spells(v, n, 16) \in Int
    BY <2>3, <2>5, <2>a, SpellsNext
  <2>8. Spells(v, (n + 1) + 1, 16) = 16 * Spells(v, n + 1, 16) + v[(n + 1) + 1]
    BY <2>3, <2>5, <2>a, SpellsNext
  <2>9. u[k + 1] = 16 * v[n + 1] + v[(n + 1) + 1] /\ v[n + 1] \in Nat /\ v[(n + 1) + 1] \in Nat
    <3>1. u[k + 1] = 16 * v[2 * (k + 1) - 1] + v[2 * (k + 1)]
          /\ v[2 * (k + 1) - 1] \in Nat /\ v[2 * (k + 1)] \in Nat
      BY <1>a, <2>3
    <3> QED BY <2>3, <3>1
  <2>10. Spells(u, k, 256) = Spells(v, n, 16)
    BY <2>2, <2>3 DEF n
  <2> DEFINE x == Spells(v, n, 16)
             x1 == Spells(v, n + 1, 16)
             x2 == Spells(v, (n + 1) + 1, 16)
             y == Spells(u, k + 1, 256)
             p == v[n + 1]
             q == v[(n + 1) + 1]
             c == u[k + 1]
  <2>11. /\ y = 256 * x + c /\ x1 = 16 * x + p /\ x2 = 16 * x1 + q /\ c = 16 * p + q
         /\ x \in Int /\ p \in Nat /\ q \in Nat
    BY <2>6, <2>7, <2>8, <2>9, <2>10
  <2> HIDE DEF x, x1, x2, y, p, q, c
  <2>12. y = x2
    BY <2>11
  <2> QED BY <2>3, <2>12 DEF y, x2
<1>3. m \in T
  <2>1. T \in SUBSET Nat
    OBVIOUS
  <2> HIDE DEF T
  <2> QED BY <1>1, <1>2, <2>1, SetInduction
<1>4. m <= m /\ (m <= m => Spells(u, m, 256) = Spells(v, 2 * m, 16))
  BY <1>3
<1> QED BY <1>4

\* The nibbles of Iv, from the left, as they are placed.
NibblesOf(s) == [k \in 0..(2 * KeyLen - 1) |->
                LET at == {i \in 3..Len(s) : NibbleAt(s, i) = k}
                IN IF at = {} THEN 0 ELSE HexDigits[s[Max(at)]]]

LEMMA NibblesAt ==
  ASSUME NEW s \in Seq(STRING), IvOk(s), NEW h, h = Len(s) - 2, NEW k \in 0..(2 * KeyLen - 1)
  PROVE  /\ k < 2 * KeyLen - h => NibblesOf(s)[k] = 0
         /\ ~(k < 2 * KeyLen - h) => /\ k - (2 * KeyLen - h) + 3 \in 3..Len(s)
                                     /\ NibblesOf(s)[k] = HexDigits[s[k - (2 * KeyLen - h) + 3]]
<1> DEFINE pad == 2 * KeyLen - h
           at == {i \in 3..Len(s) : NibbleAt(s, i) = k}
           j == k - pad + 3
<1>1. Len(s) \in 3..(2 + 2 * KeyLen) /\ KeyLen \in Nat
  BY LimitsAssumption DEF IvOk
<1>2. pad \in Nat /\ pad < 2 * KeyLen /\ 2 * KeyLen - (Len(s) - 2) = pad /\ h \in Nat /\ Len(s) = h + 2
      /\ pad + h = 2 * KeyLen
  BY <1>1
<1>3. NibblesOf(s)[k] = IF at = {} THEN 0 ELSE HexDigits[s[Max(at)]]
  BY DEF NibblesOf
<1>4. \A i \in 3..Len(s) : NibbleAt(s, i) = pad + i - 3
  BY <1>2 DEF NibbleAt
<1> HIDE DEF pad
<1>5. \A i \in at : i \in 3..Len(s) /\ pad + i - 3 = k
  BY <1>4
<1>6. ASSUME k < pad PROVE at = {}
  <2>1. \A i \in 3..Len(s) : pad + i - 3 # k
    BY <1>2, <1>6
  <2> QED BY <1>5, <2>1
<1>7. ASSUME ~(k < pad) PROVE j \in 3..Len(s) /\ at = {j}
  <2>1. j \in 3..Len(s) /\ pad + j - 3 = k
    BY <1>2, <1>7
  <2>2. j \in at
    BY <1>4, <2>1
  <2>3. \A i \in at : i = j
    <3>1. \A i \in 3..Len(s) : pad + i - 3 = k => i = j
      BY <1>2
    <3> QED BY <1>5, <3>1
  <2> HIDE DEF at, j
  <2> QED BY <2>1, <2>2, <2>3
<1> HIDE DEF at
<1>8. ASSUME ~(k < pad) PROVE j \in 3..Len(s) /\ NibblesOf(s)[k] = HexDigits[s[j]]
  <2>1. j \in 3..Len(s) /\ at = {j}
    BY <1>7, <1>8
  <2> HIDE DEF j
  <2>2. j \in Nat
    BY <1>1, <2>1
  <2>3. IsFiniteSet({j}) /\ {j} \in SUBSET Nat /\ {j} # {}
    BY <2>2, FS_Singleton
  <2>4. Max({j}) \in {j}
    BY <2>3, MaxOfFinite
  <2>5. Max(at) = j /\ at # {}
    BY <2>1, <2>4
  <2> QED BY <1>3, <2>1, <2>5
<1> QED BY <1>3, <1>6, <1>8 DEF pad

\* What IvIsNumber says of a text.
IvRead(s) ==
  Iv(s) # NULL =>
    Number(Iv(s), 256, [b \in 0..255 |-> b]) = Number(SubSeq(s, 3, Len(s)), 16, HexDigits)

LEMMA IvReads == ASSUME NEW s \in Seq(STRING) PROVE IvRead(s)
<1> SUFFICES ASSUME IvOk(s)
             PROVE  Number(Iv(s), 256, [b \in 0..255 |-> b]) = Number(SubSeq(s, 3, Len(s)), 16, HexDigits)
  BY DEF IvRead, Iv
<1> DEFINE h == Len(s) - 2
           pad == 2 * KeyLen - h
           v == [j \in 1..(2 * KeyLen) |-> NibblesOf(s)[j - 1]]
           bytes == Iv(s)
           id == [b \in 0..255 |-> b]
           t == SubSeq(s, 3, Len(s))
           w == [j \in 1..h |-> HexDigits[t[j]]]
<1>1. /\ Len(s) \in 3..(2 + 2 * KeyLen) /\ KeyLen \in Nat
      /\ \A i \in 3..Len(s) : HexDigits[s[i]] \in 0..15
  BY LimitsAssumption, DigitValues DEF IvOk
<1>2. h \in Nat /\ h <= 2 * KeyLen /\ Len(s) = h + 2 /\ pad \in Nat /\ pad + h = 2 * KeyLen
  BY <1>1
<1>3. \A j \in 1..(2 * KeyLen) : v[j] = NibblesOf(s)[j - 1] /\ j - 1 \in 0..(2 * KeyLen - 1)
  BY <1>1
<1>4. bytes = [b \in 1..KeyLen |-> 16 * NibblesOf(s)[2 * b - 2] + NibblesOf(s)[2 * b - 1]]
  BY Zenon DEF Iv, NibblesOf
<1>5. /\ t \in Seq(STRING) /\ Len(t) = h /\ DOMAIN t = 1..h
      /\ \A j \in 1..h : t[j] = s[j + 2] /\ j + 2 \in 3..Len(s)
  <2>1. 3 \in 1..(Len(s) + 1) /\ Len(s) \in 0..Len(s) /\ 3 <= Len(s) + 1 /\ Len(s) - 3 + 1 = h
        /\ \A j \in 1..h : 3 + j - 1 = j + 2
    BY <1>1
  <2>2. t \in Seq(STRING) /\ Len(t) = Len(s) - 3 + 1 /\ \A j \in 1..(Len(s) - 3 + 1) : t[j] = s[3 + j - 1]
    BY <2>1, CutOf
  <2> HIDE DEF t, h
  <2>3. t \in Seq(STRING) /\ Len(t) = h /\ \A j \in 1..h : t[j] = s[j + 2]
    BY <2>1, <2>2
  <2>4. \A j \in 1..h : j + 2 \in 3..Len(s)
    BY <1>1, <1>2
  <2> QED BY <2>3, <2>4
<1> HIDE DEF v, bytes, t, h, pad
<1>6. \A j \in 1..pad : j \in 1..(2 * KeyLen) /\ v[j] = 0
  <2> SUFFICES ASSUME NEW j \in 1..pad PROVE j \in 1..(2 * KeyLen) /\ v[j] = 0
    OBVIOUS
  <2>1. j \in 1..(2 * KeyLen) /\ j - 1 < 2 * KeyLen - h
    BY <1>1, <1>2
  <2>2. j - 1 \in 0..(2 * KeyLen - 1) /\ h = Len(s) - 2
    BY <1>3, <2>1 DEF h
  <2>3. NibblesOf(s)[j - 1] = 0
    BY <2>1, <2>2, NibblesAt
  <2> QED BY <1>3, <2>1, <2>3
<1>7. \A j \in 1..h : pad + j \in 1..(2 * KeyLen) /\ v[pad + j] = HexDigits[t[j]] /\ HexDigits[t[j]] \in 0..15
  <2> SUFFICES ASSUME NEW j \in 1..h
               PROVE  pad + j \in 1..(2 * KeyLen) /\ v[pad + j] = HexDigits[t[j]] /\ HexDigits[t[j]] \in 0..15
    OBVIOUS
  <2> DEFINE k == (pad + j) - 1
  <2>1. /\ pad + j \in 1..(2 * KeyLen) /\ ~(k < 2 * KeyLen - h)
        /\ k - (2 * KeyLen - h) + 3 = j + 2
    BY <1>1, <1>2
  <2>2. k \in 0..(2 * KeyLen - 1) /\ h = Len(s) - 2
    BY <1>3, <2>1 DEF h
  <2>3. v[pad + j] = NibblesOf(s)[k]
    BY <1>3, <2>1
  <2> HIDE DEF k
  <2>4. NibblesOf(s)[k] = HexDigits[s[k - (2 * KeyLen - h) + 3]]
    BY <2>1, <2>2, NibblesAt
  <2>5. NibblesOf(s)[k] = HexDigits[s[j + 2]]
    BY <2>1, <2>4
  <2>6. t[j] = s[j + 2] /\ j + 2 \in 3..Len(s)
    BY <1>5
  <2> QED BY <1>1, <2>1, <2>3, <2>5, <2>6
<1>8. \A j \in 1..(2 * KeyLen) : v[j] \in 0..15
  <2> SUFFICES ASSUME NEW j \in 1..(2 * KeyLen) PROVE v[j] \in 0..15
    OBVIOUS
  <2>1. CASE j <= pad
    <3>1. j \in 1..pad /\ 0 \in 0..15
      BY <1>1, <1>2, <2>1
    <3> QED BY <1>6, <3>1
  <2>2. CASE ~(j <= pad)
    <3>1. j - pad \in 1..h /\ pad + (j - pad) = j
      BY <1>1, <1>2, <2>2
    <3> QED BY <1>7, <3>1
  <2> QED BY <2>1, <2>2
<1>9. Naturals(v, 2 * KeyLen)
  <2>1. \A x \in 0..15 : x \in Nat
    OBVIOUS
  <2> QED BY <1>8, <2>1, Zenon DEF Naturals
<1>10. \A b \in 1..KeyLen : bytes[b] = 16 * v[2 * b - 1] + v[2 * b] /\ bytes[b] \in 0..255
  <2> SUFFICES ASSUME NEW b \in 1..KeyLen
               PROVE  bytes[b] = 16 * v[2 * b - 1] + v[2 * b] /\ bytes[b] \in 0..255
    OBVIOUS
  <2>1. /\ 2 * b - 1 \in 1..(2 * KeyLen) /\ 2 * b \in 1..(2 * KeyLen)
        /\ (2 * b - 1) - 1 = 2 * b - 2
    BY <1>1
  <2>2. bytes[b] = 16 * NibblesOf(s)[2 * b - 2] + NibblesOf(s)[2 * b - 1]
    BY <1>4
  <2>3. v[2 * b - 1] = NibblesOf(s)[2 * b - 2] /\ v[2 * b] = NibblesOf(s)[2 * b - 1]
    BY <1>3, <2>1
  <2>4. bytes[b] = 16 * v[2 * b - 1] + v[2 * b]
    BY <2>2, <2>3
  <2> DEFINE p == v[2 * b - 1]
             q == v[2 * b]
             c == bytes[b]
  <2>5. p \in 0..15 /\ q \in 0..15 /\ c = 16 * p + q
    BY <1>8, <2>1, <2>4
  <2> HIDE DEF p, q, c
  <2>6. c \in 0..255
    BY <2>5
  <2> QED BY <2>4, <2>6 DEF c
<1>11. DOMAIN bytes = 1..KeyLen /\ Len(bytes) = KeyLen
  <2>1. bytes \in [1..KeyLen -> 0..255]
    <3>1. DOMAIN bytes = 1..KeyLen
      BY <1>4
    <3>2. bytes = [b \in 1..KeyLen |-> bytes[b]]
      BY <1>4, <3>1
    <3> QED BY <1>10, <3>2
  <2>2. bytes \in Seq(0..255)
    BY <1>1, <2>1
  <2>3. DOMAIN bytes = 1..Len(bytes) /\ Len(bytes) \in Nat
    BY <2>2
  <2>4. DOMAIN bytes = 1..KeyLen
    BY <2>1
  <2> DEFINE n == Len(bytes)
  <2>5. 1..n = 1..KeyLen /\ n \in Nat
    BY <2>3, <2>4
  <2> HIDE DEF n
  <2>6. n = KeyLen
    <3>1. n >= 1 => n \in 1..KeyLen
      <4>1. n >= 1 => n \in 1..n
        BY <2>5
      <4> HIDE DEF n
      <4> QED BY <2>5, <4>1, Zenon
    <3>2. KeyLen >= 1 => KeyLen \in 1..n
      BY <1>1, <2>5
    <3> QED BY <1>1, <2>5, <3>1, <3>2
  <2> QED BY <2>4, <2>6 DEF n
<1>12. Number(bytes, 256, id) = Spells(bytes, KeyLen, 256)
  <2>1. \A b \in 1..KeyLen : bytes[b] = id[bytes[b]]
    BY <1>10
  <2> HIDE DEF id
  <2> QED BY <1>1, <1>11, <2>1, NumberIs
<1>13. Spells(bytes, KeyLen, 256) = Spells(v, 2 * KeyLen, 16)
  <2>1. \A b \in 1..KeyLen : bytes[b] = 16 * v[2 * b - 1] + v[2 * b]
    BY <1>10
  <2> QED BY <1>1, <1>9, <2>1, PairsSpell
<1> DEFINE z == Behind(v, pad, h)
<1>14. Spells(v, 2 * KeyLen, 16) = Spells(z, h, 16)
  <2>1. 16 \in Nat /\ Naturals(v, pad + h)
    BY <1>2, <1>9
  <2>2. /\ Spells(z, h, 16) \in Nat
        /\ Spells(v, pad + h, 16) = Spells(v, pad, 16) * Power(16, h) + Spells(z, h, 16)
    BY <1>2, <2>1, SpellsSplit
  <2>3. Spells(v, pad, 16) = 0
    BY <1>2, <1>6, <2>1, ZerosSpell
  <2>4. Power(16, h) \in Nat
    BY <1>2, <2>1, PowerNext
  <2> HIDE DEF z
  <2>5. Spells(v, pad + h, 16) = 0 * Power(16, h) + Spells(z, h, 16)
    BY <2>2, <2>3
  <2>6. Spells(v, pad + h, 16) = Spells(z, h, 16)
    BY <2>2, <2>4, <2>5
  <2> QED BY <1>2, <2>6
<1>15. Spells(z, h, 16) = Spells(w, h, 16)
  <2>1. \A j \in 1..h : z[j] = w[j]
    BY <1>7 DEF Behind
  <2> HIDE DEF z, w
  <2> QED BY <1>2, <2>1, SpellsSame
<1>16. Number(t, 16, HexDigits) = Spells(w, h, 16)
  <2>1. \A j \in 1..h : w[j] = HexDigits[t[j]]
    OBVIOUS
  <2> HIDE DEF w
  <2> QED BY <1>2, <1>5, <2>1, NumberIs
<1> HIDE DEF z, w, id
<1>17. Number(bytes, 256, id) = Number(t, 16, HexDigits)
  BY <1>12, <1>13, <1>14, <1>15, <1>16
<1> QED BY <1>17 DEF bytes, t, id

-----------------------------------------------------------------------------

\* NumbersExact: a duration is its decimal number cut to milliseconds, a decimal
\* is accepted exactly when its value does not exceed the greatest offset, and
\* the bytes of an IV spell the number its digits spell.
THEOREM NumbersAlwaysExact == Spec => []NumbersExact
<1>1. text \in Seq(STRING) => NumbersExact
  <2>1. SUFFICES ASSUME text \in Seq(STRING) PROVE NumbersExact
    OBVIOUS
  <2>2. DurationTruncated
    <3>1. DurationRead(text)
      BY <2>1, DurationReads
    <3> QED BY <3>1 DEF DurationRead, DurationTruncated, Truncates, Ms, Scanning, DurationMs,
                        AllOf, Beyond, WholeTo, DecimalsTo
  <2>3. DecimalExact
    <3>1. DecimalRead(text)
      BY <2>1, DecimalReads
    <3> QED BY <3>1 DEF DecimalRead, DecimalExact, Fitting
  <2>4. IvIsNumber
    <3>1. IvRead(text)
      BY <2>1, IvReads
    <3> QED BY <3>1 DEF IvRead, IvIsNumber
  <2> QED BY <2>2, <2>3, <2>4 DEF NumbersExact
<1> QED BY <1>1, Typed, PTL

-----------------------------------------------------------------------------
(* Addresses: a text ahead of a character                                      *)

\* Where s has c, and how far it goes ahead of the first one.
At(s, c)    == {i \in 1..Len(s) : ~(s[i] # c)}
UpAt(s, c)  == PrefixLen(s, LAMBDA x : x # c)

LEMMA UpAtIs ==
  ASSUME NEW s \in Seq(STRING), NEW c
  PROVE  /\ UpAt(s, c) \in 0..Len(s) /\ UpTo(s, c) = SubSeq(s, 1, UpAt(s, c))
         /\ \A i \in 1..UpAt(s, c) : s[i] # c
         /\ UpAt(s, c) < Len(s) => s[UpAt(s, c) + 1] = c
<1>1. UpAt(s, c) = Ahead(s, At(s, c))
  BY DEF UpAt, PrefixLen, SelectInSeq, Ahead, At
<1>2. At(s, c) \in SUBSET (1..Len(s))
  BY DEF At
<1> DEFINE n == Ahead(s, At(s, c))
<1>3. /\ n \in 0..Len(s) /\ \A i \in 1..n : i \notin At(s, c)
      /\ n < Len(s) => n + 1 \in At(s, c)
  BY <1>2, FirstOfThem
<1> HIDE DEF n
<1>4. \A i \in 1..n : s[i] # c
  <2>1. \A i \in 1..n : i \in 1..Len(s)
    BY <1>3
  <2> QED BY <1>3, <2>1 DEF At
<1>5. n < Len(s) => s[n + 1] = c
  BY <1>3 DEF At
<1>6. UpTo(s, c) = SubSeq(s, 1, UpAt(s, c))
  BY DEF UpTo, UpAt
<1> QED BY <1>1, <1>3, <1>4, <1>5, <1>6 DEF n

\* a goes up to the first c of a followed by b.
LEMMA UpAtJoin ==
  ASSUME NEW a \in Seq(STRING), NEW b \in Seq(STRING), NEW c, Lacks(a, c), LedBy(b, c)
  PROVE  /\ UpAt(a \o b, c) = Len(a) /\ UpTo(a \o b, c) = a
         /\ SubSeq(a \o b, Len(a) + 1, Len(a \o b)) = b
<1> DEFINE s == a \o b
           n == UpAt(s, c)
           i == Len(a)
           d == Len(b)
<1>1. JoinOf(s, a, i, b, d)
  BY TextsAfter
<1>a. i \in Nat /\ d \in Nat
  OBVIOUS
<1>b. (d = 0 <=> b = <<>>) /\ (\A k \in 1..i : a[k] # c) /\ (d = 0 \/ b[1] = c)
  BY DEF Lacks, LedBy
<1>c. s \in Seq(STRING)
  BY <1>1 DEF JoinOf
<1> HIDE DEF s
<1>2. /\ n \in 0..Len(s) /\ UpTo(s, c) = SubSeq(s, 1, n)
      /\ \A k \in 1..n : s[k] # c
      /\ n < Len(s) => s[n + 1] = c
  BY <1>c, UpAtIs
<1> HIDE DEF n, i, d
<1>3. Len(s) = i + d /\ (\A k \in 1..i : s[k] = a[k]) /\ \A k \in 1..d : s[i + k] = b[k]
  BY <1>1 DEF JoinOf
<1>4. ~(n < i)
  <2> SUFFICES ASSUME n < i PROVE FALSE
    OBVIOUS
  <2>1. n + 1 \in 1..i /\ n < Len(s)
    BY <1>a, <1>2, <1>3
  <2> QED BY <1>2, <1>3, <1>b, <2>1
<1>5. ~(n > i)
  <2> SUFFICES ASSUME n > i PROVE FALSE
    OBVIOUS
  <2>1. i + 1 \in 1..n /\ d # 0 /\ 1 \in 1..d
    BY <1>a, <1>2, <1>3
  <2>2. s[i + 1] = b[1]
    BY <1>3, <2>1
  <2> QED BY <1>2, <1>b, <2>1, <2>2
<1>6. n = i
  BY <1>a, <1>2, <1>4, <1>5
<1>7. SubSeq(s, 1, i) = a
  <2>1. i \in 0..Len(s)
    BY <1>2, <1>6
  <2>2. /\ SubSeq(s, 1, i) \in Seq(STRING) /\ Len(SubSeq(s, 1, i)) = i
        /\ \A k \in 1..i : SubSeq(s, 1, i)[k] = s[k]
    BY <1>c, <2>1, HeadOf
  <2>3. Len(SubSeq(s, 1, i)) = Len(a) /\ \A k \in 1..Len(SubSeq(s, 1, i)) : SubSeq(s, 1, i)[k] = a[k]
    BY <1>3, <2>2 DEF i
  <2> QED BY <2>2, <2>3, SameText
<1>8. SubSeq(s, i + 1, Len(s)) = b
  <2> DEFINE t == SubSeq(s, i + 1, Len(s))
  <2>1. i + 1 \in 1..(Len(s) + 1) /\ Len(s) \in 0..Len(s) /\ i + 1 <= Len(s) + 1
        /\ Len(s) - (i + 1) + 1 = d /\ \A k \in 1..d : i + 1 + k - 1 = i + k
    BY <1>a, <1>3
  <2>2. t \in Seq(STRING) /\ Len(t) = Len(s) - (i + 1) + 1
        /\ \A k \in 1..(Len(s) - (i + 1) + 1) : t[k] = s[i + 1 + k - 1]
    BY <1>c, <2>1, CutOf
  <2>3. Len(t) = Len(b) /\ \A k \in 1..Len(t) : t[k] = b[k]
    <3> HIDE DEF t
    <3>1. Len(t) = d /\ \A k \in 1..d : t[k] = s[i + k]
      BY <2>1, <2>2
    <3> QED BY <1>3, <3>1 DEF d
  <2> QED BY <2>2, <2>3, SameText
<1> QED BY <1>2, <1>6, <1>7, <1>8 DEF s, n, i

\* The rest of s, from its first c on.
RestAt(s, c) == SubSeq(s, UpAt(s, c) + 1, Len(s))

LEMMA UpAtSplits ==
  ASSUME NEW s \in Seq(STRING), NEW c
  PROVE  /\ UpTo(s, c) \in Seq(STRING) /\ RestAt(s, c) \in Seq(STRING)
         /\ UpTo(s, c) \o RestAt(s, c) = s
         /\ Lacks(UpTo(s, c), c) /\ LedBy(RestAt(s, c), c)
         /\ Len(UpTo(s, c)) = UpAt(s, c)
         /\ \A k \in 1..UpAt(s, c) : UpTo(s, c)[k] = s[k]
<1> DEFINE n == UpAt(s, c)
           a == UpTo(s, c)
           b == RestAt(s, c)
<1>1. /\ n \in 0..Len(s) /\ a = SubSeq(s, 1, n)
      /\ \A i \in 1..n : s[i] # c
      /\ n < Len(s) => s[n + 1] = c
  BY UpAtIs
<1>2. b = SubSeq(s, n + 1, Len(s))
  BY DEF RestAt
<1> HIDE DEF n, a, b
<1>3. a \in Seq(STRING) /\ Len(a) = n /\ \A k \in 1..n : a[k] = s[k]
  BY <1>1, HeadOf
<1>4. /\ b \in Seq(STRING) /\ Len(b) = Len(s) - (n + 1) + 1
      /\ \A k \in 1..(Len(s) - (n + 1) + 1) : b[k] = s[n + 1 + k - 1]
  <2>1. n + 1 \in 1..(Len(s) + 1) /\ Len(s) \in 0..Len(s) /\ n + 1 <= Len(s) + 1
    BY <1>1
  <2> QED BY <1>2, <2>1, CutOf
<1>5. a \o b = s
  <2>1. 1 \in 1..(Len(s) + 1) /\ n \in (1 - 1)..Len(s) /\ Len(s) \in n..Len(s)
    BY <1>1
  <2>2. SubSeq(s, 1, n) \o SubSeq(s, n + 1, Len(s)) = SubSeq(s, 1, Len(s))
    BY <2>1, CutsJoin
  <2> QED BY <1>1, <1>2, <2>2, SubSeqFull
<1>6. Lacks(a, c)
  BY <1>1, <1>3 DEF Lacks
<1>7. LedBy(b, c)
  <2>1. CASE n < Len(s)
    <3>1. 1 \in 1..(Len(s) - (n + 1) + 1) /\ n + 1 + 1 - 1 = n + 1
      BY <1>1, <2>1
    <3> QED BY <1>1, <1>4, <2>1, <3>1 DEF LedBy
  <2>2. CASE n = Len(s)
    <3>1. Len(b) = 0
      BY <1>1, <1>4, <2>2
    <3> QED BY <1>4, <3>1 DEF LedBy
  <2> QED BY <1>1, <2>1, <2>2
<1> QED BY <1>3, <1>4, <1>5, <1>6, <1>7 DEF a, b, n

-----------------------------------------------------------------------------
(* The parts of an address                                                     *)

\* s is a host A with what is ahead of it, a path P and a query Q.
Parted(s, A, P, Q) ==
  /\ A \in Seq(STRING) /\ P \in Seq(STRING) /\ Q \in Seq(STRING) /\ s = A \o (P \o Q)
  /\ Lacks(A, "/") /\ Lacks(A, "?") /\ Lacks(P, "?")
  /\ LedBy(P, "/") /\ LedBy(Q, "?") /\ (P = <<>> => Q = <<>>)

LEMMA PartsAre ==
  ASSUME NEW s, NEW A, NEW P, NEW Q, Parted(s, A, P, Q)
  PROVE  /\ s \in Seq(STRING) /\ UpTo(s, "?") = A \o P
         /\ Authority(s) = A /\ Path(s) = P /\ Query(s) = Q /\ UpAt(s, "/") = Len(A)
<1>1. /\ A \in Seq(STRING) /\ P \in Seq(STRING) /\ Q \in Seq(STRING) /\ s = A \o (P \o Q)
      /\ Lacks(A, "/") /\ Lacks(A, "?") /\ Lacks(P, "?")
      /\ LedBy(P, "/") /\ LedBy(Q, "?") /\ (P = <<>> => Q = <<>>)
  BY DEF Parted
<1> DEFINE AP == A \o P
           PQ == P \o Q
           slash == "/"
           mark == "?"
<1>2. AP \in Seq(STRING) /\ PQ \in Seq(STRING) /\ s \in Seq(STRING) /\ s = AP \o Q
  <2>1. Regroups(A, P, Q) /\ AP \in Seq(STRING) /\ PQ \in Seq(STRING)
    BY <1>1, Regrouped
  <2>2. s \in Seq(STRING)
    BY <1>1, <2>1, Regrouped
  <2> QED BY <1>1, <2>1, <2>2 DEF Regroups
<1>3. Lacks(AP, mark)
  BY <1>1, LacksJoin
<1>4. LedBy(PQ, slash)
  <2>1. P # <<>> => P[1] = slash
    BY <1>1 DEF LedBy
  <2>2. P = <<>> => LedBy(Q, slash)
    BY <1>1 DEF LedBy
  <2> QED BY <1>1, <2>1, <2>2, StartsJoin
<1>a. LedBy(P, slash) /\ LedBy(Q, mark) /\ Lacks(A, slash) /\ Lacks(P, mark)
  BY <1>1
<1>b. s = A \o PQ
  BY <1>1
<1> HIDE DEF AP, PQ, slash, mark
<1>5. UpTo(s, mark) = AP /\ SubSeq(s, Len(AP) + 1, Len(s)) = Q
  BY <1>1, <1>2, <1>3, <1>a, UpAtJoin
<1>6. UpTo(AP, slash) = A
  BY <1>1, <1>a, UpAtJoin DEF AP
<1>7. UpAt(s, slash) = Len(A) /\ SubSeq(s, Len(A) + 1, Len(s)) = PQ
  BY <1>1, <1>2, <1>4, <1>a, <1>b, UpAtJoin
<1>8. UpTo(PQ, mark) = P
  BY <1>1, <1>a, UpAtJoin DEF PQ
<1>9. Authority(s) = A
  BY <1>5, <1>6 DEF Authority, slash, mark
<1>10. Query(s) = Q
  BY <1>5 DEF Query, mark
<1>11. Path(s) = P
  <2>1. Path(s) = UpTo(SubSeq(s, UpAt(s, slash) + 1, Len(s)), mark)
    BY DEF Path, UpAt, slash, mark
  <2> QED BY <1>7, <1>8, <2>1
<1> QED BY <1>2, <1>5, <1>7, <1>9, <1>10, <1>11 DEF AP, slash, mark

LEMMA PartStarts ==
  ASSUME NEW a \in Seq(STRING), NEW b \in Seq(STRING), NEW c, LedBy(a \o b, c)
  PROVE  LedBy(a, c) /\ (a = <<>> => LedBy(b, c))
<1> DEFINE s == a \o b
           i == Len(a)
           d == Len(b)
<1>1. JoinOf(s, a, i, b, d)
  BY TextsAfter
<1>2. CASE a = <<>>
  <2>1. s = b
    BY <1>2, ConcatEmptySeq
  <2> QED BY <1>2, <2>1 DEF LedBy
<1>3. CASE a # <<>>
  <2>1. 1 \in 1..i /\ i \in Nat /\ d \in Nat
    BY <1>3
  <2>a. LedBy(s, c) /\ Len(<<>>) = 0
    OBVIOUS
  <2>2. s[1] = a[1] /\ s # <<>>
    <3> HIDE DEF s, i, d
    <3>1. s[1] = a[1] /\ Len(s) = i + d
      BY <1>1, <2>1 DEF JoinOf
    <3>2. Len(s) # 0
      BY <2>1, <3>1
    <3> QED BY <2>a, <3>1, <3>2
  <2> HIDE DEF s
  <2>3. a[1] = c
    BY <2>2, <2>a DEF LedBy
  <2> QED BY <1>3, <2>3 DEF LedBy
<1> QED BY <1>2, <1>3

\* A query stands behind a slash.
QueryBehind(s) == \A q \in DOMAIN s : s[q] = "?" => \E k \in 1..(q - 1) : s[k] = "/"

IsSlash(c) == c = "/"
IsMark(c)  == c = "?"

LEMMA SlashIsNoMark == \A c : ~(IsSlash(c) /\ IsMark(c))
BY DEF IsSlash, IsMark

LEMMA FetchedParts ==
  ASSUME NEW s \in Seq(STRING), QueryBehind(s)
  PROVE  Parted(s, Authority(s), Path(s), Query(s)) /\ Authority(s) = UpTo(s, "/")
<1> DEFINE slash == "/"
           mark == "?"
<1>a. IsSlash(slash) /\ IsMark(mark)
  BY DEF IsSlash, IsMark
<1>b. \A q \in 1..Len(s) : s[q] = mark => \E k \in 1..(q - 1) : s[k] = slash
  BY DEF QueryBehind
<1> DEFINE A == UpTo(s, slash)
           R == RestAt(s, slash)
           P == UpTo(R, mark)
           Q == RestAt(R, mark)
           m == UpAt(s, slash)
<1> HIDE DEF slash, mark
<1>1. /\ A \in Seq(STRING) /\ R \in Seq(STRING) /\ A \o R = s
      /\ Lacks(A, slash) /\ LedBy(R, slash) /\ Len(A) = m
      /\ \A k \in 1..m : A[k] = s[k]
  BY UpAtSplits
<1>c. m \in 0..Len(s)
  BY UpAtIs
<1> HIDE DEF A, R
<1>2. /\ P \in Seq(STRING) /\ Q \in Seq(STRING) /\ P \o Q = R
      /\ Lacks(P, mark) /\ LedBy(Q, mark)
  BY <1>1, UpAtSplits
<1> HIDE DEF P, Q, m
<1>3. LedBy(P, slash) /\ (P = <<>> => LedBy(Q, slash))
  BY <1>1, <1>2, PartStarts
<1>4. P = <<>> => Q = <<>>
  <2> SUFFICES ASSUME P = <<>>, Q # <<>> PROVE FALSE
    OBVIOUS
  <2>1. Q[1] = slash /\ Q[1] = mark
    BY <1>2, <1>3 DEF LedBy
  <2> QED BY <1>a, <2>1, SlashIsNoMark
<1>5. Lacks(A, mark)
  <2> SUFFICES ASSUME NEW k \in 1..Len(A), A[k] = mark PROVE FALSE
    BY DEF Lacks
  <2>1. k \in 1..m /\ k \in 1..Len(s) /\ s[k] = mark
    BY <1>1, <1>c
  <2>2. PICK j \in 1..(k - 1) : s[j] = slash
    BY <1>b, <2>1
  <2>3. j \in 1..m /\ j \in 1..Len(A)
    BY <1>1, <1>c, <2>1, <2>2
  <2>4. A[j] = slash
    BY <1>1, <2>2, <2>3
  <2> QED BY <1>1, <2>3, <2>4 DEF Lacks
<1>6. Parted(s, A, P, Q)
  BY <1>1, <1>2, <1>3, <1>4, <1>5 DEF Parted, slash, mark
<1>7. Authority(s) = A /\ Path(s) = P /\ Query(s) = Q
  BY <1>6, PartsAre
<1> QED BY <1>6, <1>7 DEF A, slash

\* The host of an address with a scheme, and what is ahead of its path.
LEMMA HostIs ==
  ASSUME NEW s \in Seq(STRING), s # <<>>, s[1] \in Schemes, Len(s) > 1, s[2] # "/"
  PROVE  Host(s) # <<>> /\ UpTo(s, "/") = <<s[1]>> \o Host(s)
<1> DEFINE slash == "/"
           t == Tail(s)
           n == UpAt(t, slash)
           m == UpAt(s, slash)
<1>a. s[1] # slash /\ s[2] # slash
  BY PiecesAssumption
<1>h. Host(s) = IF s[1] \in Schemes /\ n > 0 THEN SubSeq(s, 2, n + 1) ELSE <<>>
  BY DEF Host, UpAt
<1>1. t \in Seq(STRING) /\ Len(t) = Len(s) - 1 /\ \A i \in 1..(Len(s) - 1) : t[i] = s[i + 1]
  BY HeadTailProperties
<1> HIDE DEF slash, t
<1>2. /\ n \in 0..Len(t) /\ (\A i \in 1..n : t[i] # slash)
      /\ n < Len(t) => t[n + 1] = slash
  BY <1>1, UpAtIs
<1>3. /\ m \in 0..Len(s) /\ UpTo(s, slash) = SubSeq(s, 1, m) /\ (\A i \in 1..m : s[i] # slash)
      /\ m < Len(s) => s[m + 1] = slash
  BY UpAtIs
<1> HIDE DEF n, m
<1>l. Len(s) \in Nat
  OBVIOUS
<1>4. n > 0
  <2> SUFFICES ASSUME n = 0 PROVE FALSE
    BY <1>2
  <2>1. n < Len(t) /\ n + 1 = 1 /\ 1 \in 1..(Len(s) - 1) /\ 1 + 1 = 2
    BY <1>1, <1>l
  <2>2. t[1] = slash /\ t[1] = s[2]
    <3>1. t[1] = s[1 + 1]
      BY <1>1, <2>1
    <3> QED BY <1>2, <2>1, <3>1
  <2> QED BY <1>a, <2>2
<1>5. ~(m < n + 1)
  <2> SUFFICES ASSUME m < n + 1 PROVE FALSE
    OBVIOUS
  <2>1. CASE m = 0
    <3>1. m < Len(s) /\ m + 1 = 1
      BY <1>l, <2>1
    <3> QED BY <1>3, <1>a, <3>1
  <2>2. CASE m # 0
    <3>1. m \in 1..n /\ m < Len(s) /\ m \in 1..(Len(s) - 1)
      BY <1>1, <1>2, <1>3, <1>l, <2>2
    <3> QED BY <1>1, <1>2, <1>3, <3>1
  <2> QED BY <2>1, <2>2
<1>6. ~(m > n + 1)
  <2> SUFFICES ASSUME m > n + 1 PROVE FALSE
    OBVIOUS
  <2>1. n < Len(t) /\ n + 1 \in 1..(Len(s) - 1) /\ (n + 1) + 1 \in 1..m
    BY <1>1, <1>2, <1>3, <1>l
  <2>2. t[n + 1] = slash /\ t[n + 1] = s[(n + 1) + 1]
    BY <1>1, <1>2, <2>1
  <2> QED BY <1>3, <2>1, <2>2
<1>7. m = n + 1
  BY <1>2, <1>3, <1>5, <1>6
<1>8. SubSeq(s, 1, n + 1) = <<s[1]>> \o SubSeq(s, 2, n + 1)
  <2>1. 1 \in 1..Len(s) /\ n + 1 \in 1..Len(s) /\ 1 + 1 = 2
    BY <1>1, <1>2, <1>l
  <2>2. SubSeq(s, 1, n + 1) = <<s[1]>> \o SubSeq(s, 1 + 1, n + 1)
    BY <2>1, SubSeqRecursiveFirst
  <2> QED BY <2>1, <2>2
<1>9. SubSeq(s, 2, n + 1) # <<>>
  <2>1. 2 \in 1..(Len(s) + 1) /\ n + 1 \in 0..Len(s) /\ 2 <= (n + 1) + 1 /\ (n + 1) - 2 + 1 = n
    BY <1>1, <1>2, <1>4, <1>l
  <2>2. Len(SubSeq(s, 2, n + 1)) = (n + 1) - 2 + 1
    BY <2>1, CutOf
  <2>3. Len(<<>>) = 0
    OBVIOUS
  <2> QED BY <1>2, <1>4, <2>1, <2>2, <2>3
<1>10. Host(s) = SubSeq(s, 2, n + 1)
  BY <1>4, <1>h
<1> QED BY <1>3, <1>7, <1>8, <1>9, <1>10 DEF slash

-----------------------------------------------------------------------------
(* The segments of a path                                                      *)

SegmentLists == Seq(Seq(STRING)) \ {<<>>}
Uncut        == <<<<>>>>

LEMMA CuttingTyped ==
  ASSUME NEW r \in SegmentLists, NEW c \in STRING, NEW d
  PROVE  Cutting(r, c, d) \in SegmentLists
<1> DEFINE C == Seq(STRING)
<1>1. r \in Seq(C) /\ r # <<>> /\ <<>> \in C
  BY EmptySeq DEF SegmentLists
<1>2. \A e \in C : Append(e, c) \in C
  BY AppendProperties
<1> HIDE DEF C
<1>3. Front(r) \in Seq(C) /\ Last(r) \in C
  BY <1>1, FrontAndLast
<1>4. \A y \in Seq(C) : \A e \in C : Append(y, e) \in Seq(C) /\ Append(y, e) # <<>>
  BY AppendProperties
<1>5. Cutting(r, c, d) \in Seq(C) /\ Cutting(r, c, d) # <<>>
  BY <1>1, <1>2, <1>3, <1>4 DEF Cutting
<1> QED BY <1>5 DEF SegmentLists, C

LEMMA UncutTyped == Uncut \in SegmentLists
<1> DEFINE C == Seq(STRING)
<1>1. <<>> \in C
  BY EmptySeq
<1> HIDE DEF C
<1>2. <<<<>>>> \in Seq(C) /\ Len(<<<<>>>>) = 1
  BY <1>1, OneOf
<1>3. Len(<<>>) = 0
  OBVIOUS
<1>4. <<<<>>>> # <<>>
  BY <1>2, <1>3
<1> QED BY <1>2, <1>4 DEF SegmentLists, C, Uncut

\* The loop of Split.
CutLoop(h, u, d) ==
  h = [p \in SUBSET DOMAIN u |-> IF p = {} THEN Uncut ELSE Cutting(h[p \ {Max(p)}], u[Max(p)], d)]

CutsOn(G, u, n, d) ==
  /\ G[0] = Uncut /\ \A k \in 1..n : G[k] = Cutting(G[k - 1], u[k], d)
  /\ \A k \in 0..n : G[k] \in SegmentLists

LEMMA CutSteps ==
  ASSUME NEW d, NEW u, NEW n \in Nat, DOMAIN u = 1..n, \A i \in 1..n : u[i] \in STRING
  PROVE  \E G : Split(u, d) = G[n] /\ CutsOn(G, u, n, d)
<1> DEFINE V == SegmentLists
           step == [p \in (1..n) \X V |-> Cutting(p[2], u[p[1]], d)]
           h == CHOOSE it : CutLoop(it, u, d)
<1>1. Uncut \in V
  BY UncutTyped
<1>2. \A v \in V : \A c \in STRING : Cutting(v, c, d) \in V
  BY CuttingTyped
<1>3. Split(u, d) = h[DOMAIN u]
  BY DEF Split, Uncut, FoldLeft, MapThenFoldSet, CutLoop
<1> HIDE DEF V
<1>4. step \in [(1..n) \X V -> V]
  <2>1. \A p \in (1..n) \X V : Cutting(p[2], u[p[1]], d) \in V
    BY <1>2
  <2> QED BY <2>1
<1>5. \A i \in 1..n : \A v \in V : step[<<i, v>>] = Cutting(v, u[i], d)
  OBVIOUS
<1> HIDE DEF step, h
<1>7. PICK f \in [SUBSET (1..n) -> V] : FoldOf(f, n, Uncut, step)
  BY <1>1, <1>4, FoldExists
<1>8. CutLoop(f, u, d)
  <2> DEFINE m(p) == step[<<Max(p), f[p \ {Max(p)}]>>]
             w(p) == Cutting(f[p \ {Max(p)}], u[Max(p)], d)
  <2>1. ASSUME NEW p \in SUBSET (1..n), p # {} PROVE m(p) = w(p)
    <3>1. Max(p) \in p
      BY <2>1, LastOff
    <3>2. Max(p) \in 1..n /\ f[p \ {Max(p)}] \in V
      BY <3>1
    <3> QED BY <1>5, <3>2
  <2>2. f = [p \in SUBSET (1..n) |-> IF p = {} THEN Uncut ELSE m(p)]
    BY <1>7, Zenon DEF FoldOf
  <2>3. f = [p \in SUBSET (1..n) |-> IF p = {} THEN Uncut ELSE w(p)]
    <3> HIDE DEF m, w
    <3> QED BY <2>1, <2>2
  <2> QED BY <2>3, Zenon DEF CutLoop
<1>9. CutLoop(h, u, d)
  BY <1>8, Zenon DEF h
<1>10. h[1..0] = Uncut
  <2>1. 1..0 = {} /\ 1..0 \in SUBSET (1..n)
    OBVIOUS
  <2> QED BY <1>9, <2>1 DEF CutLoop
<1>11. ASSUME NEW k \in 1..n PROVE h[1..k] = Cutting(h[1..(k - 1)], u[k], d)
  <2>1. 1..k \in SUBSET (1..n) /\ 1..k # {} /\ Max(1..k) = k /\ (1..k) \ {k} = 1..(k - 1)
    BY LastOff
  <2>2. h[1..k] = IF 1..k = {} THEN Uncut ELSE Cutting(h[(1..k) \ {Max(1..k)}], u[Max(1..k)], d)
    BY <1>9, <2>1, Zenon DEF CutLoop
  <2> QED BY <2>1, <2>2, Zenon
<1> DEFINE T == {k \in Nat : k <= n => h[1..k] \in V}
<1>12. 0 \in T
  BY <1>1, <1>10
<1>13. ASSUME NEW k \in T PROVE k + 1 \in T
  <2>1. SUFFICES ASSUME k + 1 <= n PROVE h[1..(k + 1)] \in V
    OBVIOUS
  <2>a. k \in Nat /\ (k <= n => h[1..k] \in V)
    OBVIOUS
  <2> HIDE DEF T
  <2>2. k + 1 \in 1..n /\ (k + 1) - 1 = k /\ k <= n
    BY <2>1, <2>a
  <2>3. h[1..(k + 1)] = Cutting(h[1..k], u[k + 1], d)
    BY <1>11, <2>2
  <2>4. u[k + 1] \in STRING /\ h[1..k] \in V
    BY <2>2, <2>a
  <2>5. Cutting(h[1..k], u[k + 1], d) \in V
    BY <1>2, <2>4
  <2> QED BY <2>3, <2>5
<1>14. \A k \in Nat : k <= n => h[1..k] \in V
  <2>1. T \in SUBSET Nat
    OBVIOUS
  <2>2. T = Nat
    <3> HIDE DEF T
    <3> QED BY <1>12, <1>13, <2>1, SetInduction
  <2> QED BY <2>2
<1> HIDE DEF T
<1> DEFINE G == [k \in 0..n |-> h[1..k]]
<1>15. \A k \in 0..n : G[k] = h[1..k]
  OBVIOUS
<1>16. 0 \in 0..n /\ n \in 0..n /\ \A k \in 1..n : k \in 0..n /\ k - 1 \in 0..n
  OBVIOUS
<1>17. \A k \in 0..n : k \in Nat /\ k <= n
  OBVIOUS
<1> HIDE DEF G
<1>18. CutsOn(G, u, n, d)
  BY <1>10, <1>11, <1>14, <1>15, <1>16, <1>17 DEF CutsOn, V
<1> QED BY <1>3, <1>15, <1>16, <1>18

SegmentsKept == Seq(Seq(STRING))

LEMMA KeepingTyped ==
  ASSUME NEW r \in SegmentsKept, NEW c \in Seq(STRING)
  PROVE  Keeping(r, c) \in SegmentsKept
<1> DEFINE C == Seq(STRING)
<1>1. r \in Seq(C) /\ c \in C
  BY DEF SegmentsKept
<1> HIDE DEF C
<1>2. r # <<>> => Front(r) \in Seq(C)
  BY <1>1, FrontAndLast
<1>3. Append(r, c) \in Seq(C)
  BY <1>1, AppendProperties
<1>4. Keeping(r, c) \in Seq(C)
  BY <1>1, <1>2, <1>3 DEF Keeping
<1> QED BY <1>4 DEF SegmentsKept, C

Kept(u) == FoldLeft(Keeping, <<>>, u)

\* The loop of Kept.
KeepLoop(h, u) ==
  h = [p \in SUBSET DOMAIN u |-> IF p = {} THEN <<>> ELSE Keeping(h[p \ {Max(p)}], u[Max(p)])]

KeepsOn(G, u, n) ==
  /\ G[0] = <<>> /\ \A k \in 1..n : G[k] = Keeping(G[k - 1], u[k])
  /\ \A k \in 0..n : G[k] \in SegmentsKept

LEMMA KeepSteps ==
  ASSUME NEW u, NEW n \in Nat, DOMAIN u = 1..n, \A i \in 1..n : u[i] \in Seq(STRING)
  PROVE  \E G : Kept(u) = G[n] /\ KeepsOn(G, u, n)
<1> DEFINE V == SegmentsKept
           step == [p \in (1..n) \X V |-> Keeping(p[2], u[p[1]])]
           h == CHOOSE it : KeepLoop(it, u)
<1>1. <<>> \in V
  BY EmptySeq DEF SegmentsKept
<1>2. \A v \in V : \A c \in Seq(STRING) : Keeping(v, c) \in V
  BY KeepingTyped
<1>3. Kept(u) = h[DOMAIN u]
  BY DEF Kept, FoldLeft, MapThenFoldSet, KeepLoop
<1> HIDE DEF V
<1>4. step \in [(1..n) \X V -> V]
  <2>1. \A p \in (1..n) \X V : Keeping(p[2], u[p[1]]) \in V
    BY <1>2
  <2> QED BY <2>1
<1>5. \A i \in 1..n : \A v \in V : step[<<i, v>>] = Keeping(v, u[i])
  OBVIOUS
<1> HIDE DEF step, h
<1>7. PICK f \in [SUBSET (1..n) -> V] : FoldOf(f, n, <<>>, step)
  BY <1>1, <1>4, FoldExists
<1>8. KeepLoop(f, u)
  <2> DEFINE m(p) == step[<<Max(p), f[p \ {Max(p)}]>>]
             w(p) == Keeping(f[p \ {Max(p)}], u[Max(p)])
  <2>1. ASSUME NEW p \in SUBSET (1..n), p # {} PROVE m(p) = w(p)
    <3>1. Max(p) \in p
      BY <2>1, LastOff
    <3>2. Max(p) \in 1..n /\ f[p \ {Max(p)}] \in V
      BY <3>1
    <3> QED BY <1>5, <3>2
  <2>2. f = [p \in SUBSET (1..n) |-> IF p = {} THEN <<>> ELSE m(p)]
    BY <1>7, Zenon DEF FoldOf
  <2>3. f = [p \in SUBSET (1..n) |-> IF p = {} THEN <<>> ELSE w(p)]
    <3> HIDE DEF m, w
    <3> QED BY <2>1, <2>2
  <2> QED BY <2>3, Zenon DEF KeepLoop
<1>9. KeepLoop(h, u)
  BY <1>8, Zenon DEF h
<1>10. h[1..0] = <<>>
  <2>1. 1..0 = {} /\ 1..0 \in SUBSET (1..n)
    OBVIOUS
  <2> QED BY <1>9, <2>1 DEF KeepLoop
<1>11. ASSUME NEW k \in 1..n PROVE h[1..k] = Keeping(h[1..(k - 1)], u[k])
  <2>1. 1..k \in SUBSET (1..n) /\ 1..k # {} /\ Max(1..k) = k /\ (1..k) \ {k} = 1..(k - 1)
    BY LastOff
  <2>2. h[1..k] = IF 1..k = {} THEN <<>> ELSE Keeping(h[(1..k) \ {Max(1..k)}], u[Max(1..k)])
    BY <1>9, <2>1, Zenon DEF KeepLoop
  <2> QED BY <2>1, <2>2, Zenon
<1> DEFINE T == {k \in Nat : k <= n => h[1..k] \in V}
<1>12. 0 \in T
  BY <1>1, <1>10
<1>13. ASSUME NEW k \in T PROVE k + 1 \in T
  <2>1. SUFFICES ASSUME k + 1 <= n PROVE h[1..(k + 1)] \in V
    OBVIOUS
  <2>a. k \in Nat /\ (k <= n => h[1..k] \in V)
    OBVIOUS
  <2> HIDE DEF T
  <2>2. k + 1 \in 1..n /\ (k + 1) - 1 = k /\ k <= n
    BY <2>1, <2>a
  <2>3. h[1..(k + 1)] = Keeping(h[1..k], u[k + 1])
    BY <1>11, <2>2
  <2>4. u[k + 1] \in Seq(STRING) /\ h[1..k] \in V
    BY <2>2, <2>a
  <2>5. Keeping(h[1..k], u[k + 1]) \in V
    BY <1>2, <2>4
  <2> QED BY <2>3, <2>5
<1>14. \A k \in Nat : k <= n => h[1..k] \in V
  <2>1. T \in SUBSET Nat
    OBVIOUS
  <2>2. T = Nat
    <3> HIDE DEF T
    <3> QED BY <1>12, <1>13, <2>1, SetInduction
  <2> QED BY <2>2
<1> HIDE DEF T
<1> DEFINE G == [k \in 0..n |-> h[1..k]]
<1>15. \A k \in 0..n : G[k] = h[1..k]
  OBVIOUS
<1>16. 0 \in 0..n /\ n \in 0..n /\ \A k \in 1..n : k \in 0..n /\ k - 1 \in 0..n
  OBVIOUS
<1>17. \A k \in 0..n : k \in Nat /\ k <= n
  OBVIOUS
<1> HIDE DEF G
<1>18. KeepsOn(G, u, n)
  BY <1>10, <1>11, <1>14, <1>15, <1>16, <1>17 DEF KeepsOn, V
<1> QED BY <1>3, <1>15, <1>16, <1>18

\* The fold of a path goes on with each piece.
LEMMA CutNext ==
  ASSUME NEW p \in Seq(STRING), NEW c \in STRING, NEW d
  PROVE  /\ Split(p, d) \in SegmentLists /\ Split(<<>>, d) = Uncut
         /\ Split(Append(p, c), d) = Cutting(Split(p, d), c, d)
<1> DEFINE q == Append(p, c)
           n == Len(p)
           D == STRING
<1>1. n \in Nat /\ DOMAIN p = 1..n /\ \A i \in 1..n : p[i] \in D
  OBVIOUS
<1>a. c \in D /\ p \in Seq(D)
  OBVIOUS
<1> HIDE DEF D
<1>b. q \in Seq(D) /\ Lengthened(q, p, c)
  BY <1>a, OneMore
<1> HIDE DEF q
<1>2. /\ q \in Seq(D) /\ Len(q) = n + 1
      /\ (\A i \in 1..n : q[i] = p[i]) /\ q[n + 1] = c
  BY <1>b DEF Lengthened
<1> HIDE DEF n
<1>3. n + 1 \in Nat /\ DOMAIN q = 1..(n + 1) /\ \A i \in 1..(n + 1) : q[i] \in D
  BY <1>1, <1>2, <1>a
<1>4. PICK G : Split(p, d) = G[n] /\ CutsOn(G, p, n, d)
  BY <1>1, CutSteps DEF D
<1>5. PICK H : Split(q, d) = H[n + 1] /\ CutsOn(H, q, n + 1, d)
  BY <1>3, CutSteps DEF D
<1> DEFINE T == {k \in Nat : k <= n => H[k] = G[k]}
<1>6. 0 \in T
  <2>1. H[0] = G[0]
    BY <1>4, <1>5 DEF CutsOn
  <2> QED BY <2>1
<1>7. ASSUME NEW k \in T PROVE k + 1 \in T
  <2>1. SUFFICES ASSUME k + 1 <= n PROVE H[k + 1] = G[k + 1]
    OBVIOUS
  <2>2. k \in Nat /\ (k <= n => H[k] = G[k])
    OBVIOUS
  <2> HIDE DEF T
  <2>3. k + 1 \in 1..n /\ k + 1 \in 1..(n + 1) /\ (k + 1) - 1 = k /\ k <= n
    BY <1>1, <2>1, <2>2
  <2>4. G[k + 1] = Cutting(G[k], p[k + 1], d) /\ H[k + 1] = Cutting(H[k], q[k + 1], d)
    BY <1>4, <1>5, <2>3 DEF CutsOn
  <2> QED BY <1>2, <2>2, <2>3, <2>4
<1>8. H[n] = G[n]
  <2>1. T \in SUBSET Nat
    OBVIOUS
  <2>2. T = Nat
    <3> HIDE DEF T
    <3> QED BY <1>6, <1>7, <2>1, SetInduction
  <2> QED BY <1>1, <2>2
<1> HIDE DEF T
<1>9. Split(q, d) = Cutting(Split(p, d), c, d)
  <2>1. n + 1 \in 1..(n + 1) /\ (n + 1) - 1 = n
    BY <1>1
  <2>2. H[n + 1] = Cutting(H[n], q[n + 1], d)
    BY <1>5, <2>1 DEF CutsOn
  <2> QED BY <1>2, <1>4, <1>5, <1>8, <2>2
<1>10. Split(p, d) \in SegmentLists
  <2>1. n \in 0..n
    BY <1>1
  <2> QED BY <1>4, <2>1 DEF CutsOn
<1>11. Split(<<>>, d) = Uncut
  <2>1. 0 \in Nat /\ DOMAIN <<>> = 1..0 /\ \A i \in 1..0 : <<>>[i] \in D
    OBVIOUS
  <2>2. PICK K : Split(<<>>, d) = K[0] /\ CutsOn(K, <<>>, 0, d)
    BY <2>1, CutSteps DEF D
  <2> QED BY <2>2 DEF CutsOn
<1> QED BY <1>9, <1>10, <1>11 DEF q, D

\* The fold of segments goes on with each segment.
LEMMA KeepNext ==
  ASSUME NEW p \in Seq(Seq(STRING)), NEW c \in Seq(STRING)
  PROVE  /\ Kept(p) \in SegmentsKept /\ Kept(<<>>) = <<>>
         /\ Kept(Append(p, c)) = Keeping(Kept(p), c)
<1> DEFINE q == Append(p, c)
           n == Len(p)
           D == Seq(STRING)
<1>1. n \in Nat /\ DOMAIN p = 1..n /\ \A i \in 1..n : p[i] \in D
  OBVIOUS
<1>a. c \in D /\ p \in Seq(D)
  OBVIOUS
<1> HIDE DEF D
<1>b. q \in Seq(D) /\ Lengthened(q, p, c)
  BY <1>a, OneMore
<1> HIDE DEF q
<1>2. /\ q \in Seq(D) /\ Len(q) = n + 1
      /\ (\A i \in 1..n : q[i] = p[i]) /\ q[n + 1] = c
  BY <1>b DEF Lengthened
<1> HIDE DEF n
<1>3. n + 1 \in Nat /\ DOMAIN q = 1..(n + 1) /\ \A i \in 1..(n + 1) : q[i] \in D
  BY <1>1, <1>2, <1>a
<1>4. PICK G : Kept(p) = G[n] /\ KeepsOn(G, p, n)
  BY <1>1, KeepSteps DEF D
<1>5. PICK H : Kept(q) = H[n + 1] /\ KeepsOn(H, q, n + 1)
  BY <1>3, KeepSteps DEF D
<1> DEFINE T == {k \in Nat : k <= n => H[k] = G[k]}
<1>6. 0 \in T
  <2>1. H[0] = G[0]
    BY <1>4, <1>5 DEF KeepsOn
  <2> QED BY <2>1
<1>7. ASSUME NEW k \in T PROVE k + 1 \in T
  <2>1. SUFFICES ASSUME k + 1 <= n PROVE H[k + 1] = G[k + 1]
    OBVIOUS
  <2>2. k \in Nat /\ (k <= n => H[k] = G[k])
    OBVIOUS
  <2> HIDE DEF T
  <2>3. k + 1 \in 1..n /\ k + 1 \in 1..(n + 1) /\ (k + 1) - 1 = k /\ k <= n
    BY <1>1, <2>1, <2>2
  <2>4. G[k + 1] = Keeping(G[k], p[k + 1]) /\ H[k + 1] = Keeping(H[k], q[k + 1])
    BY <1>4, <1>5, <2>3 DEF KeepsOn
  <2> QED BY <1>2, <2>2, <2>3, <2>4
<1>8. H[n] = G[n]
  <2>1. T \in SUBSET Nat
    OBVIOUS
  <2>2. T = Nat
    <3> HIDE DEF T
    <3> QED BY <1>6, <1>7, <2>1, SetInduction
  <2> QED BY <1>1, <2>2
<1> HIDE DEF T
<1>9. Kept(q) = Keeping(Kept(p), c)
  <2>1. n + 1 \in 1..(n + 1) /\ (n + 1) - 1 = n
    BY <1>1
  <2>2. H[n + 1] = Keeping(H[n], q[n + 1])
    BY <1>5, <2>1 DEF KeepsOn
  <2> QED BY <1>2, <1>4, <1>5, <1>8, <2>2
<1>10. Kept(p) \in SegmentsKept
  <2>1. n \in 0..n
    BY <1>1
  <2> QED BY <1>4, <2>1 DEF KeepsOn
<1>11. Kept(<<>>) = <<>>
  <2>1. 0 \in Nat /\ DOMAIN <<>> = 1..0 /\ \A i \in 1..0 : <<>>[i] \in D
    OBVIOUS
  <2>2. PICK K : Kept(<<>>) = K[0] /\ KeepsOn(K, <<>>, 0)
    BY <2>1, KeepSteps DEF D
  <2> QED BY <2>2 DEF KeepsOn
<1> QED BY <1>9, <1>10, <1>11 DEF q, D

\* Without the separator a text is one piece.
LEMMA CutUncut ==
  ASSUME NEW d
  PROVE  \A s \in Seq(STRING) : Lacks(s, d) => Split(s, d) = <<s>>
<1> DEFINE C == STRING
           T == {s \in Seq(C) : Lacks(s, d) => Split(s, d) = <<s>>}
<1>1. <<>> \in T
  <2>1. <<>> \in Seq(C)
    BY EmptySeq
  <2>2. Split(<<>>, d) = Uncut
    <3>1. PICK c : c \in C
      BY PiecesAssumption
    <3> QED BY <2>1, <3>1, CutNext
  <2> QED BY <2>1, <2>2 DEF Uncut
<1>2. ASSUME NEW t \in T, NEW c \in C PROVE Append(t, c) \in T
  <2> DEFINE u == Append(t, c)
  <2>1. t \in Seq(C) /\ (Lacks(t, d) => Split(t, d) = <<t>>)
    OBVIOUS
  <2> HIDE DEF T
  <2>2. u \in Seq(C) /\ Lengthened(u, t, c)
    BY <2>1, OneMore
  <2>3. Split(u, d) = Cutting(Split(t, d), c, d)
    BY <2>1, CutNext
  <2> HIDE DEF u
  <2>4. ASSUME Lacks(u, d) PROVE Split(u, d) = <<u>>
    <3>1. Len(t) \in Nat /\ Len(u) = Len(t) + 1 /\ u[Len(t) + 1] = c
          /\ \A i \in 1..Len(t) : u[i] = t[i]
      BY <2>1, <2>2 DEF Lengthened
    <3>2. c # d
      <4>1. Len(t) + 1 \in 1..Len(u)
        BY <3>1
      <4> QED BY <2>4, <3>1, <4>1 DEF Lacks
    <3>3. Lacks(t, d)
      <4>1. \A i \in 1..Len(t) : i \in 1..Len(u)
        BY <3>1
      <4> QED BY <2>4, <3>1, <4>1 DEF Lacks
    <3>4. Split(t, d) = <<t>>
      BY <2>1, <3>3
    <3>5. Front(<<t>>) = <<>> /\ Last(<<t>>) = t
      <4>1. Len(<<t>>) = 1 /\ <<t>>[1] = t
        OBVIOUS
      <4>2. Front(<<t>>) = SubSeq(<<t>>, 1, 0)
        BY <4>1 DEF Front
      <4>3. SubSeq(<<t>>, 1, 0) = <<>>
        BY SubSeqEmpty
      <4> QED BY <4>1, <4>2, <4>3 DEF Last
    <3>6. Cutting(<<t>>, c, d) = Append(<<>>, u)
      BY <3>2, <3>5 DEF Cutting, u
    <3>7. Append(<<>>, u) = <<u>>
      OBVIOUS
    <3> QED BY <2>3, <3>4, <3>6, <3>7
  <2>5. u \in T
    BY <2>2, <2>4 DEF T
  <2> QED BY <2>5 DEF u
<1>3. T \in SUBSET Seq(C)
  OBVIOUS
<1>4. T = Seq(C)
  <2> HIDE DEF T, C
  <2> QED BY <1>1, <1>2, <1>3, SeqInduction
<1> QED BY <1>4

\* The last segment is cut as if the ones ahead of it were not there.
LEMMA CuttingBehind ==
  ASSUME NEW a \in Seq(Seq(STRING)), NEW r \in SegmentLists, NEW c \in STRING, NEW d
  PROVE  Cutting(a \o r, c, d) = a \o Cutting(r, c, d)
<1> DEFINE C == Seq(STRING)
           f == Front(r)
           e == Last(r)
           y == Append(e, c)
<1>1. r \in Seq(C) /\ r # <<>> /\ a \in Seq(C) /\ <<>> \in C
  BY EmptySeq DEF SegmentLists
<1>e. \A z \in C : Append(z, c) \in C
  BY AppendProperties
<1> HIDE DEF C
<1>2. f \in Seq(C) /\ e \in C /\ r = Append(f, e)
  BY <1>1, FrontAndLast
<1> HIDE DEF f, e
<1>3. y \in C
  BY <1>2, <1>e
<1> HIDE DEF y
<1>4. LongerBy(a, f, e) /\ LongerBy(a, f, y) /\ LongerBy(a, r, <<>>)
  BY <1>1, <1>2, <1>3, JoinLonger
<1> DEFINE af == a \o f
           ar == a \o r
<1>5. af \in Seq(C)
  BY <1>1, <1>2, Regrouped
<1>6. ar = Append(af, e)
  BY <1>2, <1>4 DEF LongerBy
<1> HIDE DEF af, ar
<1>7. ar \in Seq(C) /\ ar # <<>>
  BY <1>2, <1>5, <1>6, AppendProperties
<1>8. Front(ar) = af /\ Last(ar) = e
  <2>1. Front(ar) \in Seq(C) /\ Last(ar) \in C /\ ar = Append(Front(ar), Last(ar))
    BY <1>7, FrontAndLast
  <2> DEFINE x == Front(ar)
             z == Last(ar)
  <2> HIDE DEF x, z
  <2>2. x \in Seq(C) /\ z \in C /\ Append(x, z) = Append(af, e)
    BY <1>6, <2>1 DEF x, z
  <2>3. x = af /\ z = e
    BY <1>2, <1>5, <2>2, AppendInjective
  <2> QED BY <2>3 DEF x, z
<1>9. CASE c = d
  <2>1. Cutting(ar, c, d) = Append(ar, <<>>) /\ Cutting(r, c, d) = Append(r, <<>>)
    BY <1>9 DEF Cutting
  <2> QED BY <1>4, <2>1 DEF LongerBy, ar
<1>10. CASE c # d
  <2>1. Cutting(ar, c, d) = Append(af, y) /\ Cutting(r, c, d) = Append(f, y)
    BY <1>8, <1>10 DEF Cutting, y, f, e
  <2> QED BY <1>4, <2>1 DEF LongerBy, ar, af
<1> QED BY <1>9, <1>10

LEMMA PiecesAreText == {"/", "?", ".."} \subseteq STRING
BY PiecesAssumption

\* A separator cuts a text in two.
LEMMA CutJoin ==
  ASSUME NEW p \in Seq(STRING), NEW d \in STRING
  PROVE  \A w \in Seq(STRING) : Split(Append(p, d) \o w, d) = Split(p, d) \o Split(w, d)
<1> DEFINE C == STRING
           ps == Append(p, d)
           T == {w \in Seq(C) : Split(ps \o w, d) = Split(p, d) \o Split(w, d)}
<1>a. d \in C /\ p \in Seq(C) /\ <<>> \in Seq(C)
  BY EmptySeq
<1>b. ps \in Seq(C)
  BY <1>a, OneMore
<1>c. Split(p, d) \in SegmentLists /\ Split(<<>>, d) = Uncut /\ Split(ps, d) = Cutting(Split(p, d), d, d)
  BY <1>a, CutNext
<1>d. Split(p, d) \in Seq(Seq(STRING)) /\ <<>> \in Seq(STRING)
  BY <1>c, EmptySeq DEF SegmentLists
<1>1. <<>> \in T
  <2>1. ps \o <<>> = ps
    BY <1>b, ConcatEmptySeq
  <2>2. Split(ps, d) = Append(Split(p, d), <<>>)
    BY <1>c DEF Cutting
  <2>3. Append(Split(p, d), <<>>) = Split(p, d) \o <<<<>>>>
    BY <1>d, AppendIsConcat
  <2> HIDE DEF ps
  <2>4. Split(ps \o <<>>, d) = Split(p, d) \o Split(<<>>, d)
    BY <1>c, <2>1, <2>2, <2>3 DEF Uncut
  <2> QED BY <1>a, <2>4
<1> HIDE DEF ps
<1>2. ASSUME NEW t \in T, NEW c \in C PROVE Append(t, c) \in T
  <2> DEFINE u == Append(t, c)
             pt == ps \o t
  <2>1. t \in Seq(C) /\ Split(pt, d) = Split(p, d) \o Split(t, d)
    OBVIOUS
  <2> HIDE DEF T
  <2>2. u \in Seq(C) /\ Split(u, d) = Cutting(Split(t, d), c, d) /\ Split(t, d) \in SegmentLists
    BY <2>1, OneMore, CutNext
  <2>3. LongerBy(ps, t, c)
    BY <1>b, <2>1, JoinLonger
  <2>4. pt \in Seq(C)
    BY <1>b, <2>1, Regrouped
  <2>5. Split(Append(pt, c), d) = Cutting(Split(pt, d), c, d)
    <3> HIDE DEF pt
    <3> QED BY <2>4, CutNext
  <2>6. Cutting(Split(p, d) \o Split(t, d), c, d) = Split(p, d) \o Cutting(Split(t, d), c, d)
    BY <1>d, <2>2, CuttingBehind
  <2>7. ps \o u = Append(pt, c)
    BY <2>3 DEF LongerBy
  <2> HIDE DEF u, pt
  <2>8. Split(ps \o u, d) = Split(p, d) \o Split(u, d)
    BY <2>1, <2>2, <2>5, <2>6, <2>7
  <2> QED BY <2>2, <2>8 DEF T, u
<1>3. T \in SUBSET Seq(C)
  OBVIOUS
<1>4. T = Seq(C)
  <2> HIDE DEF T, C
  <2> QED BY <1>1, <1>2, <1>3, SeqInduction
<1> QED BY <1>4 DEF ps

\* Segments behind the same ones are kept alike.
LEMMA KeptAlike ==
  ASSUME NEW a \in Seq(Seq(STRING)), NEW b \in Seq(Seq(STRING)), Kept(a) = Kept(b)
  PROVE  \A w \in Seq(Seq(STRING)) : Kept(a \o w) = Kept(b \o w)
<1> DEFINE C == Seq(STRING)
           T == {w \in Seq(C) : Kept(a \o w) = Kept(b \o w)}
<1>k. \A x \in Seq(C) : \A c \in C : Kept(Append(x, c)) = Keeping(Kept(x), c)
  BY KeepNext
<1>a. a \in Seq(C) /\ b \in Seq(C)
  OBVIOUS
<1> HIDE DEF C
<1>1. <<>> \in T
  <2>1. a \o <<>> = a /\ b \o <<>> = b /\ <<>> \in Seq(C)
    BY <1>a, ConcatEmptySeq, EmptySeq
  <2> QED BY <2>1
<1>2. ASSUME NEW t \in T, NEW c \in C PROVE Append(t, c) \in T
  <2> DEFINE u == Append(t, c)
             x == a \o t
             y == b \o t
  <2>1. t \in Seq(C) /\ Kept(x) = Kept(y)
    OBVIOUS
  <2> HIDE DEF T
  <2>2. u \in Seq(C) /\ x \in Seq(C) /\ y \in Seq(C)
    BY <1>a, <2>1, OneMore, Regrouped
  <2>3. LongerBy(a, t, c) /\ LongerBy(b, t, c)
    BY <1>a, <2>1, JoinLonger
  <2>4. a \o u = Append(x, c) /\ b \o u = Append(y, c)
    BY <2>3 DEF LongerBy
  <2> HIDE DEF u, x, y
  <2>5. Kept(Append(x, c)) = Keeping(Kept(x), c) /\ Kept(Append(y, c)) = Keeping(Kept(y), c)
    BY <1>k, <2>2
  <2>6. Kept(a \o u) = Kept(b \o u)
    BY <2>1, <2>4, <2>5
  <2> QED BY <2>2, <2>6 DEF T, u
<1>3. T \in SUBSET Seq(C)
  OBVIOUS
<1>4. T = Seq(C)
  <2> HIDE DEF T
  <2> QED BY <1>1, <1>2, <1>3, SeqInduction
<1> QED BY <1>4 DEF C

TwoDots == <<"..">>

\* Two dots behind a segment take it away, and nothing when there is none.
LEMMA KeptUp ==
  /\ \A d \in Seq(Seq(STRING)) : \A name \in Seq(STRING) :
       name # TwoDots => Kept(Append(Append(d, name), TwoDots)) = Kept(d)
  /\ Kept(Append(<<>>, TwoDots)) = Kept(<<>>)
<1> DEFINE C == Seq(STRING)
<1>k. /\ \A x \in Seq(C) : \A c \in C : Kept(Append(x, c)) = Keeping(Kept(x), c)
      /\ \A x \in Seq(C) : \A c \in C : Kept(x) \in Seq(C) /\ Kept(<<>>) = <<>>
  BY KeepNext DEF SegmentsKept
<1>d. TwoDots \in C
  BY PiecesAreText, OneOf DEF TwoDots
<1>e. \A c : Keeping(<<>>, TwoDots) = <<>> /\ (c # TwoDots => \A r : Keeping(r, c) = Append(r, c))
                /\ \A r : r # <<>> => Keeping(r, TwoDots) = Front(r)
  BY DEF Keeping, TwoDots
<1> HIDE DEF C
<1>1. ASSUME NEW d \in Seq(C), NEW name \in C, name # TwoDots
      PROVE  Kept(Append(Append(d, name), TwoDots)) = Kept(d)
  <2> DEFINE x == Append(d, name)
             k == Kept(d)
             y == Append(k, name)
  <2>1. x \in Seq(C)
    BY AppendProperties
  <2>2. k \in Seq(C)
    BY <1>k
  <2>3. Kept(x) = y
    BY <1>1, <1>k, <1>e
  <2> HIDE DEF x, k
  <2>4. y \in Seq(C) /\ y # <<>>
    BY <2>2, AppendProperties
  <2>5. Kept(Append(x, TwoDots)) = Keeping(y, TwoDots)
    BY <1>d, <1>k, <2>1, <2>3
  <2>6. Keeping(y, TwoDots) = Front(y)
    BY <1>e, <2>4
  <2>7. Front(y) = k
    <3> HIDE DEF y
    <3>1. Front(y) \in Seq(C) /\ Last(y) \in C /\ y = Append(Front(y), Last(y))
      BY <2>4, FrontAndLast
    <3> DEFINE f == Front(y)
               e == Last(y)
    <3> HIDE DEF f, e
    <3>2. f \in Seq(C) /\ e \in C /\ Append(f, e) = Append(k, name)
      BY <3>1 DEF f, e, y
    <3>3. f = k
      BY <2>2, <3>2, AppendInjective
    <3> QED BY <3>3 DEF f
  <2> QED BY <2>5, <2>6, <2>7 DEF x, k
<1>2. Kept(Append(<<>>, TwoDots)) = Kept(<<>>)
  <2>1. <<>> \in Seq(C)
    BY EmptySeq
  <2> QED BY <1>d, <1>e, <1>k, <2>1
<1> QED BY <1>1, <1>2 DEF C

-----------------------------------------------------------------------------
(* The directory of a path                                                     *)

LEMMA LastIs ==
  ASSUME NEW s \in Seq(STRING), NEW c
  PROVE  /\ Contains(s, c) <=> Places(s, c) # {}
         /\ Contains(s, c) => /\ IsLastAt(s, c, LastAt(s, c))
                              /\ UpToLast(s, c) = SubSeq(s, 1, LastAt(s, c) - 1)
         /\ ~Contains(s, c) => UpToLast(s, c) = NULL
<1>1. Contains(s, c) <=> Places(s, c) # {}
  BY DEF Contains, Places
<1>2. Places(s, c) \in SUBSET Nat /\ IsFiniteSet(Places(s, c)) /\ Places(s, c) \in SUBSET (1..Len(s))
  <2>1. Places(s, c) \in SUBSET (1..Len(s)) /\ 1..Len(s) \in SUBSET Nat
    BY DEF Places
  <2>2. IsFiniteSet(1..Len(s))
    BY FS_Interval
  <2>3. IsFiniteSet(Places(s, c))
    BY <2>1, <2>2, FS_Subset
  <2> QED BY <2>1, <2>3
<1> DEFINE I == Places(s, c)
           last == IF I # {} THEN Max(I) ELSE 0
<1>3. UpToLast(s, c) = IF last = 0 THEN NULL ELSE SubSeq(s, 1, last - 1)
  BY DEF UpToLast, SelectLastInSeq, Places
<1>4. ASSUME Contains(s, c)
      PROVE  /\ IsLastAt(s, c, LastAt(s, c))
             /\ UpToLast(s, c) = SubSeq(s, 1, LastAt(s, c) - 1)
  <2>1. Max(I) \in I /\ \A y \in I : y <= Max(I)
    BY <1>1, <1>2, <1>4, MaxOfFinite
  <2>2. last = Max(I) /\ last \in 1..Len(s)
    BY <1>1, <1>2, <1>4, <2>1
  <2>3. IsLastAt(s, c, last)
    BY <2>1, <2>2 DEF IsLastAt, Places
  <2>4. LastAt(s, c) = last
    BY <2>2 DEF LastAt
  <2>5. last # 0
    BY <2>2
  <2> HIDE DEF last
  <2> QED BY <1>3, <2>3, <2>4, <2>5
<1>5. ASSUME ~Contains(s, c) PROVE UpToLast(s, c) = NULL
  BY <1>1, <1>3, <1>5
<1> QED BY <1>1, <1>4, <1>5

\* The directory of a path.
Folder(p) == IF Contains(p, "/") THEN UpToLast(p, "/") ELSE <<>>

\* The last segment of a path is not two dots.
NotUp(p) == \A k \in 1..(Len(p) - 1) : p[k] = "/" /\ p[k + 1] = ".." => k + 1 < Len(p)

\* The segments of a path and a slash with a text behind it.
LEMMA SegmentsJoin ==
  ASSUME NEW p \in Seq(STRING), NEW w \in Seq(STRING)
  PROVE  /\ Segments(p) \in Seq(Seq(STRING)) /\ Split(w, "/") \in SegmentLists
         /\ Split(w, "/") \in Seq(Seq(STRING)) /\ Segments(<<>>) = <<>>
         /\ Segments(Append(p, "/") \o w) = Segments(p) \o Split(w, "/")
<1>1. "/" \in STRING
  BY PiecesAreText
<1>2. Split(p, "/") \in SegmentLists /\ Split(w, "/") \in SegmentLists /\ Split(<<>>, "/") = Uncut
  BY <1>1, CutNext
<1> DEFINE C == Seq(STRING)
           x == Split(p, "/")
           y == Split(w, "/")
<1>3. x \in Seq(C) /\ y \in Seq(C) /\ x # <<>>
  BY <1>2 DEF SegmentLists
<1>4. Split(Append(p, "/") \o w, "/") = x \o y
  BY <1>1, CutJoin
<1>5. \A u : Segments(u) = Tail(Split(u, "/"))
  BY DEF Segments
<1> HIDE DEF C, x, y
<1>6. Tail(x \o y) = Tail(x) \o y /\ Tail(x) \in Seq(C)
  BY <1>3, TailJoin
<1>7. Tail(Uncut) = <<>>
  BY DEF Uncut
<1> QED BY <1>2, <1>3, <1>4, <1>5, <1>6, <1>7 DEF x, y, C

\* Two dots behind a path lead to its directory.
LEMMA FolderIs ==
  ASSUME NEW p \in Seq(STRING), LedBy(p, "/"), NotUp(p)
  PROVE  /\ Folder(p) \in Seq(STRING) /\ LedBy(Folder(p), "/")
         /\ Lacks(p, "?") => Lacks(Folder(p), "?")
         /\ Kept(Append(Segments(p), TwoDots)) = Kept(Segments(Folder(p)))
<1> DEFINE slash == "/"
           d == Folder(p)
<1>0. slash \in STRING /\ <<>> \in Seq(STRING)
  BY PiecesAreText, EmptySeq
<1>e. Segments(<<>>) = <<>>
  BY <1>0, SegmentsJoin
<1>1. CASE ~Contains(p, slash)
  <2>1. p = <<>>
    <3> SUFFICES ASSUME p # <<>> PROVE FALSE
      OBVIOUS
    <3>1. 1 \in 1..Len(p) /\ p[1] = slash
      BY DEF LedBy
    <3> QED BY <1>1, <3>1 DEF Contains
  <2>2. d = <<>>
    BY <1>1 DEF Folder
  <2>3. Kept(Append(<<>>, TwoDots)) = Kept(<<>>)
    BY KeptUp
  <2> HIDE DEF d
  <2> QED BY <1>0, <1>e, <2>1, <2>2, <2>3 DEF d, LedBy, Lacks
<1>2. CASE Contains(p, slash)
  <2> DEFINE m == LastAt(p, slash)
             ds == SubSeq(p, 1, m)
             name == SubSeq(p, m + 1, Len(p))
  <2>1. IsLastAt(p, slash, m) /\ d = SubSeq(p, 1, m - 1)
    <3>1. UpToLast(p, slash) = SubSeq(p, 1, m - 1) /\ IsLastAt(p, slash, m)
      BY <1>2, LastIs
    <3> QED BY <1>2, <3>1 DEF Folder
  <2> HIDE DEF d, slash, m
  <2>b. Around(p, slash, m, SubSeq(p, 1, m - 1), ds, name)
    BY <1>0, <2>1, LastCuts
  <2> HIDE DEF name, ds
  <2>2. /\ d \in Seq(STRING) /\ name \in Seq(STRING) /\ ds = Append(d, slash)
        /\ p = ds \o name /\ Lacks(name, slash)
        /\ Len(name) = Len(p) - m /\ \A i \in 1..(Len(p) - m) : name[i] = p[m + i]
    BY <2>1, <2>b DEF Around
  <2>a. m \in 1..Len(p) /\ p[m] = slash /\ Len(p) \in Nat
    BY <2>1 DEF IsLastAt
  <2>3. name # TwoDots
    <3> SUFFICES ASSUME name = TwoDots PROVE FALSE
      OBVIOUS
    <3>1. Len(name) = 1 /\ name[1] = ".."
      BY DEF TwoDots
    <3>a. Len(p) - m = 1
      BY <2>2, <3>1
    <3>2. m \in 1..(Len(p) - 1) /\ 1 \in 1..(Len(p) - m) /\ m + 1 = Len(p)
      BY <2>a, <3>a
    <3>3. p[m + 1] = ".."
      BY <2>2, <3>1, <3>2
    <3>4. ~(m + 1 < Len(p))
      BY <2>a, <3>2
    <3> QED BY <2>a, <3>2, <3>3, <3>4 DEF NotUp, slash
  <2>4. Segments(p) = Append(Segments(d), name) /\ Segments(d) \in Seq(Seq(STRING))
    <3>1. Split(name, "/") = <<name>>
      BY <2>2, CutUncut DEF slash
    <3>2. Segments(Append(d, slash) \o name) = Segments(d) \o Split(name, "/")
          /\ Segments(d) \in Seq(Seq(STRING))
      BY <2>2, SegmentsJoin DEF slash
    <3> DEFINE x == Segments(d)
               D == Seq(STRING)
    <3>3. x \in Seq(D) /\ name \in D
      BY <2>2, <3>2
    <3> HIDE DEF x, D
    <3>4. Append(x, name) = x \o <<name>>
      BY <3>3, AppendIsConcat
    <3> QED BY <2>2, <3>1, <3>2, <3>4 DEF x
  <2>5. Kept(Append(Segments(p), TwoDots)) = Kept(Segments(d))
    BY <2>2, <2>3, <2>4, KeptUp
  <2> DEFINE sn == <<slash>> \o name
  <2>6. p = d \o sn /\ sn \in Seq(STRING)
    <3> DEFINE o == <<slash>>
    <3>1. o \in Seq(STRING)
      BY <1>0, OneOf
    <3>2. ds = d \o o
      BY <1>0, <2>2, AppendIsConcat
    <3>3. Regroups(d, o, name) /\ o \o name \in Seq(STRING)
      BY <2>2, <3>1, Regrouped
    <3> HIDE DEF o
    <3> QED BY <2>2, <3>2, <3>3, Zenon DEF Regroups, o
  <2> HIDE DEF sn
  <2>7. LedBy(d, slash)
    <3>1. LedBy(d \o sn, slash)
      BY <2>6 DEF slash
    <3> QED BY <2>2, <2>6, <3>1, PartStarts
  <2>8. Lacks(p, "?") => Lacks(d, "?")
    <3>1. Lacks(d \o sn, "?") => Lacks(d, "?")
      BY <2>2, <2>6, LacksJoin
    <3> QED BY <2>6, <3>1
  <2> QED BY <2>2, <2>5, <2>7, <2>8 DEF d, slash
<1> QED BY <1>1, <1>2

-----------------------------------------------------------------------------
(* An address beside that of the playlist                                      *)

\* What segments kept alike lead to is the same behind them.
LEMMA DotlessAlike ==
  ASSUME NEW e, NEW r, NEW a \in Seq(Seq(STRING)), NEW d \in Seq(Seq(STRING)),
         NEW y \in SegmentLists, Segments(e) = a \o y, Segments(r) = d \o y, Kept(a) = Kept(d)
  PROVE  Dotless(e) = Dotless(r)
<1> DEFINE C == Seq(STRING)
           x == a \o y
           z == d \o y
<1>1. y \in Seq(C) /\ y # <<>> /\ a \in Seq(C) /\ d \in Seq(C)
  BY DEF SegmentLists
<1>2. Kept(x) = Kept(z)
  BY <1>1, KeptAlike
<1>s. Segments(e) = x /\ Segments(r) = z
  OBVIOUS
<1> HIDE DEF C, x, z
<1>3. ASSUME NEW b \in Seq(C) PROVE b \o y # <<>> /\ Last(b \o y) = Last(y)
  <2> DEFINE g == Front(y)
             l == Last(y)
             bg == b \o g
             by == b \o y
  <2>1. g \in Seq(C) /\ l \in C /\ y = Append(g, l)
    BY <1>1, FrontAndLast
  <2> HIDE DEF g, l
  <2>2. LongerBy(b, g, l) /\ bg \in Seq(C)
    BY <2>1, JoinLonger, Regrouped
  <2>3. by = Append(bg, l)
    BY <2>1, <2>2 DEF LongerBy
  <2> HIDE DEF by, bg
  <2>a. Append(bg, l) \in Seq(C) /\ Append(bg, l) # <<>>
    BY <2>1, <2>2, AppendProperties, Zenon
  <2>4. by \in Seq(C) /\ by # <<>>
    BY <2>3, <2>a
  <2>5. Front(by) \in Seq(C) /\ Last(by) \in C /\ by = Append(Front(by), Last(by))
    BY <2>4, FrontAndLast
  <2> DEFINE f == Front(by)
             k == Last(by)
  <2> HIDE DEF f, k
  <2>6. f \in Seq(C) /\ k \in C /\ Append(f, k) = Append(bg, l)
    BY <2>3, <2>5 DEF f, k
  <2>7. k = l
    BY <2>1, <2>2, <2>6, AppendInjective
  <2> QED BY <2>4, <2>7 DEF k, l, by
<1>4. x # <<>> /\ z # <<>> /\ Last(x) = Last(z)
  BY <1>1, <1>3 DEF x, z
<1>5. \A u : Dotless(u) = IF Segments(u) # <<>> /\ Last(Segments(u)) = TwoDots
                          THEN Append(Kept(Segments(u)), <<>>) ELSE Kept(Segments(u))
  BY DEF Dotless, Kept, TwoDots
<1>6. Dotless(e) = (IF x # <<>> /\ Last(x) = TwoDots THEN Append(Kept(x), <<>>) ELSE Kept(x))
  BY <1>5, <1>s
<1>7. Dotless(r) = (IF z # <<>> /\ Last(z) = TwoDots THEN Append(Kept(z), <<>>) ELSE Kept(z))
  BY <1>5, <1>s
<1>8. CASE Last(x) = TwoDots
  BY <1>2, <1>4, <1>6, <1>7, <1>8
<1>9. CASE Last(x) # TwoDots
  BY <1>2, <1>4, <1>6, <1>7, <1>9
<1> QED BY <1>8, <1>9

\* A path goes on with x, which starts with a slash, and v.
LEMMA PathGoesOn ==
  ASSUME NEW p \in Seq(STRING), NEW x \in Seq(STRING), NEW v \in Seq(STRING),
         Lacks(p, "?"), LedBy(p, "/"), Lacks(x, "?"), x # <<>>, LedBy(x, "/"), Lacks(v, "?")
  PROVE  LET e == p \o (x \o v)
         IN e \in Seq(STRING) /\ Lacks(e, "?") /\ LedBy(e, "/") /\ e # <<>>
<1> DEFINE xv == x \o v
           e == p \o xv
<1>1. xv \in Seq(STRING)
  BY Regrouped
<1>2. Lacks(xv, "?")
  BY LacksJoin
<1>3. LedBy(xv, "/")
  <2>1. x # <<>> => x[1] = "/"
    BY DEF LedBy
  <2> QED BY <2>1, StartsJoin
<1>4. xv # <<>>
  BY ConcatEqualIffEmpty
<1> HIDE DEF xv
<1>5. e \in Seq(STRING)
  BY <1>1, Regrouped
<1>6. Lacks(e, "?")
  BY <1>1, <1>2, LacksJoin
<1>7. LedBy(e, "/")
  <2>1. p # <<>> => p[1] = "/"
    BY DEF LedBy
  <2> QED BY <1>1, <1>3, <2>1, StartsJoin
<1>8. e # <<>>
  BY <1>1, <1>4, ConcatEqualIffEmpty
<1> QED BY <1>5, <1>6, <1>7, <1>8 DEF xv

Slash == <<"/">>
Up    == <<"/", "..", "/">>

LEMMA SlashAndUp ==
  /\ Slash \in Seq(STRING) /\ Up \in Seq(STRING) /\ TwoDots \in Seq(STRING)
  /\ Lacks(Slash, "?") /\ Lacks(Up, "?") /\ Slash # <<>> /\ Up # <<>>
  /\ LedBy(Slash, "/") /\ LedBy(Up, "/") /\ Lacks(TwoDots, "/")
  /\ Append(TwoDots, "/") \in Seq(STRING) /\ Slash \o Append(TwoDots, "/") = Up
<1>1. "/" \in STRING /\ ".." \in STRING /\ "/" # "?" /\ ".." # "?" /\ ".." # "/"
  BY PiecesAreText
<1>2. Slash \in Seq(STRING) /\ Up \in Seq(STRING) /\ TwoDots \in Seq(STRING)
  BY <1>1 DEF Slash, Up, TwoDots
<1>3. Lacks(Slash, "?") /\ Lacks(Up, "?") /\ Lacks(TwoDots, "/")
  BY <1>1 DEF Slash, Up, TwoDots, Lacks
<1>4. Slash # <<>> /\ Up # <<>> /\ LedBy(Slash, "/") /\ LedBy(Up, "/")
  BY DEF Slash, Up, LedBy
<1>5. Append(TwoDots, "/") \in Seq(STRING)
  BY <1>1, <1>2, AppendProperties
<1>6. Slash \o Append(TwoDots, "/") = Up
  <2> DEFINE a == "/"
             b == ".."
  <2>1. a \in STRING /\ b \in STRING
    BY <1>1
  <2> HIDE DEF a, b
  <2>2. <<a>> \o Append(<<b>>, a) = <<a, b, a>>
    BY <2>1, ThreePieces
  <2> QED BY <2>2 DEF a, b, Slash, Up, TwoDots
<1> QED BY <1>2, <1>3, <1>4, <1>5, <1>6

\* A path with a text behind it, in an address.
LEMMA AddressGoesOn ==
  ASSUME NEW A \in Seq(STRING), NEW P \in Seq(STRING), NEW X \in Seq(STRING),
         NEW V \in Seq(STRING), NEW W \in Seq(STRING),
         Lacks(A, "/"), Lacks(A, "?"), Lacks(P, "?"), LedBy(P, "/"),
         Lacks(X, "?"), X # <<>>, LedBy(X, "/"), Lacks(V, "?"), LedBy(W, "?")
  PROVE  Parted(A \o P \o X \o (V \o W), A, P \o (X \o V), W)
<1> DEFINE e == P \o (X \o V)
<1>1. e \in Seq(STRING) /\ Lacks(e, "?") /\ LedBy(e, "/") /\ e # <<>>
  BY PathGoesOn
<1>2. A \o P \o X \o (V \o W) = A \o (e \o W)
  <2>1. JoinOfFive(A, P, X, V, W)
    BY JoinFive
  <2> QED BY <2>1 DEF JoinOfFive
<1> HIDE DEF e
<1>3. Parted(A \o P \o X \o (V \o W), A, e, W)
  BY <1>1, <1>2 DEF Parted
<1> QED BY <1>3 DEF e

\* Two dots behind a path are as good as its directory.
LEMMA UpIsFolder ==
  ASSUME NEW P \in Seq(STRING), LedBy(P, "/"), NotUp(P), NEW V \in Seq(STRING)
  PROVE  Dotless(P \o (Up \o V)) = Dotless(Folder(P) \o (Slash \o V))
<1> DEFINE D == Folder(P)
           dots == Append(TwoDots, "/")
           dv == dots \o V
           C == Seq(STRING)
           a == Segments(P)
           d == Segments(D)
           y == Split(V, "/")
<1>1. D \in Seq(STRING) /\ Kept(Append(a, TwoDots)) = Kept(d)
  BY FolderIs
<1> HIDE DEF D
<1>2. /\ Slash \in Seq(STRING) /\ Up \in Seq(STRING) /\ TwoDots \in Seq(STRING)
      /\ Lacks(TwoDots, "/") /\ dots \in Seq(STRING) /\ Slash \o dots = Up
  BY SlashAndUp
<1>s. "/" \in STRING
  BY PiecesAreText
<1> HIDE DEF dots
<1>3. P \o (Up \o V) = Append(P, "/") \o dv
  <2>1. Regroups(Slash, dots, V) /\ dv \in Seq(STRING)
    BY <1>2, Regrouped
  <2> HIDE DEF dv
  <2>2. Regroups(P, Slash, dv)
    BY <1>2, <2>1, Regrouped
  <2>3. Append(P, "/") = P \o Slash
    BY <1>s, AppendIsConcat DEF Slash
  <2>4. Up \o V = Slash \o dv
    BY <1>2, <2>1, Zenon DEF Regroups, dv
  <2> QED BY <2>2, <2>3, <2>4, Zenon DEF Regroups
<1>4. D \o (Slash \o V) = Append(D, "/") \o V
  <2>1. Regroups(D, Slash, V)
    BY <1>1, <1>2, Regrouped
  <2>2. Append(D, "/") = D \o Slash
    BY <1>1, <1>s, AppendIsConcat DEF Slash
  <2> QED BY <2>1, <2>2, Zenon DEF Regroups
<1>5. dv \in Seq(STRING)
  BY <1>2, Regrouped
<1>6. Segments(Append(P, "/") \o dv) = a \o Split(dv, "/") /\ a \in Seq(C)
  <2> HIDE DEF dv
  <2> QED BY <1>5, SegmentsJoin
<1>7. Segments(Append(D, "/") \o V) = d \o y /\ d \in Seq(C) /\ y \in SegmentLists
  BY <1>1, SegmentsJoin
<1>8. Split(dv, "/") = Split(TwoDots, "/") \o y
  BY <1>2, PiecesAreText, CutJoin DEF dots
<1>9. Split(TwoDots, "/") = <<TwoDots>>
  BY <1>2, CutUncut
<1>10. a \o (<<TwoDots>> \o y) = Append(a, TwoDots) \o y
  <2> DEFINE o == <<TwoDots>>
  <2>1. TwoDots \in C /\ y \in Seq(C) /\ a \in Seq(C)
    BY <1>2, <1>6, <1>7 DEF SegmentLists
  <2> HIDE DEF C, a, y
  <2>2. o \in Seq(C)
    BY <2>1, OneOf
  <2>3. Append(a, TwoDots) = a \o o
    BY <2>1, AppendIsConcat
  <2> HIDE DEF o
  <2>4. Regroups(a, o, y)
    BY <2>1, <2>2, Regrouped
  <2> QED BY <2>3, <2>4, Zenon DEF Regroups, o
<1> DEFINE at == Append(a, TwoDots)
<1>11. at \in Seq(C)
  <2> HIDE DEF C, a
  <2>1. TwoDots \in C
    BY <1>2 DEF C
  <2> QED BY <1>6, <2>1, OneMore
<1>12. Segments(P \o (Up \o V)) = at \o y
  BY <1>3, <1>6, <1>8, <1>9, <1>10
<1>13. Segments(D \o (Slash \o V)) = d \o y
  BY <1>4, <1>7
<1> HIDE DEF at, d, y
<1>14. Dotless(P \o (Up \o V)) = Dotless(D \o (Slash \o V))
  BY <1>1, <1>7, <1>11, <1>12, <1>13, DotlessAlike DEF at
<1> QED BY <1>14 DEF D

\* A playlist has been fetched from an address with a host.
Served(s) == QueryBehind(s) /\ NotUp(Path(s))

SameAddress(x, y, A) == Asked(x) = Asked(y) /\ Authority(x) = A

LEMMA SiblingIs ==
  ASSUME NEW base \in Seq(STRING), Served(base), NEW u \in Seq(STRING)
  PROVE  SameAddress(Sibling(u, base), Authority(base) \o Directory(base) \o <<"/">> \o u,
                     Authority(base))
<1> DEFINE A == Authority(base)
           P == Path(base)
           Q == Query(base)
           D == Folder(P)
           V == UpTo(u, "?")
           W == RestAt(u, "?")
           x == A \o P \o Up \o (V \o W)
           y == A \o D \o Slash \o (V \o W)
           e == P \o (Up \o V)
           r == D \o (Slash \o V)
<1>1. Parted(base, A, P, Q)
  BY FetchedParts DEF Served
<1>2. /\ A \in Seq(STRING) /\ P \in Seq(STRING) /\ Lacks(A, "/") /\ Lacks(A, "?")
      /\ Lacks(P, "?") /\ LedBy(P, "/")
  BY <1>1 DEF Parted
<1>3. UpTo(base, "?") = A \o P
  BY <1>1, PartsAre
<1>4. NotUp(P)
  BY DEF Served
<1>5. /\ V \in Seq(STRING) /\ W \in Seq(STRING) /\ V \o W = u
      /\ Lacks(V, "?") /\ LedBy(W, "?")
  BY UpAtSplits
<1>6. Directory(base) = D
  BY DEF Directory, Folder
<1>7. Sibling(u, base) = x
  BY <1>3, <1>5 DEF Sibling, Up
<1>8. Authority(base) \o Directory(base) \o <<"/">> \o u = y
  BY <1>5, <1>6 DEF Slash
<1> HIDE DEF A, P, Q, V, W
<1>9. D \in Seq(STRING) /\ LedBy(D, "/") /\ Lacks(D, "?")
  BY <1>2, <1>4, FolderIs
<1>10. Dotless(e) = Dotless(r)
  BY <1>2, <1>4, <1>5, UpIsFolder
<1> HIDE DEF D
<1>11. /\ Slash \in Seq(STRING) /\ Up \in Seq(STRING)
       /\ Lacks(Slash, "?") /\ Lacks(Up, "?") /\ Slash # <<>> /\ Up # <<>>
       /\ LedBy(Slash, "/") /\ LedBy(Up, "/")
  BY SlashAndUp
<1>12. Parted(x, A, e, W)
  BY <1>2, <1>5, <1>11, AddressGoesOn
<1>13. Parted(y, A, r, W)
  BY <1>2, <1>5, <1>9, <1>11, AddressGoesOn
<1> HIDE DEF x, y, e, r
<1>14. Authority(x) = A /\ Path(x) = e /\ Query(x) = W
  BY <1>12, PartsAre
<1>15. Authority(y) = A /\ Path(y) = r /\ Query(y) = W
  BY <1>13, PartsAre
<1>16. Asked(x) = Asked(y)
  BY <1>10, <1>14, <1>15 DEF Asked
<1> QED BY <1>7, <1>8, <1>14, <1>16 DEF SameAddress, A

-----------------------------------------------------------------------------
(* An address on the playlist's host, through its proxy, beside its file       *)

LEMMA LacksNot == ASSUME NEW s, NEW c PROVE Contains(s, c) <=> ~Lacks(s, c)
BY DEF Contains, Lacks

\* A slash behind a host starts its path.
LEMMA AuthorityStays ==
  ASSUME NEW A \in Seq(STRING), Lacks(A, "/"), Lacks(A, "?"),
         NEW u \in Seq(STRING), u # <<>>, u[1] = "/"
  PROVE  Authority(A \o u) = A
<1> DEFINE V == UpTo(u, "?")
           W == RestAt(u, "?")
<1>1. /\ V \in Seq(STRING) /\ W \in Seq(STRING) /\ V \o W = u
      /\ Lacks(V, "?") /\ LedBy(W, "?")
  BY UpAtSplits
<1> HIDE DEF V, W
<1>2. LedBy(V, "/") /\ (V = <<>> => LedBy(W, "/"))
  <2>1. LedBy(V \o W, "/")
    BY <1>1 DEF LedBy
  <2> QED BY <1>1, <2>1, PartStarts
<1>3. V = <<>> => W = <<>>
  <2> SUFFICES ASSUME V = <<>>, W # <<>> PROVE FALSE
    OBVIOUS
  <2>1. IsSlash(W[1]) /\ IsMark(W[1])
    BY <1>1, <1>2 DEF LedBy, IsSlash, IsMark
  <2> QED BY <2>1, SlashIsNoMark
<1>4. Parted(A \o u, A, V, W)
  BY <1>1, <1>2, <1>3 DEF Parted
<1> QED BY <1>4, PartsAre

\* A playlist's address that has been fetched.
IsServed(s) == /\ s \in Seq(STRING) /\ Len(s) > 1 /\ s[1] \in Schemes /\ s[2] # "/"
               /\ Served(s)

LEMMA RootedIs ==
  ASSUME NEW base, IsServed(base), NEW u \in Seq(STRING), u # <<>>, u[1] = "/",
         ~(Len(u) > 1 /\ u[2] = "/")
  PROVE  Rooted(u, base) = Authority(base) \o u /\ Authority(Rooted(u, base)) = Authority(base)
<1> DEFINE A == Authority(base)
           h == Host(base)
<1>1. /\ base \in Seq(STRING) /\ Len(base) > 1 /\ base[1] \in Schemes /\ base[2] # "/"
      /\ QueryBehind(base) /\ base # <<>>
  <2>1. Len(<<>>) = 0
    OBVIOUS
  <2> QED BY <2>1 DEF IsServed, Served
<1>2. Parted(base, A, Path(base), Query(base)) /\ A = UpTo(base, "/")
  BY <1>1, FetchedParts
<1>3. h # <<>> /\ UpTo(base, "/") = <<base[1]>> \o h
  BY <1>1, HostIs
<1>4. A \in Seq(STRING) /\ Lacks(A, "/") /\ Lacks(A, "?")
  BY <1>2 DEF Parted
<1>5. Rooted(u, base) = <<base[1]>> \o h \o u
  BY <1>3 DEF Rooted
<1> HIDE DEF A, h
<1>6. Rooted(u, base) = A \o u
  BY <1>2, <1>3, <1>5
<1>7. Authority(A \o u) = A
  BY <1>4, AuthorityStays
<1> QED BY <1>6, <1>7 DEF A

LEMMA ProxyIs ==
  ASSUME NEW t \in Seq(STRING)
  PROVE  Contains(Authority(<<"http://", Marker, "/">> \o t), Marker)
<1> DEFINE scheme == "http://"
           slash == "/"
           A == <<scheme, Marker>>
           V == UpTo(t, "?")
           W == RestAt(t, "?")
           o == <<>>
<1>1. /\ scheme \in STRING /\ Marker \in STRING /\ slash \in STRING
      /\ scheme \notin {"/", "?"} /\ Marker \notin {"/", "?"}
  BY PiecesAssumption DEF Http
<1>2. /\ V \in Seq(STRING) /\ W \in Seq(STRING) /\ V \o W = t
      /\ Lacks(V, "?") /\ LedBy(W, "?")
  BY UpAtSplits
<1>3. A \in Seq(STRING) /\ Len(A) = 2 /\ A[1] = scheme /\ A[2] = Marker
  BY <1>1
<1>4. A \o <<slash>> = <<scheme, Marker, slash>>
  <2> HIDE DEF scheme, slash
  <2> DEFINE s == A \o <<slash>>
             x == <<scheme, Marker, slash>>
  <2>1. <<slash>> \in Seq(STRING) /\ Len(<<slash>>) = 1 /\ <<slash>>[1] = slash
    BY <1>1, OneOf
  <2>2. x \in Seq(STRING) /\ Len(x) = 3 /\ x[1] = scheme /\ x[2] = Marker /\ x[3] = slash
    BY <1>1
  <2> DEFINE p == <<slash>>
  <2> HIDE DEF A, p, x
  <2>3. /\ s \in Seq(STRING) /\ Len(s) = Len(A) + Len(p)
        /\ \A i \in 1..(Len(A) + Len(p)) : s[i] = IF i <= Len(A) THEN A[i] ELSE p[i - Len(A)]
    BY <1>3, <2>1, ConcatProperties DEF p
  <2> HIDE DEF s
  <2>4. Len(s) = 3 /\ s[1] = x[1] /\ s[2] = x[2] /\ s[3] = x[3]
    BY <1>3, <2>1, <2>2, <2>3 DEF p
  <2>5. \A i \in 1..Len(s) : s[i] = x[i]
    <3>1. \A i \in 1..Len(s) : i = 1 \/ i = 2 \/ i = 3
      BY <2>4
    <3> QED BY <2>4, <3>1
  <2>6. s = x
    BY <2>2, <2>3, <2>4, <2>5, SeqEqual
  <2> QED BY <2>6 DEF s, x, p
<1> HIDE DEF V, W, A
<1>5. Lacks(A, "/") /\ Lacks(A, "?")
  <2>1. \A i \in 1..Len(A) : i = 1 \/ i = 2
    BY <1>3
  <2> QED BY <1>1, <1>3, <2>1 DEF Lacks
<1>6. /\ Slash \in Seq(STRING) /\ Lacks(Slash, "?") /\ Slash # <<>> /\ LedBy(Slash, "/")
  BY SlashAndUp
<1>7. o \in Seq(STRING) /\ Lacks(o, "?") /\ LedBy(o, "/") /\ A \o o = A
  BY <1>3, EmptySeq, ConcatEmptySeq DEF Lacks, LedBy
<1> HIDE DEF o
<1>8. Parted(A \o o \o Slash \o (V \o W), A, o \o (Slash \o V), W)
  BY <1>2, <1>3, <1>5, <1>6, <1>7, AddressGoesOn
<1>9. Authority(A \o o \o Slash \o (V \o W)) = A
  BY <1>8, PartsAre
<1>10. A \o o \o Slash \o (V \o W) = <<scheme, Marker, slash>> \o t
  BY <1>2, <1>4, <1>7 DEF Slash, slash
<1>11. Contains(A, Marker)
  <2>1. 2 \in 1..Len(A)
    BY <1>3
  <2> QED BY <1>3, <2>1 DEF Contains
<1> QED BY <1>9, <1>10, <1>11 DEF scheme, slash

LEMMA InFolderIs ==
  ASSUME NEW base \in Seq(STRING), NEW u \in Seq(STRING)
  PROVE  InFolder(u, base) = FolderOf(base) \o u
<1> DEFINE c == IF Contains(base, "/") THEN "/" ELSE "\\"
           m == LastAt(base, c)
           d == SubSeq(base, 1, m - 1)
           at == {i \in DOMAIN base : base[i] = c}
<1>1. at = Places(base, c)
  BY DEF Places
<1>2. InFolder(u, base) = IF UpToLast(base, c) = NULL THEN u ELSE UpToLast(base, c) \o <<c>> \o u
  BY DEF InFolder
<1>3. FolderOf(base) = IF at = {} THEN <<>> ELSE SubSeq(base, 1, Max(at))
  BY DEF FolderOf
<1> HIDE DEF c, at
<1>4. CASE ~Contains(base, c)
  <2>1. UpToLast(base, c) = NULL /\ at = {}
    BY <1>1, <1>4, LastIs
  <2> QED BY <1>2, <1>3, <2>1, ConcatEmptySeq
<1>5. CASE Contains(base, c)
  <2>1. IsLastAt(base, c, m) /\ UpToLast(base, c) = d /\ at # {} /\ Max(at) = m
    BY <1>1, <1>5, LastIs DEF LastAt
  <2> HIDE DEF m
  <2>2. c \in STRING
    BY <2>1 DEF IsLastAt
  <2>3. Around(base, c, m, d, SubSeq(base, 1, m), SubSeq(base, m + 1, Len(base)))
    BY <2>1, <2>2, LastCuts
  <2> HIDE DEF d
  <2>4. d \in Seq(STRING) /\ SubSeq(base, 1, m) = Append(d, c)
    BY <2>3 DEF Around
  <2>5. Append(d, c) = d \o <<c>>
    BY <2>2, <2>4, AppendIsConcat
  <2>6. d # NULL
    BY <2>4, PiecesAssumption
  <2> QED BY <1>2, <1>3, <2>1, <2>4, <2>5, <2>6
<1> QED BY <1>4, <1>5

-----------------------------------------------------------------------------
(* Every address                                                               *)

\* What AddressResolved says of a text u and a playlist's address.
ResolvedBy(u, base) ==
  /\ base[1] \in Schemes /\ (IsAbsolute(u) => ~Contains(base, Marker) \/ Contains(u, Marker))
     => Asked(Extended(u, base)) = Asked(Reference(u, base))
  /\ base[1] \notin Schemes /\ u[1] \notin Http \cup {"/"} =>
       Extended(u, base) = FolderOf(base) \o u
  /\ /\ base[1] \in Schemes /\ Contains(Authority(base), Marker)
     /\ IsAbsolute(u) => ~Contains(u, Marker)
     /\ ~(u[1] = "/" /\ Len(u) > 1 /\ u[2] = "/")
     => Contains(Authority(Extended(u, base)), Marker)

\* An address in a playlist has a known scheme or none.
IsKnown(u) == u \in Seq(STRING) /\ u # <<>> /\ (u[1] \in Schemes => u[1] \in Http)

LEMMA BaseIs ==
  ASSUME NEW base \in Bases
  PROVE  /\ base \in Seq(STRING)
         /\ (\E i \in DOMAIN base : base[i] \in Schemes) <=> base[1] \in Schemes
         /\ base[1] \in Schemes => IsServed(base)
<1>1. /\ base \in Seq(STRING) \ {<<>>}
      /\ \A i \in 2..Len(base) : base[i] \notin Schemes
      /\ base[1] \in Schemes => IsFetched(base)
  BY BasesAssumption
<1>2. (\E i \in DOMAIN base : base[i] \in Schemes) <=> base[1] \in Schemes
  <2>1. DOMAIN base = 1..Len(base) /\ 1 \in 1..Len(base) /\ Len(base) \in Nat
    BY <1>1
  <2>2. \A i \in 1..Len(base) : i = 1 \/ i \in 2..Len(base)
    BY <2>1
  <2> QED BY <1>1, <2>1, <2>2
<1>3. base[1] \in Schemes => IsServed(base)
  BY <1>1 DEF IsFetched, IsServed, Served, QueryBehind, NotUp
<1> QED BY <1>1, <1>2, <1>3

\* An address with a scheme.
LEMMA AbsoluteResolved ==
  ASSUME NEW u, IsKnown(u), NEW base \in Bases, u[1] \in Http
  PROVE  ResolvedBy(u, base)
<1>1. IsAbsolute(u) /\ u[1] \in Schemes /\ u \in Seq(STRING)
  BY PiecesAssumption DEF IsAbsolute, IsKnown
<1>2. Extended(u, base) = ViaProxy(u, base) /\ Reference(u, base) = u
  BY <1>1 DEF Extended, Reference
<1>3. ~Contains(base, Marker) \/ Contains(u, Marker) => ViaProxy(u, base) = u
  BY DEF ViaProxy
<1>4. ASSUME Contains(base, Marker), ~Contains(u, Marker)
      PROVE  Contains(Authority(ViaProxy(u, base)), Marker)
  <2>1. Tail(u) \in Seq(STRING)
    BY <1>1, HeadTailProperties DEF IsKnown
  <2>2. ViaProxy(u, base) = <<"http://", Marker, "/">> \o Tail(u)
    BY <1>4 DEF ViaProxy
  <2> QED BY <2>1, <2>2, ProxyIs
<1>5. ASSUME base[1] \in Schemes, Contains(Authority(base), Marker) PROVE Contains(base, Marker)
  <2> DEFINE A == Authority(base)
             t == Path(base) \o Query(base)
  <2>1. IsServed(base)
    BY <1>5, BaseIs
  <2>2. Parted(base, A, Path(base), Query(base))
    BY <2>1, FetchedParts DEF IsServed, Served
  <2>3. A \in Seq(STRING) /\ t \in Seq(STRING) /\ base = A \o t
    BY <2>2, Regrouped DEF Parted
  <2> HIDE DEF A, t
  <2>4. Lacks(A \o t, Marker) => Lacks(A, Marker)
    BY <2>3, LacksJoin
  <2> QED BY <1>5, <2>3, <2>4, LacksNot DEF A
<1> QED BY <1>1, <1>2, <1>3, <1>4, <1>5 DEF ResolvedBy

\* An address that starts with a slash.
LEMMA RootedResolved ==
  ASSUME NEW u, IsKnown(u), NEW base \in Bases, u[1] = "/"
  PROVE  ResolvedBy(u, base)
<1>1. u \in Seq(STRING) /\ u # <<>> /\ u[1] \notin Schemes /\ u[1] \notin Http /\ ~IsAbsolute(u)
  BY PiecesAssumption DEF IsAbsolute, IsKnown
<1>2. Extended(u, base) = Rooted(u, base)
  BY <1>1 DEF Extended
<1>3. CASE base[1] \notin Schemes
  BY <1>3 DEF ResolvedBy
<1>4. CASE base[1] \in Schemes
  <2>1. IsServed(base)
    BY <1>4, BaseIs
  <2>2. CASE Len(u) > 1 /\ u[2] = "/"
    <3>1. Reference(u, base) = <<base[1]>> \o SubSeq(u, 3, Len(u))
      BY <1>1, <2>2 DEF Reference
    <3>2. Rooted(u, base) = <<base[1]>> \o SubSeq(u, 3, Len(u))
      <4>1. base \in Seq(STRING) /\ base # <<>> /\ Len(base) > 1 /\ base[2] # "/"
        <5>1. Len(<<>>) = 0
          OBVIOUS
        <5> QED BY <2>1, <5>1 DEF IsServed
      <4>2. Host(base) # <<>>
        BY <1>4, <4>1, HostIs
      <4> QED BY <2>2, <4>2 DEF Rooted
    <3> QED BY <1>2, <1>4, <2>2, <3>1, <3>2 DEF ResolvedBy
  <2>3. CASE ~(Len(u) > 1 /\ u[2] = "/")
    <3>1. Rooted(u, base) = Authority(base) \o u /\ Authority(Rooted(u, base)) = Authority(base)
      BY <1>1, <2>1, <2>3, RootedIs
    <3>2. Reference(u, base) = Authority(base) \o u
      BY <1>1, <2>3 DEF Reference
    <3> QED BY <1>2, <1>4, <3>1, <3>2 DEF ResolvedBy
  <2> QED BY <2>2, <2>3
<1> QED BY <1>3, <1>4

\* An address with neither.
LEMMA RelativeResolved ==
  ASSUME NEW u, IsKnown(u), NEW base \in Bases, u[1] \notin Http, u[1] # "/"
  PROVE  ResolvedBy(u, base)
<1>1. u \in Seq(STRING) /\ u # <<>> /\ u[1] \notin Schemes /\ ~IsAbsolute(u)
  BY DEF IsAbsolute, IsKnown
<1>b. base \in Seq(STRING) /\ ((\E i \in DOMAIN base : base[i] \in Schemes) <=> base[1] \in Schemes)
  BY BaseIs
<1>2. CASE base[1] \notin Schemes
  <2>1. Extended(u, base) = InFolder(u, base)
    BY <1>1, <1>2, <1>b DEF Extended
  <2>2. InFolder(u, base) = FolderOf(base) \o u
    BY <1>1, <1>b, InFolderIs
  <2> QED BY <1>2, <2>1, <2>2 DEF ResolvedBy
<1>3. CASE base[1] \in Schemes
  <2>1. Extended(u, base) = Sibling(u, base)
    BY <1>1, <1>3, <1>b DEF Extended
  <2>2. Served(base)
    BY <1>3, BaseIs DEF IsServed
  <2> DEFINE r == Authority(base) \o Directory(base) \o <<"/">> \o u
  <2>3. SameAddress(Sibling(u, base), r, Authority(base))
    BY <1>1, <1>b, <2>2, SiblingIs
  <2>4. Reference(u, base) = r
    BY <1>1 DEF Reference
  <2> HIDE DEF r
  <2> QED BY <1>3, <2>1, <2>3, <2>4 DEF ResolvedBy, SameAddress
<1> QED BY <1>2, <1>3

\* An address of a segment, a key or a playlist is asked for where the rules for
\* relative references put it, for addresses of any length, with any dot segments,
\* and for every playlist; beside a playlist that is a file; through the proxy.
THEOREM AddressAlwaysResolved == Spec => []AddressResolved
<1> DEFINE Inv == alphabet \in Alphabets /\ text \in Seq(alphabet.chars)
<1>1. Init => Inv
  BY EmptySeq DEF Init
<1>2. Inv /\ [Next]_<<alphabet, text>> => Inv'
  <2> SUFFICES ASSUME Inv, [Next]_<<alphabet, text>> PROVE Inv'
    OBVIOUS
  <2>1. CASE Next
    <3>1. PICK c \in alphabet.chars : Type(c)
      BY <2>1 DEF Next
    <3>2. Append(text, c) \in Seq(alphabet.chars)
      BY AppendProperties
    <3> QED BY <3>1, <3>2 DEF Type
  <2>2. CASE UNCHANGED <<alphabet, text>>
    BY <2>2
  <2> QED BY <2>1, <2>2
<1>3. Inv /\ text \in Seq(STRING) => AddressResolved
  <2> SUFFICES ASSUME Inv, text \in Seq(STRING), IsAddress(text), NEW base \in Bases
      PROVE  ResolvedBy(text, base)
    BY DEF AddressResolved, ResolvedBy
  <2>1. text # <<>>
    BY DEF IsAddress
  <2>2. text[1] \in alphabet.chars
    BY <2>1
  <2>3. IsKnown(text)
    BY <2>1, <2>2, PiecesAssumption DEF IsKnown
  <2> QED BY <2>3, AbsoluteResolved, RootedResolved, RelativeResolved
<1> QED BY <1>1, <1>2, <1>3, Typed, PTL DEF Spec

-----------------------------------------------------------------------------
(* Audio frames                                                                *)

Headers(s)     == {p \in 1..(Len(s) - HeaderSize) : s[p] \in DOMAIN FrameLength}
FrameEnd(s, p) == p + FrameLength[s[p]]

LEMMA FrameLengths ==
  ASSUME NEW s \in Seq(STRING), NEW p \in Headers(s)
  PROVE  /\ p \in 1..(Len(s) - 1) /\ FrameLength[s[p]] \in Nat \ {0}
         /\ FrameEnd(s, p) \in Nat /\ FrameEnd(s, p) > p
<1>1. p \in 1..(Len(s) - 1) /\ s[p] \in {"F1", "F5", "F8"}
  BY DEF Headers, HeaderSize, FrameLength
<1>2. FrameLength[s[p]] \in Nat \ {0}
  BY <1>1 DEF FrameLength
<1> QED BY <1>1, <1>2 DEF FrameEnd

\* The next frame is whole and begins at the first header, if it is one.
LEMMA FrameNext ==
  ASSUME NEW s \in Seq(STRING), NEW k \in 1..(Len(s) + 1)
  PROVE  \/ /\ NextFrame(s, k) = 0
            /\ \A h \in Headers(s) : h >= k =>
                 \E c \in Headers(s) : k <= c /\ c <= h /\ FrameEnd(s, c) > Len(s) + 1
         \/ /\ NextFrame(s, k) \in Headers(s)
            /\ NextFrame(s, k) >= k /\ NextFrame(s, k) # 0
            /\ FrameEnd(s, NextFrame(s, k)) \in (k + 1)..(Len(s) + 1)
            /\ \A h \in Headers(s) : h >= k => h >= NextFrame(s, k)
<1> DEFINE at == {p \in k..(Len(s) - HeaderSize) : s[p] \in DOMAIN FrameLength}
           m  == Min(at)
<1>1. /\ at \in SUBSET Nat /\ IsFiniteSet(at)
      /\ \A h : h \in at <=> h \in Headers(s) /\ h >= k
  <2>1. k \in Int /\ Len(s) - HeaderSize \in Int
    BY DEF HeaderSize
  <2>2. IsFiniteSet(k..(Len(s) - HeaderSize))
    BY <2>1, FS_Interval
  <2>3. IsFiniteSet(at)
    BY <2>2, FS_Subset
  <2>4. at \in SUBSET Nat
    BY <2>1
  <2>5. \A h : h \in at <=> h \in Headers(s) /\ h >= k
    BY <2>1 DEF Headers
  <2> QED BY <2>3, <2>4, <2>5
<1>2. NextFrame(s, k) = IF at = {} \/ m + FrameLength[s[m]] - 1 > Len(s) THEN 0 ELSE m
  BY DEF NextFrame
<1>3. at # {} => m \in at /\ \A h \in at : m <= h
  BY <1>1, MaxOfFinite
<1> HIDE DEF at, m
<1>4. CASE at = {}
  BY <1>1, <1>2, <1>4
<1>5. CASE at # {}
  <2>1. m \in Headers(s) /\ m >= k /\ \A h \in Headers(s) : h >= k => h >= m
    <3>1. m \in Headers(s) /\ m >= k
      BY <1>1, <1>3, <1>5
    <3>2. ASSUME NEW h \in Headers(s), h >= k PROVE h >= m
      <4>1. h \in at
        BY <1>1, <3>2
      <4>2. m <= h /\ m \in Nat /\ h \in Nat
        BY <1>1, <1>3, <4>1
      <4> QED BY <4>2
    <3> QED BY <3>1, <3>2
  <2>2. /\ m \in 1..(Len(s) - 1) /\ FrameLength[s[m]] \in Nat \ {0}
        /\ FrameEnd(s, m) = m + FrameLength[s[m]] /\ FrameEnd(s, m) \in Nat /\ FrameEnd(s, m) > m
    BY <2>1, FrameLengths DEF FrameEnd
  <2>3. CASE FrameEnd(s, m) > Len(s) + 1
    <3>1. m + FrameLength[s[m]] - 1 > Len(s)
      BY <2>2, <2>3
    <3>2. NextFrame(s, k) = 0
      BY <1>2, <3>1
    <3>3. ASSUME NEW h \in Headers(s), h >= k
          PROVE  \E c \in Headers(s) : k <= c /\ c <= h /\ FrameEnd(s, c) > Len(s) + 1
      <4>1. k <= m /\ m <= h
        <5>1. h >= m /\ h \in Nat /\ m \in Nat
          BY <2>1, <2>2, <3>3, FrameLengths
        <5> QED BY <2>1, <5>1
      <4> QED BY <2>1, <2>3, <4>1
    <3> QED BY <3>2, <3>3
  <2>4. CASE FrameEnd(s, m) <= Len(s) + 1
    <3>1. ~(m + FrameLength[s[m]] - 1 > Len(s))
      BY <2>2, <2>4
    <3>2. NextFrame(s, k) = m
      BY <1>2, <1>5, <3>1
    <3>3. m # 0 /\ FrameEnd(s, m) \in (k + 1)..(Len(s) + 1)
      BY <2>1, <2>2, <2>4
    <3> QED BY <2>1, <3>2, <3>3
  <2>5. FrameEnd(s, m) > Len(s) + 1 \/ FrameEnd(s, m) <= Len(s) + 1
    BY <2>2
  <2> QED BY <2>3, <2>4, <2>5
<1> QED BY <1>4, <1>5

\* m bytes from k on that no block opens, and the bytes of the frame at p.
Plain(s, k, m) == [x \in 1..m |-> <<s[k + x - 1], -1>>]

FrameBytes(s, p) ==
  [x \in 1..FrameLength[s[p]] |->
     LET at == x - 1 - AudioLeader
     IN IF at \in 0..(EncryptedSize(FrameLength[s[p]]) - 1)
        THEN <<s[p + x - 1], at \div AudioBlock>> ELSE <<s[p + x - 1], -1>>]

LEMMA PlainAndFrame ==
  ASSUME NEW s \in Seq(STRING)
  PROVE  /\ \A k \in 1..(Len(s) + 1) : \A m \in 0..(Len(s) + 1 - k) :
               Plain(s, k, m) \in Marked /\ Len(Plain(s, k, m)) = m
         /\ \A p \in Headers(s) : FrameEnd(s, p) <= Len(s) + 1 =>
               FrameBytes(s, p) \in Marked /\ Len(FrameBytes(s, p)) = FrameLength[s[p]]
<1>1. ASSUME NEW k \in 1..(Len(s) + 1), NEW m \in 0..(Len(s) + 1 - k)
      PROVE  Plain(s, k, m) \in Marked /\ Len(Plain(s, k, m)) = m
  <2>1. \A x \in 1..m : k + x - 1 \in 1..Len(s)
    OBVIOUS
  <2>2. \A x \in 1..m : <<s[k + x - 1], -1>> \in STRING \X Int
    BY <2>1
  <2> QED BY <2>2 DEF Plain, Marked
<1>2. ASSUME NEW p \in Headers(s), FrameEnd(s, p) <= Len(s) + 1
      PROVE  FrameBytes(s, p) \in Marked /\ Len(FrameBytes(s, p)) = FrameLength[s[p]]
  <2> DEFINE size == FrameLength[s[p]]
             val(x) == IF x - 1 - AudioLeader \in 0..(EncryptedSize(size) - 1)
                       THEN <<s[p + x - 1], (x - 1 - AudioLeader) \div AudioBlock>>
                       ELSE <<s[p + x - 1], -1>>
  <2>1. p \in 1..(Len(s) - 1) /\ size \in Nat /\ p + size <= Len(s) + 1
    BY <1>2, FrameLengths DEF FrameEnd
  <2> HIDE DEF size
  <2>2. ASSUME NEW x \in 1..size PROVE val(x) \in STRING \X Int
    <3>1. p + x - 1 \in 1..Len(s)
      BY <2>1
    <3>2. s[p + x - 1] \in STRING
      BY <3>1
    <3>3. (x - 1 - AudioLeader) \div AudioBlock \in Int
      BY DEF AudioLeader, AudioBlock
    <3> QED BY <3>2, <3>3
  <2>3. FrameBytes(s, p) = [x \in 1..size |-> val(x)]
    BY DEF FrameBytes, size
  <2> HIDE DEF val
  <2>4. FrameBytes(s, p) \in [1..size -> STRING \X Int]
    BY <2>2, <2>3
  <2>5. FrameBytes(s, p) \in Marked /\ Len(FrameBytes(s, p)) = size
    BY <2>1, <2>4 DEF Marked
  <2> QED BY <2>5 DEF size
<1> QED BY <1>1, <1>2

\* g has the marked bytes from each position on.
Opens(g, s) ==
  \A k \in 1..(Len(s) + 1) :
    /\ g[k] \in Marked
    /\ g[k] = IF NextFrame(s, k) = 0 THEN Plain(s, k, Len(s) + 1 - k)
              ELSE Plain(s, k, NextFrame(s, k) - k) \o FrameBytes(s, NextFrame(s, k))
                     \o g[FrameEnd(s, NextFrame(s, k))]

LEMMA AudioOpens ==
  ASSUME NEW s \in Seq(STRING)
  PROVE  \E g : Opens(g, s) /\ OpenAudio(s) = g[1]
<1> DEFINE n == Len(s) + 1
           p(k) == NextFrame(s, k)
           base == [k \in 1..n |-> Plain(s, k, Len(s) + 1 - k)]
           head == [k \in 1..n |-> Plain(s, k, p(k) - k) \o FrameBytes(s, p(k))]
           next == [k \in 1..n |-> FrameEnd(s, p(k))]
           ends == {k \in 1..n : p(k) = 0}
           step == [x \in (1..n) \X Marked |-> IF x[1] \in ends THEN <<>> ELSE head[x[1]] \o x[2]]
           Step(g, k) == IF p(k) = 0 THEN Plain(s, k, Len(s) + 1 - k)
                          ELSE Plain(s, k, p(k) - k) \o FrameBytes(s, p(k)) \o g[FrameEnd(s, p(k))]
           Loop(g) == g = [k \in 1..n |-> Step(g, k)]
           F == CHOOSE g : Loop(g)
<1>1. n \in Nat /\ n = Len(s) + 1 /\ \A k \in 1..n : k \in ends <=> p(k) = 0
  OBVIOUS
<1>2. \A k \in 1..n : /\ base[k] = Plain(s, k, Len(s) + 1 - k) /\ next[k] = FrameEnd(s, p(k))
                      /\ head[k] = Plain(s, k, p(k) - k) \o FrameBytes(s, p(k))
  OBVIOUS
<1>3. OpenAudio(s) = F[1]
  BY DEF OpenAudio, FrameBytes, Plain, FrameEnd
<1>4. \A x \in Marked : \A y \in Marked : x \o y \in Marked
  BY DEF Marked
<1>5. ASSUME NEW k \in 1..n PROVE base[k] \in Marked
  <2>1. Len(s) + 1 - k \in 0..(Len(s) + 1 - k)
    OBVIOUS
  <2> HIDE DEF n, base
  <2> QED BY <1>1, <1>2, <2>1, PlainAndFrame
<1>6. ASSUME NEW k \in 1..n, k \notin ends PROVE head[k] \in Marked /\ next[k] \in (k + 1)..n
  <2>1. /\ p(k) \in Headers(s) /\ p(k) >= k
        /\ FrameEnd(s, p(k)) \in (k + 1)..n
    BY <1>1, <1>6, FrameNext
  <2> DEFINE q == p(k)
  <2>2. q \in 1..Len(s) /\ q - k \in 0..(Len(s) + 1 - k)
    BY <2>1, FrameLengths
  <2>3. Plain(s, k, q - k) \in Marked
    BY <2>2, PlainAndFrame
  <2>4. FrameBytes(s, q) \in Marked
    BY <2>1, PlainAndFrame
  <2> QED BY <1>2, <1>4, <2>1, <2>3, <2>4
<1> HIDE DEF base, head, next, ends
<1>7. step \in [(1..n) \X Marked -> Marked]
  <2>1. <<>> \in Marked
    BY DEF Marked
  <2> HIDE DEF n
  <2> QED BY <1>4, <1>6, <2>1
<1>8. \A k \in 1..n : k \notin ends => \A w \in Marked : step[<<k, w>>] = head[k] \o w
  OBVIOUS
<1>9. base \in [1..n -> Marked]
  BY <1>5 DEF base
<1> HIDE DEF step
<1>10. PICK g \in [1..n -> Marked] : Jumps(g, n, ends, base, step, next)
  <2>1. Forward(n, ends, next)
    BY <1>6 DEF Forward
  <2> HIDE DEF n
  <2> QED BY <1>1, <1>7, <1>9, <2>1, JumpRecursion
<1>11. Loop(g)
  <2>1. ASSUME NEW k \in 1..n PROVE g[k] = Step(g, k)
    <3>1. g[k] = IF k \in ends THEN base[k] ELSE step[<<k, g[next[k]]>>]
      BY <1>10 DEF Jumps
    <3>2. CASE k \in ends
      BY <1>1, <1>2, <3>1, <3>2
    <3>3. CASE k \notin ends
      <4>1. next[k] \in 1..n
        BY <1>1, <1>6, <3>3
      <4>2. g[next[k]] \in Marked
        BY <4>1
      <4> QED BY <1>1, <1>2, <1>8, <3>1, <3>3, <4>2
    <3> QED BY <3>2, <3>3
  <2> HIDE DEF Step
  <2> QED BY <2>1
<1>12. Loop(F)
  BY <1>11
<1> HIDE DEF F
<1>13. \A k \in 1..n : F[k] = Step(F, k)
  <2> HIDE DEF Step
  <2> QED BY <1>12
<1> HIDE DEF Loop
<1> DEFINE T == {k \in 1..n : F[k] \in Marked}
<1>14. ASSUME NEW k \in 1..n, \A j \in 1..n : j > k => j \in T PROVE k \in T
  <2>1. CASE k \in ends
    <3>1. F[k] = base[k]
      BY <1>1, <1>2, <1>13, <2>1
    <3> QED BY <1>5, <3>1
  <2>2. CASE k \notin ends
    <3> DEFINE l == next[k]
    <3>1. l \in 1..n /\ l > k
      BY <1>1, <1>6, <2>2
    <3>2. F[l] \in Marked
      BY <1>14, <3>1
    <3>3. F[k] = head[k] \o F[l]
      BY <1>1, <1>2, <1>13, <2>2
    <3> HIDE DEF l
    <3>4. F[k] \in Marked
      BY <1>4, <1>6, <2>2, <3>2, <3>3
    <3> QED BY <3>4
  <2> QED BY <2>1, <2>2
<1>15. T = 1..n
  <2>1. T \in SUBSET (1..n)
    OBVIOUS
  <2> HIDE DEF T
  <2> QED BY <1>1, <1>14, <2>1, DownInduction
<1>16. Opens(F, s)
  BY <1>1, <1>13, <1>15 DEF Opens
<1> QED BY <1>3, <1>16

Covers(s, p, j) == p <= j /\ j < FrameEnd(s, p)
BlockOf(p, j)   == (j - p - AudioLeader) \div AudioBlock

\* The frame at p has byte j in a whole block behind its leader.
IsOpened(s, p, j) ==
  /\ Covers(s, p, j) /\ BlockOf(p, j) >= 0
  /\ p + AudioLeader + AudioBlock * (BlockOf(p, j) + 1) <= FrameEnd(s, p)

OpenedBy(s, frames, j) == {p \in frames : IsOpened(s, p, j)}

MarkOf(opened, j)  == IF opened = {} THEN -1 ELSE BlockOf(CHOOSE p \in opened : TRUE, j)
Mark(s, frames, j) == MarkOf(OpenedBy(s, frames, j), j)

\* The frames from k on are these.
FramesFrom(s, frames, k) ==
  /\ frames \subseteq {h \in Headers(s) : h >= k}
  /\ \A p \in frames : FrameEnd(s, p) <= Len(s) + 1
  /\ \A p, q \in frames : Covers(s, p, q) => p = q
  /\ \A h \in Headers(s) \ frames : h >= k =>
       \/ \E p \in frames : Covers(s, p, h)
       \/ \E c \in Headers(s) : /\ k <= c /\ c <= h /\ FrameEnd(s, c) > Len(s) + 1
                                /\ \A p \in frames : FrameEnd(s, p) <= c

\* The bytes r from k on are marked as these frames demand.
MarkedBy(s, frames, k, r) ==
  \A j \in k..Len(s) : r[(j + 1) - k] = <<s[j], Mark(s, frames, j)>>

LEMMA FrameMarks ==
  ASSUME NEW s \in Seq(STRING), NEW p \in Headers(s), NEW j \in p..(FrameEnd(s, p) - 1)
  PROVE  FrameBytes(s, p)[(j + 1) - p] =
           <<s[j], IF IsOpened(s, p, j) THEN BlockOf(p, j) ELSE -1>>
<1> DEFINE size == FrameLength[s[p]]
           x == (j + 1) - p
           at == x - 1 - AudioLeader
<1>1. /\ p \in Nat /\ size \in Nat /\ FrameEnd(s, p) = p + size /\ j \in Int
      /\ p <= j /\ j < p + size
  <2>1. p \in Nat /\ size \in Nat /\ FrameEnd(s, p) = p + size
    BY FrameLengths DEF FrameEnd
  <2> QED BY <2>1
<1>2. /\ AudioLeader = 2 /\ AudioBlock = 2
  BY DEF AudioLeader, AudioBlock
<1> HIDE DEF size
<1>3. x \in 1..size /\ p + x - 1 = j /\ at = (j - p) - 2
  BY <1>1, <1>2
<1>4. FrameBytes(s, p)[x] = IF at \in 0..(EncryptedSize(size) - 1)
                            THEN <<s[p + x - 1], at \div AudioBlock>> ELSE <<s[p + x - 1], -1>>
  <2> HIDE DEF x
  <2> QED BY <1>3 DEF FrameBytes, size
<1> HIDE DEF x
<1> DEFINE a == (j - p) - 2
           b == a \div 2
           e == (size - 2) \div 2
<1>5. BlockOf(p, j) = b /\ at \div AudioBlock = b /\ at = a /\ a \in Int
  BY <1>1, <1>2, <1>3 DEF BlockOf
<1>6. EncryptedSize(size) = IF size > 2 THEN e * 2 ELSE 0
  BY <1>2 DEF EncryptedSize
<1>7. at \in 0..(EncryptedSize(size) - 1) <=> IsOpened(s, p, j)
  <2>1. IsOpened(s, p, j) <=> b >= 0 /\ p + 2 + 2 * (b + 1) <= p + size
    BY <1>1, <1>2, <1>5 DEF IsOpened, Covers
  <2>2. b \in Int /\ a \in Int /\ 2 * b <= a /\ a < 2 * b + 2
    BY <1>1
  <2>3. e \in Int /\ 2 * e <= size - 2 /\ size - 2 < 2 * e + 2
    BY <1>1
  <2>4. at \in 0..(EncryptedSize(size) - 1) <=> 0 <= a /\ a <= e * 2 - 1
    <3> HIDE DEF a, e
    <3>1. CASE size > 2
      BY <3>1, <1>5, <1>6, <2>3
    <3>2. CASE ~(size > 2)
      <4>1. e * 2 - 1 < 0
        BY <3>2, <1>1, <2>3
      <4> QED BY <3>2, <4>1, <1>5, <1>6, <2>3
    <3> QED BY <3>1, <3>2
  <2> HIDE DEF a, b, e
  <2>5. 0 <= a <=> b >= 0
    BY <2>2
  <2>6. (a <= e * 2 - 1) <=> (p + 2 + 2 * (b + 1) <= p + size)
    BY <1>1, <2>2, <2>3
  <2> QED BY <2>1, <2>4, <2>5, <2>6
<1> QED BY <1>3, <1>4, <1>5, <1>7 DEF x

\* The marks behind a frame do not depend on it, and those in it on nothing else.
LEMMA MarksWithFrame ==
  ASSUME NEW s \in Seq(STRING), NEW p \in Headers(s), NEW frames,
         FramesFrom(s, frames, FrameEnd(s, p)), NEW j \in Nat
  PROVE  Mark(s, frames \cup {p}, j) =
           IF j < p THEN -1
           ELSE IF j < FrameEnd(s, p) THEN (IF IsOpened(s, p, j) THEN BlockOf(p, j) ELSE -1)
           ELSE Mark(s, frames, j)
<1>1. p \in Nat /\ FrameEnd(s, p) \in Nat /\ FrameEnd(s, p) > p
  BY FrameLengths
<1>2. ASSUME NEW q \in frames PROVE q \in Nat /\ q >= FrameEnd(s, p)
  <2>1. q \in Headers(s) /\ q >= FrameEnd(s, p)
    BY DEF FramesFrom
  <2> QED BY <2>1, FrameLengths
<1>3. CASE j < p
  <2>1. ASSUME NEW q \in frames \cup {p} PROVE ~IsOpened(s, q, j)
    <3>1. q \in Nat /\ j < q
      BY <1>1, <1>2, <1>3
    <3> QED BY <3>1 DEF IsOpened, Covers
  <2>2. OpenedBy(s, frames \cup {p}, j) = {}
    BY <2>1 DEF OpenedBy
  <2> QED BY <1>3, <2>2 DEF Mark, MarkOf
<1>4. CASE j >= p /\ j < FrameEnd(s, p)
  <2>1. ASSUME NEW q \in frames PROVE ~IsOpened(s, q, j)
    <3>1. q \in Nat /\ j < q
      BY <1>1, <1>2, <1>4
    <3> QED BY <3>1 DEF IsOpened, Covers
  <2>2. OpenedBy(s, frames \cup {p}, j) = IF IsOpened(s, p, j) THEN {p} ELSE {}
    BY <2>1 DEF OpenedBy
  <2>3. ~(j < p)
    BY <1>1, <1>4
  <2>4. (CHOOSE q \in {p} : TRUE) = p
    OBVIOUS
  <2>5. CASE IsOpened(s, p, j)
    <3>1. OpenedBy(s, frames \cup {p}, j) = {p}
      BY <2>2, <2>5
    <3>2. Mark(s, frames \cup {p}, j) = BlockOf(p, j)
      BY <2>4, <3>1 DEF Mark, MarkOf
    <3> QED BY <1>4, <2>3, <2>5, <3>2
  <2>6. CASE ~IsOpened(s, p, j)
    BY <1>4, <2>2, <2>3, <2>6 DEF Mark, MarkOf
  <2> QED BY <2>5, <2>6
<1>5. CASE j >= FrameEnd(s, p)
  <2>1. ~Covers(s, p, j)
    BY <1>1, <1>5 DEF Covers
  <2>2. OpenedBy(s, frames \cup {p}, j) = OpenedBy(s, frames, j)
    BY <2>1 DEF OpenedBy, IsOpened
  <2>3. ~(j < p) /\ ~(j < FrameEnd(s, p))
    BY <1>1, <1>5
  <2>4. Mark(s, frames \cup {p}, j) = Mark(s, frames, j)
    BY <2>2 DEF Mark
  <2> QED BY <2>3, <2>4
<1> QED BY <1>1, <1>3, <1>4, <1>5

\* One more frame ahead of others.
LEMMA FrameAhead ==
  ASSUME NEW s \in Seq(STRING), NEW k \in 1..(Len(s) + 1), NextFrame(s, k) # 0, NEW frames,
         FramesFrom(s, frames, FrameEnd(s, NextFrame(s, k)))
  PROVE  FramesFrom(s, frames \cup {NextFrame(s, k)}, k)
<1> DEFINE p == NextFrame(s, k)
           l == FrameEnd(s, p)
           all == frames \cup {p}
<1>1. /\ p \in Headers(s) /\ p >= k /\ l \in (k + 1)..(Len(s) + 1)
      /\ \A h \in Headers(s) : h >= k => h >= p
  BY FrameNext
<1>2. p \in Nat /\ l \in Nat /\ l > p /\ k \in Nat /\ Len(s) \in Nat
  BY <1>1, FrameLengths
<1>3. \A h \in Headers(s) : h \in Nat /\ FrameEnd(s, h) \in Nat /\ FrameEnd(s, h) > h
  BY FrameLengths
<1> HIDE DEF p, l
<1>4. /\ frames \subseteq {h \in Headers(s) : h >= l}
      /\ \A q \in frames : FrameEnd(s, q) <= Len(s) + 1
      /\ \A q, r \in frames : Covers(s, q, r) => q = r
      /\ \A h \in Headers(s) \ frames : h >= l =>
           \/ \E q \in frames : Covers(s, q, h)
           \/ \E c \in Headers(s) : /\ l <= c /\ c <= h /\ FrameEnd(s, c) > Len(s) + 1
                                    /\ \A q \in frames : FrameEnd(s, q) <= c
  BY DEF FramesFrom, p, l
<1>5. FrameEnd(s, p) = l
  BY DEF l
<1>6. all \subseteq {h \in Headers(s) : h >= k}
  <2>1. ASSUME NEW h \in frames PROVE h \in Headers(s) /\ h >= k
    <3>1. h \in Headers(s) /\ h >= l /\ h \in Nat
      BY <1>3, <1>4
    <3> QED BY <1>1, <1>2, <3>1
  <2> QED BY <1>1, <2>1
<1>7. \A q \in all : FrameEnd(s, q) <= Len(s) + 1
  BY <1>1, <1>2, <1>4, <1>5
<1>8. ASSUME NEW q \in all, NEW r \in all, Covers(s, q, r) PROVE q = r
  <2>1. \A h \in frames : h \in Nat /\ h >= l
    BY <1>3, <1>4
  <2>2. CASE q \in frames /\ r \in frames
    BY <1>4, <1>8, <2>2
  <2>3. CASE q = p /\ r \in frames
    <3>1. r \in Nat /\ r >= l /\ r < l
      BY <1>5, <1>8, <2>1, <2>3 DEF Covers
    <3> QED BY <1>2, <3>1
  <2>4. CASE q \in frames /\ r = p
    <3>1. q \in Nat /\ q >= l /\ q <= p
      BY <1>8, <2>1, <2>4 DEF Covers
    <3> QED BY <1>2, <3>1
  <2> QED BY <2>2, <2>3, <2>4
<1>9. ASSUME NEW h \in Headers(s) \ all, h >= k
      PROVE  \/ \E q \in all : Covers(s, q, h)
             \/ \E c \in Headers(s) : /\ k <= c /\ c <= h /\ FrameEnd(s, c) > Len(s) + 1
                                      /\ \A q \in all : FrameEnd(s, q) <= c
  <2>1. h \in Nat /\ h >= p /\ h # p
    BY <1>1, <1>3, <1>9
  <2>2. CASE h < l
    <3>1. Covers(s, p, h)
      BY <1>2, <1>5, <2>1, <2>2 DEF Covers
    <3> QED BY <3>1
  <2>3. CASE h >= l
    <3>1. CASE \E q \in frames : Covers(s, q, h)
      BY <3>1
    <3>2. CASE \E c \in Headers(s) : /\ l <= c /\ c <= h /\ FrameEnd(s, c) > Len(s) + 1
                                     /\ \A q \in frames : FrameEnd(s, q) <= c
      <4>1. PICK c \in Headers(s) : /\ l <= c /\ c <= h /\ FrameEnd(s, c) > Len(s) + 1
                                    /\ \A q \in frames : FrameEnd(s, q) <= c
        BY <3>2
      <4>2. k <= c
        <5>1. c \in Nat
          BY <1>3
        <5> QED BY <1>1, <1>2, <4>1, <5>1
      <4>3. \A q \in all : FrameEnd(s, q) <= c
        BY <1>5, <4>1
      <4> QED BY <4>1, <4>2, <4>3
    <3> QED BY <1>4, <1>9, <2>3, <3>1, <3>2
  <2> QED BY <1>2, <2>1, <2>2, <2>3
<1>10. FramesFrom(s, all, k)
  BY <1>6, <1>7, <1>8, <1>9 DEF FramesFrom
<1> QED BY <1>10 DEF p

LEMMA FramesEverywhere ==
  ASSUME NEW s \in Seq(STRING), NEW g, Opens(g, s)
  PROVE  \A k \in 1..(Len(s) + 1) :
           /\ Len(g[k]) = (Len(s) + 1) - k
           /\ \E frames : FramesFrom(s, frames, k) /\ MarkedBy(s, frames, k, g[k])
<1> DEFINE n == Len(s) + 1
           Framed(k) == \E frames : FramesFrom(s, frames, k) /\ MarkedBy(s, frames, k, g[k])
           T == {k \in 1..n : Len(g[k]) = n - k /\ Framed(k)}
<1>1. n \in Nat /\ n = Len(s) + 1 /\ Len(s) \in Nat
  OBVIOUS
<1>2. ASSUME NEW k \in 1..n, \A j \in 1..n : j > k => j \in T PROVE k \in T
  <2>1. CASE NextFrame(s, k) = 0
    <3>1. g[k] = Plain(s, k, Len(s) + 1 - k)
      BY <2>1 DEF Opens
    <3> DEFINE m == Len(s) + 1 - k
    <3>2. m \in 0..(Len(s) + 1 - k) /\ m = n - k
      OBVIOUS
    <3>3. Len(g[k]) = n - k
      <4> HIDE DEF m
      <4>1. Len(Plain(s, k, m)) = m
        BY <3>2, PlainAndFrame
      <4> QED BY <3>1, <3>2, <4>1 DEF m
    <3>4. FramesFrom(s, {}, k)
      <4>1. \A h \in Headers(s) : h >= k =>
              \E c \in Headers(s) : k <= c /\ c <= h /\ FrameEnd(s, c) > Len(s) + 1
        BY <2>1, FrameNext
      <4> QED BY <4>1 DEF FramesFrom
    <3>5. ASSUME NEW j \in k..Len(s) PROVE g[k][(j + 1) - k] = <<s[j], Mark(s, {}, j)>>
      <4>1. Mark(s, {}, j) = -1
        BY DEF Mark, MarkOf, OpenedBy
      <4>2. (j + 1) - k \in 1..m /\ k + ((j + 1) - k) - 1 = j
        OBVIOUS
      <4> DEFINE x == (j + 1) - k
      <4>3. Plain(s, k, m)[x] = <<s[k + x - 1], -1>>
        <5> HIDE DEF m, x
        <5>1. x \in 1..m
          BY <4>2 DEF x
        <5> QED BY <5>1 DEF Plain
      <4> QED BY <3>1, <4>1, <4>2, <4>3
    <3>6. Framed(k)
      BY <3>4, <3>5 DEF MarkedBy
    <3> QED BY <3>3, <3>6
  <2>2. CASE NextFrame(s, k) # 0
    <3> DEFINE p == NextFrame(s, k)
               l == FrameEnd(s, p)
               A == Plain(s, k, p - k)
               B == FrameBytes(s, p)
               C == g[l]
    <3>1. p \in Headers(s) /\ p >= k /\ l \in (k + 1)..n
      BY <2>2, FrameNext
    <3>2. /\ p \in Nat /\ l = p + FrameLength[s[p]] /\ FrameLength[s[p]] \in Nat /\ l > p /\ l \in 1..n
          /\ p - k \in 0..(Len(s) + 1 - k) /\ l <= Len(s) + 1
      BY <3>1, FrameLengths, SMTT(20) DEF FrameEnd
    <3>3. A \in Marked /\ Len(A) = p - k
      BY <3>2, PlainAndFrame
    <3>4. B \in Marked /\ Len(B) = l - p
      <4>1. B \in Marked /\ Len(B) = FrameLength[s[p]]
        BY <3>1, <3>2, PlainAndFrame
      <4> QED BY <3>2, <4>1
    <3>5. C \in Marked /\ Len(C) = n - l /\ Framed(l)
      <4>1. l \in T
        <5>1. l \in 1..n /\ l > k
          BY <3>1, <3>2
        <5> HIDE DEF T, l
        <5> QED BY <1>2, <5>1
      <4>2. C \in Marked
        BY <3>2 DEF Opens
      <4> QED BY <4>1, <4>2
    <3>6. g[k] = (A \o B) \o C
      BY <2>2 DEF Opens
    <3>7. PICK frames : FramesFrom(s, frames, l) /\ MarkedBy(s, frames, l, C)
      BY <3>5
    <3>8. FramesFrom(s, frames \cup {p}, k)
      BY <2>2, <3>7, FrameAhead
    <3>9. ASSUME NEW j \in k..Len(s)
          PROVE  Mark(s, frames \cup {p}, j) =
                   IF j < p THEN -1
                   ELSE IF j < l THEN (IF IsOpened(s, p, j) THEN BlockOf(p, j) ELSE -1)
                   ELSE Mark(s, frames, j)
      <4>1. j \in Nat
        OBVIOUS
      <4> QED BY <3>1, <3>7, <4>1, MarksWithFrame
    <3>10. ASSUME NEW j \in p..(l - 1)
           PROVE  B[(j + 1) - p] = <<s[j], IF IsOpened(s, p, j) THEN BlockOf(p, j) ELSE -1>>
      BY <3>1, FrameMarks
    <3>11. ASSUME NEW j \in k..Len(s), j < p PROVE A[(j + 1) - k] = <<s[j], -1>>
      <4> DEFINE x == (j + 1) - k
                 m == p - k
      <4>1. x \in 1..m /\ k + x - 1 = j
        BY <3>2, <3>11, SMTT(20)
      <4> HIDE DEF x, m
      <4>2. Plain(s, k, m)[x] = <<s[k + x - 1], -1>>
        BY <4>1 DEF Plain
      <4> QED BY <4>1, <4>2 DEF x, m
    <3>12. ASSUME NEW j \in l..Len(s) PROVE C[(j + 1) - l] = <<s[j], Mark(s, frames, j)>>
      BY <3>7 DEF MarkedBy
    <3> HIDE DEF p, l, A, B, C
    <3>13. Len(g[k]) = n - k
      <4>1. A \o B \in Marked /\ Len(A \o B) = (p - k) + (l - p)
        BY <3>3, <3>4, MarkedJoin
      <4>2. Len(g[k]) = ((p - k) + (l - p)) + (n - l)
        BY <3>5, <3>6, <4>1, MarkedJoin
      <4>3. ((p - k) + (l - p)) + (n - l) = n - k
        <5>1. p \in Int /\ l \in Int /\ k \in Int /\ n \in Int
          BY <1>1, <3>2
        <5> HIDE DEF n
        <5> QED BY <5>1
      <4> QED BY <4>2, <4>3
    <3>14. ASSUME NEW x \in 1..(n - k)
           PROVE  g[k][x] = IF x <= p - k THEN A[x]
                            ELSE IF x <= l - k THEN B[x - (p - k)] ELSE C[x - (l - k)]
      <4> DEFINE D == A \o B
      <4>0. (p - k) + (l - p) = l - k /\ (l - k) + (n - l) = n - k
        BY <1>1, <3>2
      <4>1. D \in Marked /\ Len(D) = l - k
        BY <3>3, <3>4, <4>0, MarkedJoin
      <4>2. \A y \in 1..(l - k) : D[y] = IF y <= p - k THEN A[y] ELSE B[y - (p - k)]
        <5>1. \A y \in 1..(Len(A) + Len(B)) : D[y] = IF y <= Len(A) THEN A[y] ELSE B[y - Len(A)]
          BY <3>3, <3>4, MarkedJoin
        <5> HIDE DEF D
        <5> QED BY <3>3, <3>4, <4>0, <5>1
      <4> HIDE DEF D
      <4>3. g[k][x] = IF x <= l - k THEN D[x] ELSE C[x - (l - k)]
        <5>1. g[k] = D \o C
          BY <3>6 DEF D
        <5>2. x \in 1..(Len(D) + Len(C))
          BY <3>5, <4>0, <4>1
        <5>3. (D \o C)[x] = IF x <= Len(D) THEN D[x] ELSE C[x - Len(D)]
          BY <3>5, <4>1, <5>2, MarkedJoin
        <5> QED BY <4>1, <5>1, <5>3
      <4>4. x <= p - k => x <= l - k
        BY <3>2
      <4>5. x <= l - k => x \in 1..(l - k)
        BY <3>2
      <4> QED BY <4>2, <4>3, <4>4, <4>5
    <3>15. ASSUME NEW j \in k..Len(s)
           PROVE  g[k][(j + 1) - k] = <<s[j], Mark(s, frames \cup {p}, j)>>
      <4> DEFINE x == (j + 1) - k
      <4>1. x \in 1..(n - k) /\ j \in Nat
        BY <1>1
      <4>2. CASE j < p
        <5>1. x <= p - k
          BY <3>2, <4>1, <4>2
        <5>2. g[k][x] = A[x]
          BY <3>14, <4>1, <5>1
        <5> QED BY <3>9, <3>11, <4>2, <5>2
      <4>3. CASE j >= p /\ j < l
        <5>1. ~(x <= p - k) /\ x <= l - k /\ x - (p - k) = (j + 1) - p /\ j \in p..(l - 1) /\ ~(j < p)
          BY <3>2, <4>1, <4>3
        <5>2. g[k][x] = B[(j + 1) - p]
          BY <3>14, <4>1, <5>1
        <5>3. Mark(s, frames \cup {p}, j) = IF IsOpened(s, p, j) THEN BlockOf(p, j) ELSE -1
          BY <3>9, <4>3, <5>1
        <5> QED BY <3>10, <5>1, <5>2, <5>3
      <4>4. CASE j >= l
        <5>a. p \in Nat /\ l \in Nat /\ k \in Nat /\ p < l
          BY <3>2
        <5>b. ~(j < l) /\ ~(j < p)
          BY <4>1, <4>4, <5>a
        <5>c. x - (l - k) = (j + 1) - l
          BY <4>1, <5>a
        <5>d. ~(x <= p - k) /\ ~(x <= l - k)
          BY <4>1, <5>a, <5>b
        <5>1. /\ ~(x <= p - k) /\ ~(x <= l - k) /\ x - (l - k) = (j + 1) - l
              /\ ~(j < p) /\ ~(j < l)
          BY <5>b, <5>c, <5>d
        <5>4. j \in l..Len(s)
          BY <3>2, <4>4
        <5>2. g[k][x] = C[(j + 1) - l]
          BY <3>14, <4>1, <5>1
        <5>3. Mark(s, frames \cup {p}, j) = Mark(s, frames, j)
          BY <3>9, <5>1
        <5> QED BY <3>12, <5>2, <5>3, <5>4
      <4>5. j < p \/ (j >= p /\ j < l) \/ j >= l
        BY <3>2, <4>1
      <4> QED BY <4>2, <4>3, <4>4, <4>5
    <3>16. Framed(k)
      <4>1. MarkedBy(s, frames \cup {p}, k, g[k])
        BY <3>15 DEF MarkedBy
      <4> QED BY <3>8, <4>1 DEF p
    <3> QED BY <3>13, <3>16
  <2> QED BY <2>1, <2>2
<1>3. T = 1..n
  <2>1. T \in SUBSET (1..n)
    OBVIOUS
  <2> HIDE DEF T
  <2> QED BY <1>1, <1>2, <2>1, DownInduction
<1> HIDE DEF Framed
<1>4. \A k \in 1..n : Len(g[k]) = n - k /\ Framed(k)
  BY <1>3
<1> QED BY <1>4 DEF Framed

\* What FramesRestored says of the text.
FramesOpened(s) ==
  \E frames \in SUBSET Headers(s) :
    /\ FramesFrom(s, frames, 1)
    /\ \A k \in DOMAIN s : /\ OpenAudio(s)[k][1] = s[k]
                           /\ OpenAudio(s)[k][2] = Mark(s, frames, k)

\* Audio of any length, with frames of the three lengths anywhere, also cut short:
\* each frame that no frame ahead of it covers has its whole blocks opened, each
\* with its own place in the chain, and no other byte is touched.
THEOREM FramesAlwaysRestored == Spec => []FramesRestored
<1>1. ASSUME NEW s \in Seq(STRING) PROVE FramesOpened(s)
  <2>1. PICK g : Opens(g, s) /\ OpenAudio(s) = g[1]
    BY AudioOpens
  <2>2. 1 \in 1..(Len(s) + 1)
    OBVIOUS
  <2>3. PICK frames : FramesFrom(s, frames, 1) /\ MarkedBy(s, frames, 1, g[1])
    BY <2>1, <2>2, FramesEverywhere
  <2>4. frames \in SUBSET Headers(s)
    BY <2>3 DEF FramesFrom
  <2>5. ASSUME NEW k \in DOMAIN s PROVE OpenAudio(s)[k] = <<s[k], Mark(s, frames, k)>>
    <3>1. k \in 1..Len(s) /\ (k + 1) - 1 = k
      OBVIOUS
    <3> QED BY <2>1, <2>3, <3>1 DEF MarkedBy
  <2>6. \A k \in DOMAIN s : OpenAudio(s)[k][1] = s[k] /\ OpenAudio(s)[k][2] = Mark(s, frames, k)
    BY <2>5
  <2> QED BY <2>3, <2>4, <2>6 DEF FramesOpened
<1>2. text \in Seq(STRING) => FramesRestored
  <2> SUFFICES ASSUME text \in Seq(STRING) PROVE FramesRestored
    OBVIOUS
  <2>1. PICK frames \in SUBSET Headers(text) :
          /\ FramesFrom(text, frames, 1)
          /\ \A k \in DOMAIN text : /\ OpenAudio(text)[k][1] = text[k]
                                    /\ OpenAudio(text)[k][2] = Mark(text, frames, k)
    BY <1>1 DEF FramesOpened
  <2>2. \A h \in Headers(text) : h \in Nat /\ h >= 1
    BY FrameLengths
  <2>3. /\ \A p \in frames : FrameEnd(text, p) <= Len(text) + 1
        /\ \A p, q \in frames : Covers(text, p, q) => p = q
        /\ \A h \in Headers(text) \ frames :
             \/ \E p \in frames : Covers(text, p, h)
             \/ \E c \in Headers(text) : /\ c <= h /\ FrameEnd(text, c) > Len(text) + 1
                                         /\ \A p \in frames : FrameEnd(text, p) <= c
    BY <2>1, <2>2 DEF FramesFrom
  <2> QED BY <2>1, <2>3 DEF FramesRestored, Headers, FrameEnd, Covers, BlockOf, Mark, MarkOf,
                            OpenedBy, IsOpened
<1> QED BY <1>1, <1>2, Typed, PTL

Octets == STRING \cup {"S", "00", "01", "02", "03"}

-----------------------------------------------------------------------------
(* The escapes of NAL units                                                    *)

\* The escapes that are taken out, and the places where one is put in.
Outs(s) == {k \in 1..(Len(s) - 2) : Zeros(s, k) /\ s[k + 2] = "03"}
Ins(s)  == {k \in 1..(Len(s) - 2) : Zeros(s, k) /\ NeedsEscape(s[k + 2])}

TakenOut(s) == [k \in Outs(s) |-> <<"00", "00">>]
PutIn(s)    == [k \in Ins(s) |-> <<"00", "00", "03", s[k + 2]>>]

LEMMA OctetsAre == {"00", "01", "02", "03", "S"} \subseteq Octets /\ STRING \subseteq Octets
BY DEF Octets

LEMMA EscapesRewritable ==
  ASSUME NEW s \in Seq(Octets)
  PROVE  Rewritable(s, Outs(s), TakenOut(s), Octets) /\ Rewritable(s, Ins(s), PutIn(s), Octets)
<1> DEFINE C == Octets
<1>1. s \in Seq(C) /\ "00" \in C /\ "03" \in C
  BY OctetsAre
<1> HIDE DEF C
<1>2. \A k \in 1..(Len(s) - 2) : s[k + 2] \in C
  BY <1>1
<1>3. <<"00", "00">> \in Seq(C) /\ \A c \in C : <<"00", "00", "03", c>> \in Seq(C)
  BY <1>1, ThreeAndFour
<1>4. \A k \in Outs(s) : TakenOut(s)[k] \in Seq(C)
  BY <1>3 DEF TakenOut
<1>5. \A k \in Ins(s) : PutIn(s)[k] \in Seq(C)
  BY <1>2, <1>3 DEF PutIn, Ins
<1> QED BY <1>1, <1>4, <1>5 DEF Rewritable, C, Outs, Ins

\* The loops of Unescaped and Escaped.
UnescapeLoop(g, s) ==
  g = [k \in 1..(Len(s) + 1) |->
        IF k > Len(s) THEN <<>>
        ELSE IF Zeros(s, k) /\ s[k + 2] = "03" THEN <<"00", "00">> \o g[k + 3]
        ELSE <<s[k]>> \o g[k + 1]]

EscapeLoop(g, s) ==
  g = [k \in 1..(Len(s) + 1) |->
        IF k > Len(s) THEN <<>>
        ELSE IF Zeros(s, k) /\ NeedsEscape(s[k + 2])
             THEN <<"00", "00", "03", s[k + 2]>> \o g[k + 3]
        ELSE <<s[k]>> \o g[k + 1]]

LEMMA LoopsRewrite ==
  ASSUME NEW s \in Seq(Octets), NEW g
  PROVE  /\ UnescapeLoop(g, s) <=> Rewrites(g, s, Outs(s), TakenOut(s))
         /\ EscapeLoop(g, s) <=> Rewrites(g, s, Ins(s), PutIn(s))
<1>1. Len(s) \in Nat
  OBVIOUS
<1>2. \A k \in 1..(Len(s) + 1) : /\ k > Len(s) <=> k \in {Len(s) + 1}
                                 /\ k \notin {Len(s) + 1} => k \in 1..Len(s)
  BY <1>1
<1>3. ASSUME NEW k \in 1..Len(s)
      PROVE  /\ k \in Outs(s) <=> Zeros(s, k) /\ s[k + 2] = "03"
             /\ k \in Ins(s) <=> Zeros(s, k) /\ NeedsEscape(s[k + 2])
  <2>1. Zeros(s, k) => k \in 1..(Len(s) - 2)
    BY <1>1 DEF Zeros
  <2> QED BY <2>1 DEF Outs, Ins
<1> DEFINE n == Len(s) + 1
           ends == {Len(s) + 1}
           base == NothingLeft(s)
           A(k) == IF k > Len(s) THEN <<>>
                   ELSE IF Zeros(s, k) /\ s[k + 2] = "03" THEN <<"00", "00">> \o g[k + 3]
                   ELSE <<s[k]>> \o g[k + 1]
           B(k) == IF k > Len(s) THEN <<>>
                   ELSE IF Zeros(s, k) /\ NeedsEscape(s[k + 2])
                        THEN <<"00", "00", "03", s[k + 2]>> \o g[k + 3]
                   ELSE <<s[k]>> \o g[k + 1]
           G(k, J, X) == IF k \in ends THEN base[k]
                         ELSE RewriteHead(s, J, X)[k] \o g[RewriteNext(s, J)[k]]
<1>4. ASSUME NEW k \in 1..n PROVE A(k) = G(k, Outs(s), TakenOut(s))
  <2>1. CASE k > Len(s)
    BY <1>2, <2>1 DEF NothingLeft
  <2>2. CASE ~(k > Len(s))
    <3>1. k \in 1..Len(s) /\ k \notin ends
      BY <1>2, <2>2
    <3>2. CASE k \in Outs(s)
      <4>1. A(k) = <<"00", "00">> \o g[k + 3]
        BY <1>3, <2>2, <3>1, <3>2
      <4>2. RewriteHead(s, Outs(s), TakenOut(s))[k] = <<"00", "00">> /\ RewriteNext(s, Outs(s))[k] = k + 3
        BY <3>1, <3>2 DEF RewriteHead, RewriteNext, TakenOut
      <4> HIDE DEF A, ends
      <4> QED BY <3>1, <4>1, <4>2
    <3>3. CASE k \notin Outs(s)
      <4>1. A(k) = <<s[k]>> \o g[k + 1]
        BY <1>3, <2>2, <3>1, <3>3
      <4>2. RewriteHead(s, Outs(s), TakenOut(s))[k] = <<s[k]>> /\ RewriteNext(s, Outs(s))[k] = k + 1
        BY <3>1, <3>3 DEF RewriteHead, RewriteNext
      <4> HIDE DEF A, ends
      <4> QED BY <3>1, <4>1, <4>2
    <3> QED BY <3>2, <3>3
  <2> QED BY <2>1, <2>2
<1>5. ASSUME NEW k \in 1..n PROVE B(k) = G(k, Ins(s), PutIn(s))
  <2>1. CASE k > Len(s)
    BY <1>2, <2>1 DEF NothingLeft
  <2>2. CASE ~(k > Len(s))
    <3>1. k \in 1..Len(s) /\ k \notin ends
      BY <1>2, <2>2
    <3>2. CASE k \in Ins(s)
      <4>1. B(k) = <<"00", "00", "03", s[k + 2]>> \o g[k + 3]
        BY <1>3, <2>2, <3>1, <3>2
      <4>2. /\ RewriteHead(s, Ins(s), PutIn(s))[k] = <<"00", "00", "03", s[k + 2]>>
            /\ RewriteNext(s, Ins(s))[k] = k + 3
        BY <3>1, <3>2 DEF RewriteHead, RewriteNext, PutIn
      <4> HIDE DEF B, ends
      <4> QED BY <3>1, <4>1, <4>2
    <3>3. CASE k \notin Ins(s)
      <4>1. B(k) = <<s[k]>> \o g[k + 1]
        BY <1>3, <2>2, <3>1, <3>3
      <4>2. RewriteHead(s, Ins(s), PutIn(s))[k] = <<s[k]>> /\ RewriteNext(s, Ins(s))[k] = k + 1
        BY <3>1, <3>3 DEF RewriteHead, RewriteNext
      <4> HIDE DEF B, ends
      <4> QED BY <3>1, <4>1, <4>2
    <3> QED BY <3>2, <3>3
  <2> QED BY <2>1, <2>2
<1>6. /\ UnescapeLoop(g, s) <=> g = [k \in 1..n |-> A(k)]
      /\ EscapeLoop(g, s) <=> g = [k \in 1..n |-> B(k)]
  BY DEF UnescapeLoop, EscapeLoop
<1>7. \A J, X : Rewrites(g, s, J, X) <=> g = [k \in 1..n |-> G(k, J, X)]
  BY DEF Rewrites, Glues
<1> HIDE DEF A, B, G
<1>8. /\ [k \in 1..n |-> A(k)] = [k \in 1..n |-> G(k, Outs(s), TakenOut(s))]
      /\ [k \in 1..n |-> B(k)] = [k \in 1..n |-> G(k, Ins(s), PutIn(s))]
  BY <1>4, <1>5
<1> QED BY <1>6, <1>7, <1>8

\* What both make of a text.
LEMMA EscapesAre ==
  ASSUME NEW s \in Seq(Octets)
  PROVE  /\ \E g : Rewrites(g, s, Outs(s), TakenOut(s)) /\ Unescaped(s) = g[1]
         /\ \E g : Rewrites(g, s, Ins(s), PutIn(s)) /\ Escaped(s) = g[1]
<1> DEFINE f == CHOOSE g : UnescapeLoop(g, s)
           h == CHOOSE g : EscapeLoop(g, s)
<1>1. Unescaped(s) = f[1] /\ Escaped(s) = h[1]
  BY DEF Unescaped, Escaped, UnescapeLoop, EscapeLoop
<1>2. /\ \E g : Rewrites(g, s, Outs(s), TakenOut(s))
      /\ \E g : Rewrites(g, s, Ins(s), PutIn(s))
  BY EscapesRewritable, RewritingExists
<1>3. UnescapeLoop(f, s) /\ EscapeLoop(h, s)
  BY <1>2, LoopsRewrite
<1> HIDE DEF f, h
<1>4. Rewrites(f, s, Outs(s), TakenOut(s)) /\ Rewrites(h, s, Ins(s), PutIn(s))
  BY <1>3, LoopsRewrite
<1> QED BY <1>1, <1>4

\* Behind d elements the same places have escapes.
LEMMA EscapesAfter ==
  ASSUME NEW s \in Seq(Octets), NEW d \in 0..Len(s)
  PROVE  \A j \in 1..(Len(s) - d) :
           /\ d + j \in Outs(s) <=> j \in Outs(Remainder(s, d))
           /\ d + j \in Ins(s) <=> j \in Ins(Remainder(s, d))
           /\ j \in Outs(Remainder(s, d)) => TakenOut(s)[d + j] = TakenOut(Remainder(s, d))[j]
           /\ j \in Ins(Remainder(s, d)) => PutIn(s)[d + j] = PutIn(Remainder(s, d))[j]
<1> DEFINE t == Remainder(s, d)
           C == Octets
           n == Len(s)
           l == Len(t)
<1>1. t \in Seq(C) /\ IsAfter(t, s, d)
  BY AfterIs
<1>2. s \in Seq(C)
  OBVIOUS
<1> HIDE DEF t, C
<1>3. n \in Nat /\ d \in Nat /\ l = n - d /\ \A i \in 1..l : t[i] = s[d + i]
  BY <1>1, <1>2 DEF IsAfter
<1> SUFFICES ASSUME NEW j \in 1..(n - d)
             PROVE /\ d + j \in Outs(s) <=> j \in Outs(t)
                   /\ d + j \in Ins(s) <=> j \in Ins(t)
                   /\ j \in Outs(t) => TakenOut(s)[d + j] = TakenOut(t)[j]
                   /\ j \in Ins(t) => PutIn(s)[d + j] = PutIn(t)[j]
  BY DEF t
<1>4. CASE j \notin 1..(l - 2)
  <2>1. d + j \notin 1..(n - 2)
    <3> HIDE DEF n, l
    <3> QED BY <1>3, <1>4
  <2> QED BY <1>4, <2>1 DEF Outs, Ins
<1>5. CASE j \in 1..(l - 2)
  <2>1. d + j \in 1..(n - 2) /\ j + 1 \in 1..l /\ j + 2 \in 1..l /\ j \in 1..l
        /\ d + (j + 1) = (d + j) + 1 /\ d + (j + 2) = (d + j) + 2
        /\ (d + j) + 2 <= n /\ j + 2 <= l
    <3> HIDE DEF n, l
    <3> QED BY <1>3, <1>5
  <2>2. t[j] = s[d + j] /\ t[j + 1] = s[(d + j) + 1] /\ t[j + 2] = s[(d + j) + 2]
    <3> HIDE DEF n, l
    <3>1. t[j] = s[d + j] /\ t[j + 1] = s[d + (j + 1)] /\ t[j + 2] = s[d + (j + 2)]
      BY <1>3, <2>1
    <3> QED BY <2>1, <3>1
  <2>3. Zeros(t, j) <=> Zeros(s, d + j)
    BY <2>1, <2>2 DEF Zeros
  <2>4. /\ d + j \in Outs(s) <=> j \in Outs(t)
        /\ d + j \in Ins(s) <=> j \in Ins(t)
    BY <1>5, <2>1, <2>2, <2>3 DEF Outs, Ins
  <2>5. j \in Outs(t) => TakenOut(s)[d + j] = TakenOut(t)[j]
    BY <2>4 DEF TakenOut
  <2>6. j \in Ins(t) => PutIn(s)[d + j] = PutIn(t)[j]
    BY <2>2, <2>4 DEF PutIn
  <2> QED BY <2>4, <2>5, <2>6
<1> QED BY <1>4, <1>5

\* The rewritings, one step at a time.
LEMMA UnescapedNext ==
  ASSUME NEW s \in Seq(Octets)
  PROVE  /\ Unescaped(s) \in Seq(Octets)
         /\ s = <<>> => Unescaped(s) = <<>>
         /\ s # <<>> /\ 1 \in Outs(s) => Unescaped(s) = <<"00", "00">> \o Unescaped(Remainder(s, 3))
         /\ s # <<>> /\ 1 \notin Outs(s) => Unescaped(s) = <<s[1]>> \o Unescaped(Remainder(s, 1))
<1>1. PICK g : Rewrites(g, s, Outs(s), TakenOut(s)) /\ Unescaped(s) = g[1]
  BY EscapesAre
<1>2. Rewritable(s, Outs(s), TakenOut(s), Octets)
  BY EscapesRewritable
<1>3. /\ \A k \in 1..(Len(s) + 1) : g[k] \in Seq(Octets)
      /\ g[Len(s) + 1] = <<>>
      /\ \A k \in 1..Len(s) : g[k] = IF k \in Outs(s) THEN TakenOut(s)[k] \o g[k + 3] ELSE <<s[k]>> \o g[k + 1]
  BY <1>1, <1>2, RewriteGoesOn
<1>4. Len(s) \in Nat /\ 1 \in 1..(Len(s) + 1) /\ (s = <<>> => Len(s) = 0) /\ (s # <<>> => 1 \in 1..Len(s))
  OBVIOUS
<1>5. ASSUME NEW d \in 0..Len(s) PROVE g[d + 1] = Unescaped(Remainder(s, d))
  <2>1. Remainder(s, d) \in Seq(Octets)
    BY AfterIs
  <2>2. PICK h : Rewrites(h, Remainder(s, d), Outs(Remainder(s, d)), TakenOut(Remainder(s, d))) /\ Unescaped(Remainder(s, d)) = h[1]
    BY <2>1, EscapesAre
  <2>3. Rewritable(Remainder(s, d), Outs(Remainder(s, d)), TakenOut(Remainder(s, d)), Octets)
    BY <2>1, EscapesRewritable
  <2>4. \A j \in 1..(Len(s) - d) :
          /\ d + j \in Outs(s) <=> j \in Outs(Remainder(s, d))
          /\ j \in Outs(Remainder(s, d)) => TakenOut(s)[d + j] = TakenOut(Remainder(s, d))[j]
    BY EscapesAfter
  <2>5. g[d + 1] = h[1]
    BY <1>1, <1>2, <2>2, <2>3, <2>4, RewriteAfter
  <2> QED BY <2>2, <2>5
<1>6. s = <<>> => Unescaped(s) = <<>>
  BY <1>1, <1>3, <1>4
<1>7. ASSUME s # <<>>, 1 \in Outs(s) PROVE Unescaped(s) = <<"00", "00">> \o Unescaped(Remainder(s, 3))
  <2>1. 3 \in 0..Len(s)
    BY <1>4, <1>7 DEF Outs
  <2>2. g[4] = Unescaped(Remainder(s, 3))
    <3>1. g[3 + 1] = Unescaped(Remainder(s, 3))
      BY <1>5, <2>1
    <3> QED BY <3>1
  <2>3. g[1] = TakenOut(s)[1] \o g[1 + 3] /\ TakenOut(s)[1] = <<"00", "00">>
    BY <1>3, <1>4, <1>7 DEF TakenOut
  <2> QED BY <1>1, <2>2, <2>3
<1>8. ASSUME s # <<>>, 1 \notin Outs(s) PROVE Unescaped(s) = <<s[1]>> \o Unescaped(Remainder(s, 1))
  <2>1. 1 \in 0..Len(s)
    BY <1>4, <1>8
  <2>2. g[1 + 1] = Unescaped(Remainder(s, 1))
    BY <1>5, <2>1
  <2>3. g[1] = <<s[1]>> \o g[1 + 1]
    BY <1>3, <1>4, <1>8
  <2> QED BY <1>1, <2>2, <2>3
<1>9. Unescaped(s) \in Seq(Octets)
  BY <1>1, <1>3, <1>4
<1> QED BY <1>6, <1>7, <1>8, <1>9

LEMMA EscapedNext ==
  ASSUME NEW s \in Seq(Octets)
  PROVE  /\ Escaped(s) \in Seq(Octets)
         /\ s = <<>> => Escaped(s) = <<>>
         /\ s # <<>> /\ 1 \in Ins(s) => Escaped(s) = <<"00", "00", "03", s[3]>> \o Escaped(Remainder(s, 3))
         /\ s # <<>> /\ 1 \notin Ins(s) => Escaped(s) = <<s[1]>> \o Escaped(Remainder(s, 1))
<1>1. PICK g : Rewrites(g, s, Ins(s), PutIn(s)) /\ Escaped(s) = g[1]
  BY EscapesAre
<1>2. Rewritable(s, Ins(s), PutIn(s), Octets)
  BY EscapesRewritable
<1>3. /\ \A k \in 1..(Len(s) + 1) : g[k] \in Seq(Octets)
      /\ g[Len(s) + 1] = <<>>
      /\ \A k \in 1..Len(s) : g[k] = IF k \in Ins(s) THEN PutIn(s)[k] \o g[k + 3] ELSE <<s[k]>> \o g[k + 1]
  BY <1>1, <1>2, RewriteGoesOn
<1>4. Len(s) \in Nat /\ 1 \in 1..(Len(s) + 1) /\ (s = <<>> => Len(s) = 0) /\ (s # <<>> => 1 \in 1..Len(s))
  OBVIOUS
<1>5. ASSUME NEW d \in 0..Len(s) PROVE g[d + 1] = Escaped(Remainder(s, d))
  <2>1. Remainder(s, d) \in Seq(Octets)
    BY AfterIs
  <2>2. PICK h : Rewrites(h, Remainder(s, d), Ins(Remainder(s, d)), PutIn(Remainder(s, d))) /\ Escaped(Remainder(s, d)) = h[1]
    BY <2>1, EscapesAre
  <2>3. Rewritable(Remainder(s, d), Ins(Remainder(s, d)), PutIn(Remainder(s, d)), Octets)
    BY <2>1, EscapesRewritable
  <2>4. \A j \in 1..(Len(s) - d) :
          /\ d + j \in Ins(s) <=> j \in Ins(Remainder(s, d))
          /\ j \in Ins(Remainder(s, d)) => PutIn(s)[d + j] = PutIn(Remainder(s, d))[j]
    BY EscapesAfter
  <2>5. g[d + 1] = h[1]
    BY <1>1, <1>2, <2>2, <2>3, <2>4, RewriteAfter
  <2> QED BY <2>2, <2>5
<1>6. s = <<>> => Escaped(s) = <<>>
  BY <1>1, <1>3, <1>4
<1>7. ASSUME s # <<>>, 1 \in Ins(s) PROVE Escaped(s) = <<"00", "00", "03", s[3]>> \o Escaped(Remainder(s, 3))
  <2>1. 3 \in 0..Len(s)
    BY <1>4, <1>7 DEF Ins
  <2>2. g[3 + 1] = Escaped(Remainder(s, 3))
    BY <1>5, <2>1
  <2>3. g[1] = PutIn(s)[1] \o g[1 + 3] /\ PutIn(s)[1] = <<"00", "00", "03", s[1 + 2]>>
    BY <1>3, <1>4, <1>7 DEF PutIn
  <2>4. 3 + 1 = 4 /\ 1 + 3 = 4 /\ 1 + 2 = 3
    OBVIOUS
  <2> QED BY <1>1, <2>2, <2>3, <2>4
<1>8. ASSUME s # <<>>, 1 \notin Ins(s) PROVE Escaped(s) = <<s[1]>> \o Escaped(Remainder(s, 1))
  <2>1. 1 \in 0..Len(s)
    BY <1>4, <1>8
  <2>2. g[1 + 1] = Escaped(Remainder(s, 1))
    BY <1>5, <2>1
  <2>3. g[1] = <<s[1]>> \o g[1 + 1]
    BY <1>3, <1>4, <1>8
  <2> QED BY <1>1, <2>2, <2>3
<1>9. Escaped(s) \in Seq(Octets)
  BY <1>1, <1>3, <1>4
<1> QED BY <1>6, <1>7, <1>8, <1>9

-----------------------------------------------------------------------------
(* A text put together is unescaped piece by piece                             *)

\* No zero at the end.
Closed(a) == a = <<>> \/ a[Len(a)] # "00"

LEMMA ClosedAfter ==
  ASSUME NEW C, NEW a \in Seq(C), Closed(a), NEW d \in 0..Len(a)
  PROVE  Closed(Remainder(a, d))
<1> DEFINE t == Remainder(a, d)
           n == Len(a)
<1>1. t \in Seq(C) /\ IsAfter(t, a, d)
  BY AfterIs
<1> HIDE DEF t
<1>2. SUFFICES ASSUME t # <<>> PROVE t[Len(t)] # "00"
  BY DEF Closed, t
<1>3. n \in Nat /\ d \in 0..n /\ Len(t) = n - d /\ (\A j \in 1..(n - d) : t[j] = a[d + j]) /\ Len(t) # 0
  BY <1>1, <1>2 DEF IsAfter
<1>4. a # <<>>
  BY <1>3
<1> HIDE DEF n
<1>5. n - d \in 1..(n - d) /\ d + (n - d) = n
  BY <1>3
<1>6. t[n - d] = a[n]
  BY <1>3, <1>5
<1> QED BY <1>3, <1>4, <1>6 DEF Closed, n

LEMMA OutsOfJoin ==
  ASSUME NEW a \in Seq(Octets), NEW b \in Seq(Octets), a # <<>>, Closed(a)
  PROVE  1 \in Outs(a \o b) <=> 1 \in Outs(a)
<1> DEFINE ab == a \o b
           n == Len(a)
           m == Len(b)
           C == Octets
<1>1. a \in Seq(C) /\ b \in Seq(C)
  OBVIOUS
<1> HIDE DEF C
<1>2. ab \in Seq(C) /\ IsJoin(ab, a, b) /\ n \in Nat \ {0} /\ m \in Nat
  BY <1>1, JoinIs
<1> HIDE DEF ab
<1>3. Len(ab) = n + m /\ (\A i \in 1..n : ab[i] = a[i]) /\ a[n] # "00"
  BY <1>2 DEF IsJoin, Closed
<1>4. \A s : 1 \in Outs(s) <=> 1 \in 1..(Len(s) - 2) /\ s[1] = "00" /\ s[2] = "00" /\ s[3] = "03"
  <2>1. \A s : 1 \in 1..(Len(s) - 2) => (Zeros(s, 1) <=> s[1] = "00" /\ s[2] = "00") /\ s[1 + 2] = s[3]
    <3> SUFFICES ASSUME NEW s, 1 \in 1..(Len(s) - 2)
                 PROVE (Zeros(s, 1) <=> s[1] = "00" /\ s[2] = "00") /\ s[1 + 2] = s[3]
      OBVIOUS
    <3>1. 1 + 2 = 3 /\ 1 + 1 = 2
      OBVIOUS
    <3>2. 1 <= Len(s) - 2
      OBVIOUS
    <3> QED BY <3>1, <3>2 DEF Zeros
  <2> QED BY <2>1 DEF Outs
<1>5. 1 \in Outs(ab) => n >= 3
  <2> SUFFICES ASSUME 1 \in Outs(ab) PROVE n >= 3
    OBVIOUS
  <2>1. ab[1] = "00" /\ ab[2] = "00"
    BY <1>4
  <2>2. n # 1 /\ n # 2
    BY <1>2, <1>3, <2>1
  <2> HIDE DEF n
  <2> QED BY <1>2, <2>2
<1>6. n >= 3 => /\ 1 \in 1..(Len(ab) - 2) /\ 1 \in 1..(n - 2)
                /\ ab[1] = a[1] /\ ab[2] = a[2] /\ ab[3] = a[3]
  <2> HIDE DEF n, m
  <2> QED BY <1>2, <1>3
<1>7. 1 \in Outs(a) => n >= 3
  <2>1. 1 \in Outs(a) => 1 \in 1..(n - 2)
    BY <1>4
  <2> QED BY <1>2, <2>1
<1> QED BY <1>4, <1>5, <1>6, <1>7 DEF ab

LEMMA UnescapedJoins ==
  ASSUME NEW a \in Seq(Octets), Closed(a), NEW b \in Seq(Octets)
  PROVE  Unescaped(a \o b) = Unescaped(a) \o Unescaped(b)
<1> DEFINE C == Octets
           B == {s \in Seq(C) : Closed(s) /\ \E t \in Seq(C) : Unescaped(s \o t) # Unescaped(s) \o Unescaped(t)}
<1>1. SUFFICES ASSUME B # {} PROVE FALSE
  OBVIOUS
<1>2. PICK s \in B : \A t \in Seq(C) : Len(t) < Len(s) => t \notin B
  <2>1. B \in SUBSET Seq(C)
    OBVIOUS
  <2> HIDE DEF B, C
  <2> QED BY <1>1, <2>1, ShortestOne
<1>3. PICK t \in Seq(C) : Unescaped(s \o t) # Unescaped(s) \o Unescaped(t)
  OBVIOUS
<1>4. s \in Seq(C) /\ Closed(s)
  OBVIOUS
<1>5. \A x \in Seq(C) : Len(x) < Len(s) /\ Closed(x) => Unescaped(x \o t) = Unescaped(x) \o Unescaped(t)
  BY <1>2
<1> HIDE DEF B
<1>6. \A x \in Seq(C) : Unescaped(x) \in Seq(C)
  BY UnescapedNext
<1>7. s # <<>>
  <2> SUFFICES ASSUME s = <<>> PROVE FALSE
    OBVIOUS
  <2>1. s \o t = t /\ Unescaped(s) = <<>> /\ <<>> \o Unescaped(t) = Unescaped(t)
    <3> HIDE DEF C
    <3>1. s \o t = t /\ <<>> \o Unescaped(t) = Unescaped(t)
      BY <1>6, ConcatEmptySeq
    <3>2. Unescaped(s) = <<>>
      BY <1>4, UnescapedNext DEF C
    <3> QED BY <3>1, <3>2
  <2> QED BY <1>3, <2>1
<1> DEFINE st == s \o t
<1>8. st \in Seq(C) /\ Len(st) = Len(s) + Len(t) /\ Len(s) \in Nat \ {0} /\ Len(t) \in Nat
  <2> HIDE DEF C
  <2> QED BY <1>4, <1>7, JoinIs DEF IsJoin
<1>9. 1 \in Outs(st) <=> 1 \in Outs(s)
  BY <1>4, <1>7, OutsOfJoin
<1>10. ASSUME NEW d \in 1..Len(s), NEW h \in Seq(C),
              Unescaped(s) = h \o Unescaped(Remainder(s, d)), Unescaped(st) = h \o Unescaped(Remainder(st, d))
       PROVE  FALSE
  <2> DEFINE r == Remainder(s, d)
             x == Unescaped(r)
             y == Unescaped(t)
  <2> HIDE DEF C
  <2>1. d \in 0..Len(s)
    BY <1>8
  <2>2. r \in Seq(C) /\ Closed(r) /\ Len(r) = Len(s) - d
    BY <1>4, <2>1, AfterIs, ClosedAfter DEF IsAfter
  <2>3. Remainder(st, d) = r \o t
    BY <1>4, <2>1, AfterJoin
  <2> HIDE DEF r
  <2>4. Len(r) < Len(s)
    BY <1>8, <2>2
  <2>5. Unescaped(r \o t) = x \o y /\ x \in Seq(C) /\ y \in Seq(C)
    BY <1>5, <1>6, <2>2, <2>4
  <2> HIDE DEF x, y
  <2>6. (h \o x) \o y = h \o (x \o y)
    <3>1. h \in Seq(C) /\ x \in Seq(C) /\ y \in Seq(C)
      BY <1>10, <2>5
    <3>2. Regroups(h, x, y)
      BY <3>1, Regrouped
    <3> QED BY <3>2 DEF Regroups
  <2> QED BY <1>3, <1>10, <2>3, <2>5, <2>6 DEF r, x, y
<1>11. st # <<>>
  BY <1>8
<1>12. CASE 1 \in Outs(s)
  <2>1. 3 \in 1..Len(s)
    BY <1>12, <1>8 DEF Outs
  <2>2. <<"00", "00">> \in Seq(C)
    BY OctetsAre, ThreeAndFour
  <2>3. /\ Unescaped(s) = <<"00", "00">> \o Unescaped(Remainder(s, 3))
        /\ Unescaped(st) = <<"00", "00">> \o Unescaped(Remainder(st, 3))
    <3> HIDE DEF st
    <3> QED BY <1>4, <1>7, <1>8, <1>9, <1>11, <1>12, UnescapedNext
  <2> HIDE DEF st, C
  <2> QED BY <1>10, <2>1, <2>2, <2>3
<1>13. CASE 1 \notin Outs(s)
  <2>1. 1 \in 1..Len(s)
    BY <1>8
  <2>2. <<s[1]>> \in Seq(C)
    BY <1>4, <2>1
  <2>3. st[1] = s[1]
    <3> HIDE DEF C
    <3> QED BY <1>4, <2>1, JoinIs DEF IsJoin
  <2>4. /\ Unescaped(s) = <<s[1]>> \o Unescaped(Remainder(s, 1))
        /\ Unescaped(st) = <<s[1]>> \o Unescaped(Remainder(st, 1))
    <3> HIDE DEF st
    <3> QED BY <1>4, <1>7, <1>8, <1>9, <1>11, <1>13, <2>3, UnescapedNext
  <2> HIDE DEF st, C
  <2> QED BY <1>10, <2>1, <2>2, <2>4
<1> QED BY <1>12, <1>13

\* A text without such places stays as it is.
LEMMA NothingRewritten ==
  ASSUME NEW s \in Seq(Octets)
  PROVE  (Outs(s) = {} => Unescaped(s) = s) /\ (Ins(s) = {} => Escaped(s) = s)
<1>2. \A J, X, g : Rewritable(s, J, X, Octets) /\ Rewrites(g, s, J, X) /\ J = {} => g[1] = s
  BY RewriteStays
<1>3. Rewritable(s, Outs(s), TakenOut(s), Octets) /\ Rewritable(s, Ins(s), PutIn(s), Octets)
  BY EscapesRewritable
<1>4. Outs(s) = {} => Unescaped(s) = s
  BY <1>2, <1>3, EscapesAre
<1>5. Ins(s) = {} => Escaped(s) = s
  BY <1>2, <1>3, EscapesAre
<1> QED BY <1>4, <1>5

\* What short texts become.
LEMMA UnescapedShort ==
  ASSUME NEW c \in Octets
  PROVE  /\ Unescaped(<<c>>) = <<c>> /\ Unescaped(<<"00", c>>) = <<"00", c>>
         /\ c # "03" => Unescaped(<<"00", "00", c>>) = <<"00", "00", c>>
         /\ Unescaped(<<"00", "00", "03">>) = <<"00", "00">>
         /\ Unescaped(<<>>) = <<>>
<1> DEFINE C == Octets
<1>1. c \in C /\ "00" \in C /\ "03" \in C
  BY OctetsAre
<1> HIDE DEF C
<1>2. /\ <<c>> \in Seq(C) /\ <<"00", c>> \in Seq(C) /\ <<"00", "00", c>> \in Seq(C)
      /\ <<"00", "00", "03">> \in Seq(C) /\ <<>> \in Seq(C) /\ <<"00", "00">> \in Seq(C)
  BY <1>1, OneOf, ThreeAndFour, EmptySeq
<1>3. Outs(<<c>>) = {} /\ Outs(<<"00", c>>) = {}
  BY DEF Outs
<1>4. ASSUME c # "03" PROVE Outs(<<"00", "00", c>>) = {}
  <2>1. Len(<<"00", "00", c>>) = 3 /\ <<"00", "00", c>>[3] = c
    OBVIOUS
  <2>2. \A k \in 1..(3 - 2) : k + 2 = 3
    OBVIOUS
  <2> QED BY <1>4, <2>1, <2>2 DEF Outs
<1>5. Unescaped(<<"00", "00", "03">>) = <<"00", "00">>
  <2> DEFINE w == <<"00", "00", "03">>
  <2>1. Len(w) = 3 /\ w[1] = "00" /\ w[2] = "00" /\ w[3] = "03" /\ w # <<>>
    BY ThreeAndFour
  <2>2. w \in Seq(C)
    BY <1>2
  <2> HIDE DEF w
  <2>3. 1 \in Outs(w)
    <3>1. 1 \in 1..(3 - 2) /\ 1 + 1 = 2 /\ 1 + 2 = 3 /\ 3 <= 3
      OBVIOUS
    <3> QED BY <2>1, <3>1 DEF Outs, Zeros
  <2>4. Unescaped(w) = <<"00", "00">> \o Unescaped(Remainder(w, 3))
    BY <2>1, <2>2, <2>3, UnescapedNext DEF C
  <2>5. Remainder(w, 3) = <<>>
    BY <2>1, SubSeqEmpty DEF Remainder
  <2>6. Unescaped(<<>>) = <<>>
    BY <1>2, UnescapedNext DEF C
  <2>7. <<"00", "00">> \o <<>> = <<"00", "00">>
    BY <1>2, ConcatEmptySeq
  <2> QED BY <2>4, <2>5, <2>6, <2>7 DEF w
<1>6. Unescaped(<<>>) = <<>>
  BY <1>2, UnescapedNext DEF C
<1> QED BY <1>2, <1>3, <1>4, <1>5, <1>6, NothingRewritten DEF C

-----------------------------------------------------------------------------
(* What the encoder sends, unescaped                                           *)

Fewest == {"00", "01", "02", "03"}

\* Zeros that may turn out to be ahead of an escape.
Pending(z) == IF z = 0 THEN <<>> ELSE IF z = 1 THEN <<"00">> ELSE <<"00", "00">>

\* What the encoder sends for one byte, and the zeros pending behind it.
SentByte(z, c)   == IF z = 2 /\ c \in Fewest THEN <<"03", c>> ELSE <<c>>
ZerosOf(z, c) == IF c # "00" THEN 0 ELSE (IF z = 2 THEN 0 ELSE z) + 1

\* w is complete once c has been sent; what is pending then follows it.
Completes(w, z, c) ==
  /\ w = <<>> \/ w[Len(w)] # "00"
  /\ Pending(z) \o SentByte(z, c) = w \o Pending(ZerosOf(z, c))
  /\ Unescaped(w) \o Pending(ZerosOf(z, c)) = Pending(z) \o <<c>>

LEMMA PendingTyped ==
  ASSUME NEW z \in 0..2, NEW c \in Octets
  PROVE  /\ Pending(z) \in Seq(Octets) /\ SentByte(z, c) \in Seq(Octets) /\ ZerosOf(z, c) \in 0..2
         /\ Pending(0) = <<>> /\ Pending(1) = <<"00">> /\ Pending(2) = <<"00", "00">>
<1>1. "00" \in Octets /\ "03" \in Octets
  BY OctetsAre
<1>2. /\ <<>> \in Seq(Octets) /\ <<"00">> \in Seq(Octets) /\ <<"00", "00">> \in Seq(Octets)
      /\ <<c>> \in Seq(Octets) /\ <<"03", c>> \in Seq(Octets)
  BY <1>1, EmptySeq, OneOf, ThreeAndFour
<1>3. Pending(z) \in Seq(Octets) /\ SentByte(z, c) \in Seq(Octets)
  BY <1>2 DEF Pending, SentByte
<1>4. ZerosOf(z, c) \in 0..2
  BY DEF ZerosOf
<1> QED BY <1>3, <1>4 DEF Pending

LEMMA OneMoreSent ==
  ASSUME NEW z \in 0..2, NEW c \in Octets
  PROVE  \E w \in Seq(Octets) : Completes(w, z, c)
<1> DEFINE C == Octets
<1>1. c \in C /\ "00" \in C /\ "03" \in C
  BY OctetsAre
<1>2. /\ Pending(0) = <<>> /\ Pending(1) = <<"00">> /\ Pending(2) = <<"00", "00">>
  BY PendingTyped
<1>3. /\ Unescaped(<<c>>) = <<c>> /\ Unescaped(<<"00", c>>) = <<"00", c>>
      /\ c # "03" => Unescaped(<<"00", "00", c>>) = <<"00", "00", c>>
      /\ Unescaped(<<"00", "00", "03">>) = <<"00", "00">>
      /\ Unescaped(<<>>) = <<>>
  BY UnescapedShort
<1>a. <<"00", "00", "03">> \in Seq(C) /\ Closed(<<"00", "00", "03">>) /\ <<c>> \in Seq(C)
  BY <1>1, OneOf, ThreeAndFour DEF Closed
<1>4. Unescaped(<<"00", "00", "03">> \o <<c>>) = <<"00", "00">> \o <<c>>
  BY <1>3, <1>a, UnescapedJoins
<1> HIDE DEF C
<1>5. /\ <<"00">> \o <<c>> = <<"00", c>> /\ <<"00", "00">> \o <<c>> = <<"00", "00", c>>
      /\ <<"00", "00">> \o <<"03", c>> = <<"00", "00", "03", c>>
      /\ <<"00", "00", "03">> \o <<c>> = <<"00", "00", "03", c>>
  <2>1. <<"00">> \o <<c>> = <<"00", c>>
    BY <1>1, TwoJoined
  <2>2. <<"00", "00">> \o <<c>> = <<"00", "00", c>>
    BY <1>1, ThreeJoined
  <2>3. <<"00", "00">> \o <<"03", c>> = <<"00", "00", "03", c>>
    BY <1>1, FourJoined, Zenon
  <2>4. <<"00", "00", "03">> \o <<c>> = <<"00", "00", "03", c>>
    BY <1>1, FourJoined, Zenon
  <2> QED BY <2>1, <2>2, <2>3, <2>4
<1>6. /\ <<"00">> \in Seq(C) /\ <<"00", c>> \in Seq(C) /\ <<"00", "00">> \in Seq(C)
      /\ <<"00", "00", c>> \in Seq(C)
      /\ <<"00", "00", "03", c>> \in Seq(C) /\ <<>> \in Seq(C)
  BY <1>1, OneOf, ThreeAndFour, EmptySeq
<1>7. \A x \in Seq(C) : x \o <<>> = x /\ <<>> \o x = x
  BY ConcatEmptySeq
<1>8. CASE z = 2 /\ c \in Fewest /\ c # "00"
  <2> DEFINE w == <<"00", "00", "03", c>>
  <2>1. SentByte(z, c) = <<"03", c>> /\ ZerosOf(z, c) = 0
    BY <1>8 DEF SentByte, ZerosOf
  <2>2. Len(w) = 4 /\ w[4] = c
    OBVIOUS
  <2>3. w \in Seq(C) /\ w \o <<>> = w /\ Pending(z) = <<"00", "00">>
    BY <1>2, <1>6, <1>7, <1>8
  <2>4. Unescaped(w) = <<"00", "00", c>> /\ <<"00", "00", c>> \o <<>> = <<"00", "00", c>>
    BY <1>4, <1>5, <1>6, <1>7
  <2>5. Pending(z) \o SentByte(z, c) = w /\ Pending(z) \o <<c>> = <<"00", "00", c>>
    BY <1>5, <2>1, <2>3
  <2> HIDE DEF w
  <2>6. Completes(w, z, c)
    BY <1>2, <1>8, <2>1, <2>2, <2>3, <2>4, <2>5 DEF Completes
  <2> QED BY <2>3, <2>6 DEF C
<1>9. CASE z = 2 /\ c = "00"
  <2> DEFINE w == <<"00", "00", "03">>
  <2>1. SentByte(z, c) = <<"03", c>> /\ ZerosOf(z, c) = 1
    BY <1>9 DEF SentByte, ZerosOf, Fewest
  <2>2. Len(w) = 3 /\ w[3] = "03"
    OBVIOUS
  <2>3. w \in Seq(C) /\ Pending(z) = <<"00", "00">> /\ Pending(1) = <<c>>
    BY <1>2, <1>a, <1>9 DEF C
  <2>4. Unescaped(w) = <<"00", "00">>
    BY <1>3
  <2>5. Pending(z) \o SentByte(z, c) = w \o <<c>>
    BY <1>5, <2>1, <2>3
  <2> HIDE DEF w
  <2>6. Completes(w, z, c)
    BY <2>1, <2>2, <2>3, <2>4, <2>5 DEF Completes
  <2> QED BY <2>3, <2>6 DEF C
<1>10. CASE z = 2 /\ c \notin Fewest
  <2> DEFINE w == <<"00", "00", c>>
  <2>1. SentByte(z, c) = <<c>> /\ ZerosOf(z, c) = 0 /\ c # "00" /\ c # "03"
    BY <1>10 DEF SentByte, ZerosOf, Fewest
  <2>2. Len(w) = 3 /\ w[3] = c
    OBVIOUS
  <2>3. w \in Seq(C) /\ Pending(z) = <<"00", "00">> /\ w \o <<>> = w
    BY <1>2, <1>6, <1>7, <1>10
  <2>4. Unescaped(w) = w
    BY <1>3, <2>1
  <2>5. Pending(z) \o <<c>> = w
    BY <1>5, <2>3
  <2> HIDE DEF w
  <2>6. Completes(w, z, c)
    BY <1>2, <2>1, <2>2, <2>3, <2>4, <2>5 DEF Completes
  <2> QED BY <2>3, <2>6 DEF C
<1>11. CASE z # 2 /\ c = "00"
  <2>1. SentByte(z, c) = <<c>> /\ ZerosOf(z, c) = z + 1 /\ (z = 0 \/ z = 1)
    BY <1>11 DEF SentByte, ZerosOf
  <2>2. Pending(z) \o <<c>> = Pending(z + 1)
    <3>1. CASE z = 0
      <4>1. z + 1 = 1
        BY <3>1
      <4> QED BY <1>2, <1>6, <1>7, <1>11, <3>1, <4>1
    <3>2. CASE z = 1
      <4>1. z + 1 = 2
        BY <3>2
      <4> QED BY <1>2, <1>5, <1>11, <3>2, <4>1
    <3> QED BY <2>1, <3>1, <3>2
  <2>3. Pending(z + 1) \in Seq(C)
    <3>1. CASE z = 0
      BY <1>2, <1>6, <3>1
    <3>2. CASE z = 1
      <4>1. z + 1 = 2
        BY <3>2
      <4> QED BY <1>2, <1>6, <4>1
    <3> QED BY <2>1, <3>1, <3>2
  <2>4. <<>> \o Pending(z + 1) = Pending(z + 1)
    BY <1>7, <2>3
  <2>5. Completes(<<>>, z, c)
    BY <1>3, <2>1, <2>2, <2>4 DEF Completes
  <2> QED BY <1>6, <2>5 DEF C
<1>12. CASE z # 2 /\ c # "00"
  <2>1. SentByte(z, c) = <<c>> /\ ZerosOf(z, c) = 0 /\ (z = 0 \/ z = 1)
    BY <1>12 DEF SentByte, ZerosOf
  <2>2. ASSUME NEW w \in Seq(C), Pending(z) \o <<c>> = w, Unescaped(w) = w, w[Len(w)] # "00"
        PROVE  Completes(w, z, c)
    BY <1>2, <1>7, <2>1, <2>2 DEF Completes
  <2>3. CASE z = 0
    <3>1. Pending(z) \o <<c>> = <<c>>
      BY <1>2, <1>7, <1>a, <2>3 DEF C
    <3>2. <<c>>[Len(<<c>>)] = c /\ <<c>> \in Seq(C)
      BY <1>1, OneOf
    <3>3. Completes(<<c>>, z, c)
      BY <1>3, <1>12, <2>2, <3>1, <3>2
    <3> QED BY <3>2, <3>3 DEF C
  <2>4. CASE z = 1
    <3>1. Pending(z) \o <<c>> = <<"00", c>>
      BY <1>2, <1>5, <2>4
    <3>2. <<"00", c>>[Len(<<"00", c>>)] = c /\ <<"00", c>> \in Seq(C)
      <4>1. Len(<<"00", c>>) = 2 /\ <<"00", c>>[2] = c
        OBVIOUS
      <4> QED BY <1>6, <4>1
    <3>3. Completes(<<"00", c>>, z, c)
      BY <1>3, <1>12, <2>2, <3>1, <3>2
    <3> QED BY <3>2, <3>3 DEF C
  <2> QED BY <2>1, <2>3, <2>4
<1> QED BY <1>8, <1>9, <1>10, <1>11, <1>12

\* x is what has been sent for p, and its z zeros at the end are pending.
Escaping(x, z, p) ==
  \E w \in Seq(Octets) : Closed(w) /\ x = w \o Pending(z) /\ Unescaped(w) \o Pending(z) = p

LEMMA ClosedJoin ==
  ASSUME NEW C, NEW a \in Seq(C), NEW b \in Seq(C), Closed(a), Closed(b)
  PROVE  Closed(a \o b)
<1>1. a \o b \in Seq(C) /\ IsJoin(a \o b, a, b)
  BY JoinIs
<1>2. CASE b = <<>>
  <2>1. a \o b = a
    BY <1>2, ConcatEmptySeq
  <2> QED BY <2>1
<1>3. CASE b # <<>>
  <2> DEFINE ab == a \o b
             n == Len(a)
             m == Len(b)
  <2>1. n \in Nat /\ m \in Nat \ {0} /\ b[m] # "00"
    BY <1>3 DEF Closed
  <2>2. Len(ab) = n + m /\ \A i \in 1..m : ab[n + i] = b[i]
    BY <1>1 DEF IsJoin
  <2> HIDE DEF ab, n, m
  <2>3. ab[Len(ab)] # "00"
    BY <2>1, <2>2
  <2> QED BY <2>3 DEF Closed, ab
<1> QED BY <1>2, <1>3

LEMMA EscapingOn ==
  ASSUME NEW x \in Seq(Octets), NEW p \in Seq(Octets), NEW z \in 0..2, NEW c \in Octets, Escaping(x, z, p)
  PROVE  Escaping(x \o SentByte(z, c), ZerosOf(z, c), Append(p, c))
<1> DEFINE C == Octets
           P == Pending(z)
           y == SentByte(z, c)
           Q == Pending(ZerosOf(z, c))
           o == <<c>>
<1>1. PICK w \in Seq(C) : Closed(w) /\ x = w \o P /\ Unescaped(w) \o P = p
  BY DEF Escaping
<1>2. PICK v \in Seq(C) : Completes(v, z, c)
  BY OneMoreSent
<1>3. P \in Seq(C) /\ y \in Seq(C) /\ Q \in Seq(C)
  <2>1. P \in Seq(C) /\ y \in Seq(C) /\ ZerosOf(z, c) \in 0..2
    BY PendingTyped
  <2>2. \A i \in 0..2 : Pending(i) \in Seq(C)
    BY PendingTyped
  <2> HIDE DEF P, y, C
  <2> QED BY <2>1, <2>2
<1>4. Closed(v) /\ P \o y = v \o Q /\ Unescaped(v) \o Q = P \o o
  BY <1>2 DEF Completes, Closed
<1> DEFINE a == Unescaped(w)
           b == Unescaped(v)
           wv == w \o v
           ab == a \o b
<1>5. a \in Seq(C) /\ b \in Seq(C) /\ Unescaped(wv) = ab
  BY <1>1, UnescapedNext, UnescapedJoins
<1>6. o \in Seq(C)
  BY OneOf
<1> HIDE DEF C, P, y, Q, o, a, b
<1>7. wv \in Seq(C) /\ Closed(wv)
  BY <1>1, <1>4, JoinIs, ClosedJoin
<1>8. x \o y = wv \o Q
  <2>1. Regroups(w, P, y) /\ Regroups(w, v, Q)
    BY <1>1, <1>2, <1>3, Regrouped
  <2> QED BY <1>1, <1>4, <2>1 DEF Regroups, wv
<1>9. ab \o Q = Append(p, c)
  <2>1. Regroups(a, b, Q) /\ Regroups(a, P, o)
    BY <1>3, <1>5, <1>6, Regrouped
  <2>2. Append(p, c) = p \o o
    BY AppendIsConcat DEF o
  <2> QED BY <1>1, <1>4, <2>1, <2>2 DEF Regroups, a, b, ab
<1> HIDE DEF wv
<1> QED BY <1>5, <1>7, <1>8, <1>9 DEF Escaping, C, y, Q

\* The zeros that the encoder counts.
ZerosLoop(z, s) ==
  z = [k \in 0..Len(s) |-> IF k = 0 \/ s[k] # "00" THEN 0
                           ELSE (IF z[k - 1] = 2 THEN 0 ELSE z[k - 1]) + 1]

LEMMA ZerosCounted ==
  ASSUME NEW s \in Seq(Octets), NEW z, ZerosLoop(z, s)
  PROVE  z[0] = 0 /\ (\A k \in 1..Len(s) : z[k] = ZerosOf(z[k - 1], s[k])) /\ \A k \in 0..Len(s) : z[k] \in 0..2
<1> DEFINE n == Len(s)
<1>1. n \in Nat
  OBVIOUS
<1>2. z[0] = 0
  <2>1. 0 \in 0..n
    BY <1>1
  <2> QED BY <2>1 DEF ZerosLoop
<1>3. \A k \in 1..n : z[k] = ZerosOf(z[k - 1], s[k])
  <2> SUFFICES ASSUME NEW k \in 1..n PROVE z[k] = ZerosOf(z[k - 1], s[k])
    OBVIOUS
  <2>1. k \in 0..n /\ k # 0
    BY <1>1
  <2> QED BY <2>1 DEF ZerosLoop, ZerosOf
<1> HIDE DEF n
<1> DEFINE T == {k \in Nat : k <= n => z[k] \in 0..2}
<1>4. 0 \in T
  BY <1>2
<1>5. ASSUME NEW k \in T PROVE k + 1 \in T
  <2>1. SUFFICES ASSUME k + 1 <= n PROVE z[k + 1] \in 0..2
    OBVIOUS
  <2>2. k \in Nat /\ k <= n /\ z[k] \in 0..2 /\ k + 1 \in 1..n /\ (k + 1) - 1 = k
    BY <1>1, <2>1
  <2>3. z[k + 1] = ZerosOf(z[k], s[k + 1])
    BY <1>3, <2>2
  <2>4. \A v \in 0..2 : \A c : ZerosOf(v, c) \in 0..2
    BY DEF ZerosOf
  <2> QED BY <2>2, <2>3, <2>4
<1>6. T = Nat
  <2>1. T \in SUBSET Nat
    OBVIOUS
  <2> HIDE DEF T
  <2> QED BY <1>4, <1>5, <2>1, SetInduction
<1>7. \A k \in 0..n : z[k] \in 0..2
  <2>1. \A k \in 0..n : k \in T
    <3> HIDE DEF T
    <3> QED BY <1>6
  <2> QED BY <2>1
<1> QED BY <1>2, <1>3, <1>7 DEF n

LEMMA ZerosExist ==
  ASSUME NEW s \in Seq(Octets)
  PROVE  \E z : ZerosLoop(z, s)
<1> DEFINE n == Len(s)
           V == 0..2
           step == [x \in (1..n) \X V |-> ZerosOf(x[2], s[x[1]])]
<1>1. n \in Nat /\ 0 \in V
  OBVIOUS
<1>2. \A v \in V : \A c : ZerosOf(v, c) \in V
  BY DEF ZerosOf
<1> HIDE DEF V, n
<1>3. step \in [(1..n) \X V -> V]
  <2>1. \A x \in (1..n) \X V : ZerosOf(x[2], s[x[1]]) \in V
    BY <1>2
  <2> QED BY <2>1
<1>4. \A k \in 1..n : \A v \in V : step[<<k, v>>] = ZerosOf(v, s[k])
  OBVIOUS
<1> HIDE DEF step
<1>5. PICK f \in [SUBSET (1..n) -> V] : FoldOf(f, n, 0, step)
  BY <1>1, <1>3, FoldExists
<1>6. Stepwise(f, n, V, 0, step)
  BY <1>1, <1>3, <1>5, FoldSteps
<1>7. /\ f[1..0] = 0 /\ \A k \in 1..n : f[1..k] = step[<<k, f[1..(k - 1)]>>]
      /\ \A k \in 0..n : f[1..k] \in V
  BY <1>6 DEF Stepwise
<1> DEFINE z == [k \in 0..n |-> f[1..k]]
<1>8. ASSUME NEW k \in 0..n
      PROVE  z[k] = IF k = 0 \/ s[k] # "00" THEN 0 ELSE (IF z[k - 1] = 2 THEN 0 ELSE z[k - 1]) + 1
  <2>1. CASE k = 0
    BY <1>7, <2>1
  <2>2. CASE k # 0
    <3>1. k \in 1..n /\ k - 1 \in 0..n
      BY <1>1, <2>2
    <3>2. z[k] = f[1..k] /\ z[k - 1] = f[1..(k - 1)] /\ f[1..(k - 1)] \in V
      BY <1>7, <3>1
    <3>3. f[1..k] = ZerosOf(f[1..(k - 1)], s[k])
      BY <1>4, <1>7, <3>1, <3>2
    <3> HIDE DEF z
    <3>4. z[k] = ZerosOf(z[k - 1], s[k])
      BY <3>2, <3>3
    <3> QED BY <2>2, <3>4 DEF ZerosOf
  <2> QED BY <2>1, <2>2
<1>9. ZerosLoop(z, s)
  <2>1. z = [k \in 0..n |-> z[k]]
    OBVIOUS
  <2> HIDE DEF z
  <2>2. [k \in 0..n |-> z[k]] = [k \in 0..n |-> IF k = 0 \/ s[k] # "00" THEN 0
                                               ELSE (IF z[k - 1] = 2 THEN 0 ELSE z[k - 1]) + 1]
    BY <1>8
  <2>3. z = [k \in 0..n |-> IF k = 0 \/ s[k] # "00" THEN 0
                            ELSE (IF z[k - 1] = 2 THEN 0 ELSE z[k - 1]) + 1]
    BY <2>1, <2>2
  <2> QED BY <2>3 DEF ZerosLoop, n
<1> HIDE DEF z
<1> QED BY <1>9

\* What the encoder sends, unescaped, is what it had.
LEMMA SentComesBack ==
  ASSUME NEW e \in Seq(Octets), Closed(e)
  PROVE  EscapedAgain(e) \in Seq(Octets) /\ Closed(EscapedAgain(e)) /\ Unescaped(EscapedAgain(e)) = e
<1> DEFINE C == Octets
           n == Len(e)
           z == CHOOSE y : ZerosLoop(y, e)
           p == [k \in DOMAIN e |-> IF z[k - 1] = 2 /\ e[k] \in {"00", "01", "02", "03"}
                                    THEN <<"03", e[k]>> ELSE <<e[k]>>]
<1>1. EscapedAgain(e) = FlattenSeq(p)
  BY DEF EscapedAgain, ZerosLoop
<1>2. ZerosLoop(z, e)
  BY ZerosExist
<1>3. n \in Nat /\ DOMAIN e = 1..n /\ \A k \in 1..n : e[k] \in C
  OBVIOUS
<1> HIDE DEF z
<1>4. z[0] = 0 /\ (\A k \in 1..n : z[k] = ZerosOf(z[k - 1], e[k])) /\ \A k \in 0..n : z[k] \in 0..2
  BY <1>2, ZerosCounted
<1>5. \A k \in 1..n : p[k] = SentByte(z[k - 1], e[k])
  BY <1>3 DEF SentByte, Fewest
<1>6. \A k \in 1..n : p[k] \in Seq(C)
  <2> SUFFICES ASSUME NEW k \in 1..n PROVE p[k] \in Seq(C)
    OBVIOUS
  <2>1. k - 1 \in 0..n
    BY <1>3
  <2>2. z[k - 1] \in 0..2 /\ e[k] \in C
    BY <1>3, <1>4, <2>1
  <2>3. SentByte(z[k - 1], e[k]) \in Seq(C)
    BY <2>2, PendingTyped
  <2> QED BY <1>5, <2>3
<1>7. Len(p) = n
  BY <1>3
<1> HIDE DEF p, n, C
<1>8. CASE n = 0
  <2>1. e = <<>>
    BY <1>8 DEF n
  <2>2. EscapedAgain(e) = <<>>
    <3>1. DOMAIN p = {}
      BY <1>3, <1>8 DEF p
    <3>2. p = <<>>
      BY <1>3, <1>8 DEF p
    <3> QED BY <1>1, <3>2 DEF FlattenSeq
  <2>3. Unescaped(<<>>) = <<>>
    <3>1. "00" \in Octets
      BY OctetsAre
    <3> QED BY <3>1, UnescapedShort
  <2> QED BY <2>1, <2>2, <2>3 DEF Closed
<1>9. CASE n # 0
  <2>1. PICK F : Joins(F, p, n, C) /\ FlattenSeq(p) = F[n]
    <3>1. n \in Nat \ {0} /\ SeqsOver(p, n, C)
      BY <1>3, <1>6, <1>9 DEF SeqsOver
    <3> QED BY <1>7, <3>1, Flattened
  <2>2. /\ \A k \in 1..n : F[k] \in Seq(C)
        /\ F[1] = p[1] /\ \A k \in 2..n : F[k] = F[k - 1] \o p[k]
    BY <2>1 DEF Joins, SeqsOver
  <2> DEFINE T == {k \in Nat : k + 1 <= n => Escaping(F[k + 1], z[k + 1], SubSeq(e, 1, k + 1))}
  <2>3. 0 \in T
    <3>1. 1 \in 1..n /\ 0 + 1 = 1 /\ 1 - 1 = 0 /\ e[1] \in C
      BY <1>3, <1>9
    <3>2. Escaping(<<>>, 0, <<>>)
      <4>1. <<>> \in Seq(Octets) /\ Unescaped(<<>>) = <<>> /\ Pending(0) = <<>>
        <5>1. "00" \in Octets
          BY OctetsAre
        <5> QED BY <5>1, EmptySeq, UnescapedShort DEF Pending
      <4>2. <<>> \o <<>> = <<>>
        BY <4>1, ConcatEmptySeq
      <4> QED BY <4>1, <4>2 DEF Escaping, Closed
    <3>3. Escaping(<<>> \o SentByte(0, e[1]), ZerosOf(0, e[1]), Append(<<>>, e[1]))
      <4>1. <<>> \in Seq(Octets) /\ 0 \in 0..2 /\ e[1] \in Octets
        BY <3>1, EmptySeq DEF C
      <4> QED BY <3>2, <4>1, EscapingOn
    <3>4. <<>> \o SentByte(0, e[1]) = F[1]
      <4>1. p[1] = SentByte(0, e[1]) /\ p[1] \in Seq(C)
        BY <1>4, <1>5, <1>6, <3>1
      <4> QED BY <2>2, <4>1, ConcatEmptySeq
    <3>5. ZerosOf(0, e[1]) = z[1]
      BY <1>4, <3>1
    <3>6. Append(<<>>, e[1]) = SubSeq(e, 1, 1)
      <4>1. Append(<<>>, e[1]) = <<e[1]>>
        OBVIOUS
      <4>2. SubSeq(e, 1, 1) = SubSeq(e, 1, 1 - 1) \o <<e[1]>>
        <5>1. 1 \in 1..Len(e) /\ 1 \in 1..1 /\ 1 \in 1..Len(e)
          BY <3>1 DEF n
        <5> QED BY <5>1, SubSeqRecursiveSecond
      <4>3. SubSeq(e, 1, 1 - 1) = <<>>
        BY SubSeqEmpty
      <4>4. <<>> \o <<e[1]>> = <<e[1]>>
        <5>1. <<e[1]>> \in Seq(C)
          BY <3>1, OneOf
        <5> QED BY <5>1, ConcatEmptySeq
      <4> QED BY <4>1, <4>2, <4>3, <4>4
    <3> QED BY <3>1, <3>3, <3>4, <3>5, <3>6
  <2>4. ASSUME NEW k \in T PROVE k + 1 \in T
    <3>1. SUFFICES ASSUME (k + 1) + 1 <= n PROVE Escaping(F[(k + 1) + 1], z[(k + 1) + 1], SubSeq(e, 1, (k + 1) + 1))
      OBVIOUS
    <3>2. k \in Nat /\ Escaping(F[k + 1], z[k + 1], SubSeq(e, 1, k + 1))
      BY <1>3, <3>1
    <3> DEFINE j == k + 1
    <3> HIDE DEF T
    <3>3. j \in 1..n /\ j \in 0..n /\ j + 1 \in 2..n /\ j + 1 \in 1..n /\ (j + 1) - 1 = j
      BY <1>3, <3>1, <3>2
    <3>4. Escaping(F[j], z[j], SubSeq(e, 1, j))
      BY <3>2
    <3> HIDE DEF j
    <3>5. F[j] \in Seq(Octets) /\ z[j] \in 0..2 /\ e[j + 1] \in Octets
      BY <1>3, <1>4, <2>2, <3>3 DEF C
    <3>6. SubSeq(e, 1, j) \in Seq(Octets) /\ Append(SubSeq(e, 1, j), e[j + 1]) = SubSeq(e, 1, j + 1)
      BY <3>3 DEF n
    <3>7. Escaping(F[j] \o SentByte(z[j], e[j + 1]), ZerosOf(z[j], e[j + 1]), Append(SubSeq(e, 1, j), e[j + 1]))
      BY <3>4, <3>5, <3>6, EscapingOn
    <3>8. F[j + 1] = F[j] \o SentByte(z[j], e[j + 1]) /\ z[j + 1] = ZerosOf(z[j], e[j + 1])
      BY <1>4, <1>5, <2>2, <3>3
    <3> QED BY <3>6, <3>7, <3>8 DEF j
  <2>5. T = Nat
    <3>1. T \in SUBSET Nat
      OBVIOUS
    <3> HIDE DEF T
    <3> QED BY <2>3, <2>4, <3>1, SetInduction
  <2>6. Escaping(F[n], z[n], SubSeq(e, 1, n))
    <3>1. n - 1 \in Nat /\ (n - 1) + 1 = n
      BY <1>3, <1>9
    <3>2. n - 1 \in T
      <4> HIDE DEF T
      <4> QED BY <2>5, <3>1
    <3> QED BY <1>3, <3>1, <3>2
  <2>7. z[n] = 0
    <3>1. e[n] # "00"
      BY <1>9 DEF Closed, n
    <3>2. n \in 1..n
      BY <1>3, <1>9
    <3> QED BY <1>4, <3>1, <3>2 DEF ZerosOf
  <2>8. SubSeq(e, 1, n) = e
    BY SubSeqFull DEF n
  <2>9. PICK w \in Seq(Octets) : Closed(w) /\ F[n] = w \o Pending(0) /\ Unescaped(w) \o Pending(0) = e
    BY <2>6, <2>7, <2>8 DEF Escaping
  <2>10. F[n] = w /\ Unescaped(w) = e
    <3>1. Pending(0) = <<>>
      BY DEF Pending
    <3>2. Unescaped(w) \in Seq(Octets)
      BY UnescapedNext
    <3> QED BY <2>9, <3>1, <3>2, ConcatEmptySeq
  <2> QED BY <1>1, <2>1, <2>9, <2>10
<1> QED BY <1>8, <1>9

-----------------------------------------------------------------------------
(* What is unescaped, escaped again                                            *)

\* The first byte stays, and no text gets longer.
LEMMA FirstKept ==
  ASSUME NEW s \in Seq(Octets), s # <<>>
  PROVE  Unescaped(s) # <<>> /\ Unescaped(s)[1] = s[1]
<1> DEFINE C == Octets
<1>1. s \in Seq(C) /\ "00" \in C /\ Len(s) \in Nat \ {0} /\ s[1] \in C
  BY OctetsAre
<1>2. /\ 1 \in Outs(s) => Unescaped(s) = <<"00", "00">> \o Unescaped(Remainder(s, 3))
      /\ 1 \notin Outs(s) => Unescaped(s) = <<s[1]>> \o Unescaped(Remainder(s, 1))
  BY UnescapedNext
<1>3. ASSUME NEW d \in 0..Len(s) PROVE Unescaped(Remainder(s, d)) \in Seq(C)
  BY AfterIs, UnescapedNext
<1> HIDE DEF C
<1>4. ASSUME NEW h \in Seq(C), Len(h) # 0, NEW x \in Seq(C)
      PROVE  h \o x # <<>> /\ (h \o x)[1] = h[1]
  <2>1. Len(h) \in Nat /\ Len(x) \in Nat
    OBVIOUS
  <2>2. IsJoin(h \o x, h, x)
    BY JoinIs
  <2> DEFINE hx == h \o x
             n == Len(h)
             m == Len(x)
  <2>3. Len(hx) = n + m /\ \A i \in 1..n : hx[i] = h[i]
    BY <2>2 DEF IsJoin
  <2> HIDE DEF hx, n, m
  <2>4. n \in Nat \ {0} /\ m \in Nat
    BY <1>4, <2>1 DEF n, m
  <2>5. Len(hx) # 0 /\ 1 \in 1..n
    BY <2>3, <2>4
  <2>6. hx # <<>>
    BY <2>5
  <2> QED BY <2>3, <2>5, <2>6 DEF hx
<1>5. CASE 1 \in Outs(s)
  <2>1. 3 \in 0..Len(s) /\ s[1] = "00"
    BY <1>1, <1>5 DEF Outs, Zeros
  <2>2. <<"00", "00">> \in Seq(C) /\ Len(<<"00", "00">>) # 0 /\ <<"00", "00">>[1] = "00"
    BY <1>1
  <2> QED BY <1>2, <1>3, <1>4, <1>5, <2>1, <2>2
<1>6. CASE 1 \notin Outs(s)
  <2>1. 1 \in 0..Len(s)
    BY <1>1
  <2>2. <<s[1]>> \in Seq(C) /\ Len(<<s[1]>>) # 0 /\ <<s[1]>>[1] = s[1]
    BY <1>1
  <2> QED BY <1>2, <1>3, <1>4, <1>6, <2>1, <2>2
<1> QED BY <1>5, <1>6

LEMMA NoLonger ==
  ASSUME NEW s \in Seq(Octets)
  PROVE  Len(Unescaped(s)) <= Len(s)
<1> DEFINE C == Octets
           B == {x \in Seq(C) : ~(Len(Unescaped(x)) <= Len(x))}
<1>1. SUFFICES ASSUME B # {} PROVE FALSE
  OBVIOUS
<1>2. PICK x \in B : \A t \in Seq(C) : Len(t) < Len(x) => t \notin B
  <2>1. B \in SUBSET Seq(C)
    OBVIOUS
  <2> HIDE DEF B, C
  <2> QED BY <1>1, <2>1, ShortestOne
<1>3. x \in Seq(C) /\ ~(Len(Unescaped(x)) <= Len(x))
  OBVIOUS
<1>4. \A t \in Seq(C) : Len(t) < Len(x) => Len(Unescaped(t)) <= Len(t)
  BY <1>2
<1> HIDE DEF B
<1>5. Len(x) \in Nat
  BY <1>3
<1>6. x # <<>>
  <2>1. x = <<>> => Unescaped(x) = <<>>
    BY <1>3, UnescapedNext
  <2>2. Len(<<>>) <= Len(<<>>)
    OBVIOUS
  <2> QED BY <1>3, <2>1, <2>2
<1>7. Len(x) # 0
  BY <1>3, <1>6
<1>8. ASSUME NEW d \in 1..Len(x), NEW h \in Seq(C), Len(h) <= d, Unescaped(x) = h \o Unescaped(Remainder(x, d))
      PROVE  FALSE
  <2> DEFINE t == Remainder(x, d)
  <2>1. t \in Seq(C) /\ IsAfter(t, x, d)
    <3>1. d \in 0..Len(x)
      BY <1>5
    <3> QED BY <1>3, <3>1, AfterIs
  <2> HIDE DEF t
  <2>2. Len(t) = Len(x) - d
    BY <2>1 DEF IsAfter
  <2>3. Len(Unescaped(t)) <= Len(t)
    BY <1>4, <1>5, <2>1, <2>2
  <2>4. Unescaped(t) \in Seq(C)
    BY <2>1, UnescapedNext
  <2> DEFINE y == Unescaped(t)
  <2> HIDE DEF y, C
  <2>5. Len(h \o y) = Len(h) + Len(y) /\ Len(h) \in Nat /\ Len(y) \in Nat
    BY <2>4, JoinIs DEF IsJoin, y
  <2>6. Unescaped(x) = h \o y
    BY <1>8 DEF y, t
  <2> QED BY <1>3, <1>5, <1>8, <2>2, <2>3, <2>5, <2>6 DEF y
<1>9. CASE 1 \in Outs(x)
  <2>1. 3 \in 1..Len(x)
    BY <1>5, <1>9 DEF Outs
  <2>2. Unescaped(x) = <<"00", "00">> \o Unescaped(Remainder(x, 3))
    BY <1>3, <1>6, <1>9, UnescapedNext
  <2>3. <<"00", "00">> \in Seq(C) /\ Len(<<"00", "00">>) <= 3
    BY OctetsAre
  <2> HIDE DEF C
  <2> QED BY <1>8, <2>1, <2>2, <2>3
<1>10. CASE 1 \notin Outs(x)
  <2>1. 1 \in 1..Len(x)
    BY <1>5, <1>7
  <2>2. Unescaped(x) = <<x[1]>> \o Unescaped(Remainder(x, 1))
    BY <1>3, <1>6, <1>10, UnescapedNext
  <2>3. <<x[1]>> \in Seq(C) /\ Len(<<x[1]>>) <= 1
    BY <1>3, <2>1
  <2> HIDE DEF C
  <2> QED BY <1>8, <2>1, <2>2, <2>3
<1> QED BY <1>9, <1>10

\* The escapes of u are those that its bytes need, and it ends with no zero.
Proper(u) ==
  /\ Closed(u)
  /\ \A k \in 1..(Len(u) - 2) : Zeros(u, k) =>
       /\ u[k + 2] \notin {"00", "01", "02"}
       /\ u[k + 2] = "03" => k + 2 < Len(u) /\ u[k + 3] \in {"00", "01", "02"} /\ ~Zeros(u, k + 3)

LEMMA ClosedJoined ==
  ASSUME NEW C, NEW a \in Seq(C), NEW b \in Seq(C), b = <<>> => Closed(a), Closed(b)
  PROVE  Closed(a \o b)
<1>1. CASE b = <<>>
  BY <1>1, ConcatEmptySeq
<1>2. CASE b # <<>>
  <2> DEFINE n == Len(a)
             m == Len(b)
             ab == a \o b
  <2>1. n \in Nat /\ m \in Nat \ {0} /\ b[m] # "00"
    BY <1>2, EmptySeq DEF Closed
  <2>2. IsJoin(ab, a, b)
    BY JoinIs
  <2> HIDE DEF ab
  <2>3. Len(ab) = n + m /\ \A i \in 1..m : ab[n + i] = b[i]
    BY <2>2 DEF IsJoin
  <2> HIDE DEF n, m
  <2>4. ab[n + m] = b[m]
    BY <2>1, <2>3
  <2>5. ab[Len(ab)] # "00"
    BY <2>1, <2>3, <2>4
  <2> QED BY <2>5 DEF Closed, ab
<1> QED BY <1>1, <1>2

LEMMA ProperAfter ==
  ASSUME NEW s \in Seq(Octets), Proper(s), NEW d \in 0..Len(s)
  PROVE  Proper(Remainder(s, d))
<1> DEFINE t == Remainder(s, d)
<1>1. Closed(t)
  BY ClosedAfter DEF Proper
<1>2. t \in Seq(Octets) /\ IsAfter(t, s, d)
  BY AfterIs
<1> HIDE DEF t
<1> DEFINE n == Len(s)
           m == Len(t)
<1>3. n \in Nat /\ m = n - d /\ \A j \in 1..(n - d) : t[j] = s[d + j]
  BY <1>2 DEF IsAfter
<1> SUFFICES ASSUME NEW k \in 1..(m - 2), Zeros(t, k)
             PROVE  /\ t[k + 2] \notin {"00", "01", "02"}
                    /\ t[k + 2] = "03" => k + 2 < m /\ t[k + 3] \in {"00", "01", "02"} /\ ~Zeros(t, k + 3)
  BY <1>1 DEF Proper, t
<1> HIDE DEF n, m
<1>4. /\ d + k \in 1..(n - 2) /\ t[k] = s[d + k] /\ t[k + 1] = s[d + k + 1] /\ t[k + 2] = s[d + k + 2]
      /\ d + k + 2 < n => k + 2 < m /\ t[k + 3] = s[d + k + 3]
  <2>1. d \in Nat /\ k \in 1..(n - d - 2) /\ n - d \in Int
    BY <1>3
  <2>2. k \in 1..(n - d) /\ k + 1 \in 1..(n - d) /\ k + 2 \in 1..(n - d)
    BY <2>1
  <2>3. ASSUME d + k + 2 < n PROVE k + 2 < m /\ k + 3 \in 1..(n - d)
    BY <1>3, <2>1, <2>3
  <2>4. d + (k + 1) = d + k + 1 /\ d + (k + 2) = d + k + 2 /\ d + (k + 3) = d + k + 3
    BY <2>1
  <2>5. t[k] = s[d + k] /\ t[k + 1] = s[d + k + 1] /\ t[k + 2] = s[d + k + 2]
    <3>1. t[k] = s[d + k] /\ t[k + 1] = s[d + (k + 1)] /\ t[k + 2] = s[d + (k + 2)]
      BY <1>3, <2>2
    <3> QED BY <2>4, <3>1
  <2>6. ASSUME d + k + 2 < n PROVE k + 2 < m /\ t[k + 3] = s[d + k + 3]
    BY <1>3, <2>3, <2>4, <2>6
  <2>7. d + k \in 1..(n - 2)
    BY <1>3, <2>1
  <2> QED BY <2>5, <2>6, <2>7
<1>5. Zeros(s, d + k)
  BY <1>3, <1>4 DEF Zeros, n
<1>6. /\ s[d + k + 2] \notin {"00", "01", "02"}
      /\ s[d + k + 2] = "03" => d + k + 2 < n /\ s[d + k + 3] \in {"00", "01", "02"} /\ ~Zeros(s, d + k + 3)
  BY <1>4, <1>5 DEF Proper, n
<1>7. Zeros(t, k + 3) => Zeros(s, d + k + 3)
  <2> SUFFICES ASSUME Zeros(t, k + 3) PROVE Zeros(s, d + k + 3)
    OBVIOUS
  <2>1. k + 5 <= m /\ t[k + 3] = "00" /\ t[k + 4] = "00"
    BY DEF Zeros, m
  <2>2. t[k + 3] = s[d + k + 3] /\ t[k + 4] = s[d + k + 4] /\ d + k + 5 <= n
    BY <1>3, <2>1
  <2> QED BY <1>3, <2>1, <2>2 DEF Zeros, n
<1> QED BY <1>4, <1>6, <1>7

\* Behind an escape that is taken out.
LEMMA EscapeBack ==
  ASSUME NEW s \in Seq(Octets), Proper(s), 1 \in Outs(s),
         \A t \in Seq(Octets) : Len(t) < Len(s) /\ Proper(t) =>
           Escaped(Unescaped(t)) = t /\ Closed(Unescaped(t))
  PROVE  Escaped(Unescaped(s)) = s /\ Closed(Unescaped(s))
<1> DEFINE C == Octets
           t == Remainder(s, 3)
           r == Remainder(s, 4)
           x == s[4]
           y == Unescaped(r)
<1>1. /\ Len(s) \in Nat /\ Len(s) >= 4 /\ s[1] = "00" /\ s[2] = "00" /\ s[3] = "03"
      /\ x \in {"00", "01", "02"} /\ ~Zeros(s, 4)
  <2>1. Len(s) \in Nat /\ Len(s) >= 3 /\ 1 \in 1..(Len(s) - 2) /\ Zeros(s, 1) /\ s[1 + 2] = "03"
    BY DEF Outs
  <2>2. 1 + 2 < Len(s) /\ s[1 + 3] \in {"00", "01", "02"} /\ ~Zeros(s, 1 + 3)
    BY <2>1 DEF Proper
  <2> QED BY <2>1, <2>2 DEF Zeros
<1>2. t \in Seq(C) /\ IsAfter(t, s, 3) /\ r \in Seq(C) /\ IsAfter(r, s, 4) /\ Proper(r)
  <2>1. 3 \in 0..Len(s) /\ 4 \in 0..Len(s)
    BY <1>1
  <2> QED BY <2>1, AfterIs, ProperAfter
<1>3. y \in Seq(C) /\ s # <<>> /\ Unescaped(s) = <<"00", "00">> \o Unescaped(t)
  <2>1. s # <<>> /\ y \in Seq(C)
    <3>1. s # <<>>
      BY <1>1
    <3> HIDE DEF r
    <3> QED BY <1>2, <3>1, UnescapedNext
  <2> QED BY <2>1, UnescapedNext
<1>4. Escaped(y) = r /\ Closed(y)
  <2>1. Len(r) < Len(s)
    BY <1>1, <1>2 DEF IsAfter
  <2> QED BY <1>2, <2>1
<1>5. r = <<>> => x # "00"
  <2>1. SUFFICES ASSUME r = <<>> PROVE x # "00"
    OBVIOUS
  <2>2. Len(r) = 0
    BY <2>1
  <2>3. Len(s) = 4
    BY <1>1, <1>2, <2>2 DEF IsAfter
  <2> QED BY <1>1, <1>3, <2>3 DEF Proper, Closed
<1>6. t = <<x>> \o r /\ t # <<>> /\ t[1] = x /\ 1 \notin Outs(t) /\ Remainder(t, 1) = r
  <2>1. Len(t) = Len(s) - 3 /\ Len(r) = Len(s) - 4
        /\ (\A j \in 1..(Len(s) - 3) : t[j] = s[3 + j]) /\ \A j \in 1..(Len(s) - 4) : r[j] = s[4 + j]
    BY <1>2 DEF IsAfter
  <2>2. t[1] = x /\ Len(t) >= 1 /\ t # <<>>
    BY <1>1, <2>1
  <2>3. 1 \notin Outs(t)
    <3>1. SUFFICES ASSUME 1 \in Outs(t) PROVE FALSE
      OBVIOUS
    <3>2. Len(t) >= 3 /\ t[1] = "00" /\ t[2] = "00"
      BY <1>2, <3>1 DEF Outs, Zeros
    <3>3. Len(s) >= 6 /\ s[4] = "00" /\ s[5] = "00"
      BY <1>1, <2>1, <3>2
    <3> QED BY <1>1, <3>3 DEF Zeros
  <2>4. IsJoin(t, <<x>>, r)
    <3>1. Len(<<x>>) = 1 /\ <<x>>[1] = x
      OBVIOUS
    <3> HIDE DEF t, r, x
    <3> QED BY <1>1, <2>1, <2>2, <3>1 DEF IsJoin
  <2>5. x \in C /\ <<x>> \in Seq(C)
    BY <1>1, OctetsAre
  <2>6. t = <<x>> \o r
    <3> HIDE DEF t, r, x, C
    <3> QED BY <1>2, <2>4, <2>5, JoinOnly
  <2>7. Remainder(<<x>> \o r, 1) = r
    <3>1. Len(<<x>>) = 1
      OBVIOUS
    <3> HIDE DEF r, x, C
    <3> QED BY <1>2, <2>5, <3>1, AfterHead
  <2> QED BY <2>2, <2>3, <2>6, <2>7
<1>7. Unescaped(t) = <<x>> \o y
  BY <1>2, <1>6, UnescapedNext
<1>8. "00" \in C /\ "03" \in C /\ x \in C
  BY <1>1, OctetsAre
<1> DEFINE z == Unescaped(s)
           h == <<"00", "00", x>>
           f == <<"00", "00", "03", x>>
<1> HIDE DEF C, y, r, t, x, z
<1>9. /\ h \in Seq(C) /\ Len(h) = 3 /\ h[1] = "00" /\ h[2] = "00" /\ h[3] = x
      /\ f \in Seq(C) /\ Len(f) = 4 /\ f[1] = "00" /\ f[2] = "00" /\ f[3] = "03" /\ f[4] = x
  BY <1>8, ThreeAndFour
<1>10. z = h \o y
  <2>1. <<"00", "00">> \in Seq(C) /\ <<x>> \in Seq(C)
    BY <1>8
  <2>2. Regroups(<<"00", "00">>, <<x>>, y)
    BY <1>3, <2>1, Regrouped
  <2>3. <<"00", "00">> \o <<x>> = h
    BY <1>8, ThreeJoined
  <2> HIDE DEF h
  <2> QED BY <1>3, <1>7, <2>2, <2>3 DEF Regroups, z
<1> HIDE DEF h, f
<1>11. Closed(z)
  <2>1. y = <<>> => Closed(h)
    <3>1. SUFFICES ASSUME y = <<>> PROVE Closed(h)
      OBVIOUS
    <3>2. Escaped(<<>>) = <<>>
      BY EscapedNext, EmptySeq
    <3>3. r = <<>>
      BY <1>4, <3>1, <3>2
    <3> QED BY <1>5, <1>9, <3>3 DEF Closed
  <2> QED BY <1>3, <1>4, <1>9, <1>10, <2>1, ClosedJoined
<1>12. z \in Seq(Octets) /\ IsJoin(z, h, y)
  BY <1>3, <1>9, <1>10, JoinIs DEF C
<1>13. Len(z) \in Nat /\ Len(z) >= 3 /\ z[1] = "00" /\ z[2] = "00" /\ z[3] = x
  <2>1. Len(z) = Len(h) + Len(y) /\ \A i \in 1..Len(h) : z[i] = h[i]
    BY <1>12 DEF IsJoin
  <2>2. Len(y) \in Nat
    BY <1>3
  <2> QED BY <1>9, <2>1, <2>2
<1>14. 1 \in Ins(z)
  BY <1>1, <1>13 DEF Ins, Zeros, NeedsEscape
<1>15. Remainder(z, 3) = y
  BY <1>3, <1>9, <1>10, AfterHead
<1>16. Escaped(z) = f \o r
  <2>1. z # <<>>
    BY <1>13
  <2>2. Escaped(z) = <<"00", "00", "03", z[3]>> \o Escaped(Remainder(z, 3))
    BY <1>12, <1>14, <2>1, EscapedNext
  <2> QED BY <1>4, <1>13, <1>15, <2>2 DEF f
<1>17. f \o r = s
  <2>1. Len(f) <= Len(s) /\ \A i \in 1..Len(f) : s[i] = f[i]
    <3>1. \A i \in 1..4 : i = 1 \/ i = 2 \/ i = 3 \/ i = 4
      OBVIOUS
    <3> QED BY <1>1, <1>9, <3>1 DEF x
  <2>2. f \o Remainder(s, Len(f)) = s
    BY <1>9, <2>1, HeadAndAfter DEF C
  <2> QED BY <1>9, <2>2 DEF r
<1> QED BY <1>11, <1>16, <1>17 DEF z

\* Where none is taken out, none is put in.
LEMMA NoneBack ==
  ASSUME NEW s \in Seq(Octets), s # <<>>, Proper(s), 1 \notin Outs(s),
         \A t \in Seq(Octets) : Len(t) < Len(s) /\ Proper(t) =>
           Escaped(Unescaped(t)) = t /\ Closed(Unescaped(t))
  PROVE  Escaped(Unescaped(s)) = s /\ Closed(Unescaped(s))
<1> DEFINE C == Octets
           t == Remainder(s, 1)
           x == s[1]
           y == Unescaped(t)
           z == Unescaped(s)
<1>1. Len(s) \in Nat \ {0} /\ 1 \in 0..Len(s) /\ 1 \in 1..Len(s)
  BY EmptySeq
<1>2. t \in Seq(C) /\ IsAfter(t, s, 1) /\ Proper(t) /\ x \in C
  BY <1>1, AfterIs, ProperAfter
<1>3. y \in Seq(C) /\ z = <<x>> \o y
  BY <1>2, UnescapedNext
<1>4. Escaped(y) = t /\ Closed(y)
  <2>1. Len(t) < Len(s)
    BY <1>1, <1>2 DEF IsAfter
  <2> QED BY <1>2, <2>1
<1>5. <<x>> \in Seq(C) /\ Len(<<x>>) = 1 /\ <<x>>[1] = x
  BY <1>2
<1>6. t = <<>> => y = <<>>
  BY <1>2, UnescapedNext
<1>7. \A i \in 1..(Len(s) - 1) : t[i] = s[1 + i]
  BY <1>2 DEF IsAfter
<1>8. Len(t) = Len(s) - 1 /\ Len(t) \in Nat
  BY <1>2 DEF IsAfter
<1> HIDE DEF C, t, y, x, z
<1>9. z \in Seq(Octets) /\ IsJoin(z, <<x>>, y) /\ Remainder(z, 1) = y
  <2>1. Remainder(z, 1) = y
    BY <1>3, <1>5, AfterHead
  <2>2. z \in Seq(C) /\ IsJoin(z, <<x>>, y)
    BY <1>3, <1>5, JoinIs
  <2> QED BY <2>1, <2>2 DEF C
<1>10. /\ Len(z) = 1 + Len(y) /\ Len(y) \in Nat /\ z[1] = x /\ z # <<>>
       /\ \A i \in 1..Len(y) : z[1 + i] = y[i]
  <2>1. /\ Len(z) = 1 + Len(y) /\ z[1] = x
        /\ \A i \in 1..Len(y) : z[1 + i] = y[i]
    BY <1>5, <1>9 DEF IsJoin
  <2>2. Len(y) \in Nat
    BY <1>3
  <2> QED BY <1>9, <2>1, <2>2
<1>11. Closed(z)
  <2>1. y = <<>> => Closed(<<x>>)
    <3>1. SUFFICES ASSUME y = <<>> PROVE Closed(<<x>>)
      OBVIOUS
    <3>2. Escaped(<<>>) = <<>>
      BY EscapedNext, EmptySeq
    <3>3. Len(s) = 1
      <4>1. t = <<>>
        BY <1>4, <3>1, <3>2
      <4>2. Len(t) = 0
        BY <4>1
      <4> QED BY <1>1, <1>8, <4>2
    <3>4. x # "00"
      BY <3>3 DEF Proper, Closed, x
    <3> QED BY <1>5, <3>4 DEF Closed
  <2> QED BY <1>3, <1>4, <1>5, <2>1, ClosedJoined
<1>12. 1 \notin Ins(z)
  <2>1. SUFFICES ASSUME 1 \in Ins(z) PROVE FALSE
    OBVIOUS
  <2>2. Len(z) >= 3 /\ z[1] = "00" /\ z[2] = "00" /\ z[3] \in {"00", "01", "02"}
    BY <1>10, <2>1 DEF Ins, Zeros, NeedsEscape
  <2>3. Len(y) >= 2 /\ y[1] = "00" /\ y[2] \in {"00", "01", "02"} /\ x = "00"
    <3>1. Len(y) >= 2
      BY <1>10, <2>2
    <3>2. z[1 + 1] = y[1] /\ z[1 + 2] = y[2]
      BY <1>10, <3>1
    <3> QED BY <1>10, <2>2, <3>1, <3>2
  <2>4. Len(t) # 0 /\ t # <<>>
    <3>1. y # <<>>
      BY <2>3
    <3>2. t # <<>>
      BY <1>6, <3>1
    <3> QED BY <1>2, <3>2, EmptySeq
  <2>5. t[1] = "00" /\ Len(s) >= 2 /\ s[2] = "00"
    <3>1. y[1] = t[1]
      BY <1>2, <2>4, FirstKept DEF C, y
    <3>2. Len(s) >= 2
      BY <1>1, <1>8, <2>4
    <3> QED BY <1>7, <2>3, <3>1, <3>2
  <2>6. 1 \notin Outs(t)
    <3>1. SUFFICES ASSUME 1 \in Outs(t) PROVE FALSE
      OBVIOUS
    <3>2. Len(t) >= 3 /\ t[2] = "00"
      BY <1>8, <3>1 DEF Outs, Zeros
    <3>3. Len(s) >= 4 /\ s[3] = "00"
      BY <1>1, <1>7, <1>8, <3>2
    <3>4. Zeros(s, 1) /\ 1 \in 1..(Len(s) - 2) /\ s[1 + 2] = "00"
      BY <2>3, <2>5, <3>3 DEF Zeros, x
    <3> QED BY <3>4 DEF Proper
  <2> DEFINE r == Remainder(t, 1)
             q == Unescaped(r)
  <2>7. r \in Seq(C) /\ IsAfter(r, t, 1) /\ q \in Seq(C) /\ y = <<t[1]>> \o q
    <3>1. 1 \in 0..Len(t)
      BY <1>8, <2>4
    <3> QED BY <1>2, <2>4, <2>6, <3>1, AfterIs, UnescapedNext DEF C, y
  <2>8. r = <<>> => q = <<>>
    <3> HIDE DEF r
    <3> QED BY <2>7, UnescapedNext DEF C
  <2>9. r # <<>> => q[1] = r[1]
    BY <2>7, FirstKept DEF C
  <2>10. Len(r) = Len(t) - 1 /\ \A i \in 1..(Len(t) - 1) : r[i] = t[1 + i]
    BY <2>7 DEF IsAfter
  <2> HIDE DEF r, q
  <2>11. Len(q) >= 1 /\ q[1] = y[2]
    <3>1. <<t[1]>> \in Seq(C) /\ Len(<<t[1]>>) = 1
      BY <1>2, <2>4, <1>8, ElementOfSeq
    <3>2. IsJoin(y, <<t[1]>>, q)
      BY <2>7, <3>1, JoinIs
    <3>3. Len(y) = 1 + Len(q) /\ \A i \in 1..Len(q) : y[1 + i] = q[i]
      BY <3>1, <3>2 DEF IsJoin
    <3>4. Len(q) \in Nat
      BY <2>7
    <3> QED BY <2>3, <3>3, <3>4
  <2>12. r # <<>>
    <3>1. q # <<>>
      BY <2>11
    <3> QED BY <2>8, <3>1
  <2>13. Len(r) # 0
    BY <2>7, <2>12, EmptySeq
  <2>14. Len(s) >= 3 /\ s[3] = y[2]
    <3>1. Len(t) >= 2
      BY <1>8, <2>4, <2>10, <2>13
    <3>2. r[1] = t[2] /\ t[2] = s[3]
      BY <1>7, <1>8, <1>1, <2>10, <3>1
    <3> QED BY <1>1, <1>8, <2>9, <2>11, <2>12, <3>1, <3>2
  <2>15. Zeros(s, 1) /\ 1 \in 1..(Len(s) - 2) /\ s[1 + 2] \in {"00", "01", "02"}
    BY <1>1, <2>3, <2>5, <2>14 DEF Zeros, x
  <2> QED BY <2>15 DEF Proper
<1>13. Escaped(z) = <<x>> \o t
  <2>1. Escaped(z) = <<z[1]>> \o Escaped(Remainder(z, 1))
    BY <1>9, <1>10, <1>12, EscapedNext
  <2> QED BY <1>4, <1>9, <1>10, <2>1
<1>14. <<x>> \o t = s
  <2>1. \A i \in 1..1 : s[i] = <<x>>[i]
    BY <1>5 DEF x
  <2>2. <<x>> \o Remainder(s, Len(<<x>>)) = s
    <3> DEFINE h == <<x>>
    <3>1. h \in Seq(C) /\ Len(h) <= Len(s) /\ \A i \in 1..Len(h) : s[i] = h[i]
      BY <1>1, <1>5, <2>1
    <3> HIDE DEF h
    <3>2. h \o Remainder(s, Len(h)) = s
      BY <3>1, HeadAndAfter DEF C
    <3> QED BY <3>2 DEF h
  <2> QED BY <1>5, <2>2 DEF t
<1> QED BY <1>11, <1>13, <1>14 DEF z

\* What is unescaped and escaped again comes back, where the escapes are proper.
LEMMA EscapesComeBack ==
  ASSUME NEW u \in Seq(Octets), Proper(u)
  PROVE  Escaped(Unescaped(u)) = u /\ Closed(Unescaped(u))
<1> DEFINE Fails(x) == Proper(x) /\ ~(Escaped(Unescaped(x)) = x /\ Closed(Unescaped(x)))
           B == {x \in Seq(Octets) : Fails(x)}
<1>1. SUFFICES ASSUME B # {} PROVE FALSE
  OBVIOUS
<1>2. PICK x \in B : \A t \in Seq(Octets) : Len(t) < Len(x) => t \notin B
  <2>1. B \in SUBSET Seq(Octets)
    OBVIOUS
  <2> HIDE DEF B
  <2> QED BY <1>1, <2>1, ShortestOne
<1>3. x \in Seq(Octets) /\ Proper(x) /\ ~(Escaped(Unescaped(x)) = x /\ Closed(Unescaped(x)))
  OBVIOUS
<1>4. \A t \in Seq(Octets) : Len(t) < Len(x) /\ Proper(t) =>
        Escaped(Unescaped(t)) = t /\ Closed(Unescaped(t))
  BY <1>2
<1> HIDE DEF B
<1>5. x # <<>>
  <2>1. Unescaped(<<>>) = <<>> /\ Escaped(<<>>) = <<>>
    BY UnescapedNext, EscapedNext, EmptySeq
  <2>2. SUFFICES ASSUME x = <<>> PROVE FALSE
    OBVIOUS
  <2> QED BY <1>3, <2>1, <2>2 DEF Closed
<1>6. CASE 1 \in Outs(x)
  BY <1>3, <1>4, <1>6, EscapeBack
<1>7. CASE 1 \notin Outs(x)
  BY <1>3, <1>4, <1>5, <1>7, NoneBack
<1> QED BY <1>6, <1>7

-----------------------------------------------------------------------------
(* The cipher and one NAL unit                                                 *)

LEMMA PlaceIs ==
  ASSUME NEW b \in ToSet(Cycle)
  PROVE  /\ Len(Cycle) \in Nat \ {0} /\ Place(b) \in 0..(Len(Cycle) - 1) /\ Cycle[Place(b) + 1] = b
         /\ \A i \in 1..Len(Cycle) : Cycle[i] \in ToSet(Cycle) /\ Place(Cycle[i]) = i - 1
<1>1. Cycle \in Seq(STRING) /\ \A i, j \in 1..Len(Cycle) : Cycle[i] = Cycle[j] => i = j
  BY CipherAssumption
<1>2. ToSet(Cycle) = {Cycle[i] : i \in 1..Len(Cycle)}
  BY <1>1 DEF ToSet
<1>3. ASSUME NEW i \in 1..Len(Cycle)
      PROVE  Place(Cycle[i]) = i - 1
  <2> DEFINE c == Cycle[i]
             I == {j \in 1..Len(Cycle) : Cycle[j] = c}
  <2>1. I = {i}
    BY <1>1
  <2>2. Min(I) = i
    <3>1. I \in SUBSET Nat /\ IsFiniteSet(I) /\ I # {}
      <4>1. i \in Nat
        OBVIOUS
      <4> HIDE DEF I
      <4>2. IsFiniteSet({i})
        BY FS_Singleton
      <4> QED BY <2>1, <4>1, <4>2
    <3>2. Min(I) \in I
      <4> HIDE DEF I
      <4> QED BY <3>1, MaxOfFinite
    <3> QED BY <2>1, <3>2
  <2>3. SelectInSeq(Cycle, LAMBDA x : x = c) = i
    BY <2>1, <2>2 DEF SelectInSeq
  <2> QED BY <2>3 DEF Place
<1>4. PICK i \in 1..Len(Cycle) : b = Cycle[i]
  BY <1>2
<1>5. Len(Cycle) \in Nat
  BY <1>1
<1>6. Place(b) = i - 1
  BY <1>3, <1>4
<1> QED BY <1>2, <1>3, <1>4, <1>5, <1>6

\* A byte turned back and forth is what it was.
LEMMA TurnedBack ==
  ASSUME NEW b \in Octets, NEW n \in Int
  PROVE  Turn(b, -n) \in Octets /\ Turn(Turn(b, -n), n) = b /\ Turn(b, -0) = b
<1>1. CASE b \in ToSet(Cycle)
  <2> DEFINE L == Len(Cycle)
             a == Place(b)
             j == ((a - n) % L) + 1
  <2>1. L \in Nat \ {0} /\ a \in 0..(L - 1) /\ Cycle[a + 1] = b
    BY <1>1, PlaceIs
  <2>2. (a - n) % L \in 0..(L - 1) /\ (((a - n) % L) + n) % L = a /\ (a + 0) % L = a
    <3> HIDE DEF L, a
    <3> QED BY <2>1, AroundAndBack
  <2>3. Turn(b, -n) = Cycle[j]
    <3>1. a + (-n) = a - n
      BY <2>1
    <3> QED BY <1>1, <3>1 DEF Turn
  <2>4. j \in 1..L /\ j - 1 = (a - n) % L
    <3> HIDE DEF L, a
    <3> QED BY <2>1, <2>2
  <2>5. Cycle[j] \in ToSet(Cycle) /\ Place(Cycle[j]) = j - 1
    BY <1>1, <2>4, PlaceIs
  <2>6. Turn(Cycle[j], n) = Cycle[((j - 1 + n) % L) + 1]
    BY <2>5 DEF Turn
  <2>7. (j - 1 + n) % L = a
    <3> HIDE DEF L, a, j
    <3> QED BY <2>2, <2>4
  <2>8. Turn(b, -0) = Cycle[((a + 0) % L) + 1]
    <3>1. a + (-0) = a + 0
      BY <2>1
    <3> QED BY <1>1, <3>1 DEF Turn
  <2>9. Cycle[j] \in STRING
    BY <2>4, CipherAssumption
  <2> QED BY <2>1, <2>2, <2>3, <2>6, <2>7, <2>8, <2>9, OctetsAre
<1>2. CASE b \notin ToSet(Cycle)
  BY <1>2 DEF Turn
<1> QED BY <1>1, <1>2

\* A unit with its blocks encrypted.
Encrypted(u) == [k \in DOMAIN u |-> Turn(u[k], -BlockNumber(u, k))]

LEMMA BlockNumbers ==
  ASSUME NEW u \in Seq(Octets), NEW k \in 1..Len(u)
  PROVE  BlockNumber(u, k) \in Int /\ (k = 1 \/ k = Len(u) => BlockNumber(u, k) = 0)
<1>1. Leader \in Nat \ {0} /\ Stride \in Nat \ {0} /\ Len(u) \in Nat
  BY CipherAssumption
<1>2. ~(k > Leader /\ k < Len(u)) => BlockNumber(u, k) = 0
  BY DEF BlockNumber
<1>3. k - 1 - Leader \in Int
  BY <1>1
<1>4. (k - 1 - Leader) \div Stride \in Int
  <2> DEFINE x == k - 1 - Leader
  <2> HIDE DEF x
  <2>1. x \div Stride \in Int
    BY <1>1, <1>3 DEF x
  <2> QED BY <2>1 DEF x
<1>5. BlockNumber(u, k) = 0 \/ BlockNumber(u, k) = ((k - 1 - Leader) \div Stride) + 1
  BY DEF BlockNumber
<1>6. BlockNumber(u, k) \in Int
  <2> DEFINE x == (k - 1 - Leader) \div Stride
  <2> HIDE DEF x
  <2> QED BY <1>4, <1>5 DEF x
<1> QED BY <1>1, <1>2, <1>6

LEMMA EncryptedIs ==
  ASSUME NEW u \in Seq(Octets), u # <<>>
  PROVE  /\ Encrypted(u) \in Seq(Octets) /\ Len(Encrypted(u)) = Len(u) /\ Encrypted(u) # <<>>
         /\ Encrypted(u)[1] = u[1] /\ Encrypted(u)[Len(u)] = u[Len(u)]
         /\ \A k \in 1..Len(u) : Encrypted(u)[k] = Turn(u[k], -BlockNumber(u, k))
<1> DEFINE e == Encrypted(u)
           n == Len(u)
<1>1. n \in Nat \ {0} /\ DOMAIN u = 1..n /\ \A k \in 1..n : u[k] \in Octets
  BY EmptySeq
<1>2. e = [k \in 1..n |-> Turn(u[k], -BlockNumber(u, k))]
  BY <1>1 DEF Encrypted
<1>3. \A k \in 1..n : Turn(u[k], -BlockNumber(u, k)) \in Octets
  BY <1>1, BlockNumbers, TurnedBack
<1> HIDE DEF e, n
<1>4. e \in Seq(Octets) /\ Len(e) = n /\ e # <<>>
  BY <1>1, <1>2, <1>3
<1>5. \A k \in 1..n : e[k] = Turn(u[k], -BlockNumber(u, k))
  BY <1>2
<1>6. ASSUME NEW k \in 1..n, k = 1 \/ k = n
      PROVE  e[k] = u[k]
  <2>1. BlockNumber(u, k) = 0
    BY <1>6, BlockNumbers DEF n
  <2>2. Turn(u[k], -0) = u[k]
    BY <1>1, TurnedBack
  <2> QED BY <1>5, <2>1, <2>2
<1>7. 1 \in 1..n /\ n \in 1..n
  BY <1>1
<1>8. e[1] = u[1] /\ e[n] = u[n]
  BY <1>6, <1>7
<1> QED BY <1>4, <1>5, <1>8 DEF e, n

\* What was encrypted is opened again.
LEMMA UnitOpened ==
  ASSUME NEW u \in Seq(Octets), u # <<>>, IsEncrypted(u)
  PROVE  OpenUnit(Encrypted(u)) = u
<1> DEFINE e == Encrypted(u)
           n == Len(u)
<1>1. /\ e \in Seq(Octets) /\ Len(e) = n /\ e # <<>> /\ e[1] = u[1]
      /\ \A k \in 1..n : e[k] = Turn(u[k], -BlockNumber(u, k))
  BY EncryptedIs
<1> HIDE DEF e
<1>2. IsEncrypted(e)
  BY <1>1 DEF IsEncrypted
<1>3. DOMAIN e = 1..n /\ DOMAIN u = 1..n
  BY <1>1
<1>4. \A k \in 1..n : BlockNumber(e, k) = BlockNumber(u, k)
  BY <1>1 DEF BlockNumber
<1>5. OpenUnit(e) = [k \in 1..n |-> IF BlockNumber(u, k) = 0 THEN e[k] ELSE Turn(e[k], BlockNumber(u, k))]
  BY <1>1, <1>2, <1>3, <1>4 DEF OpenUnit, Open
<1>6. \A k \in 1..n : u[k] = IF BlockNumber(u, k) = 0 THEN e[k] ELSE Turn(e[k], BlockNumber(u, k))
  <2> TAKE k \in 1..n
  <2>1. u[k] \in Octets /\ BlockNumber(u, k) \in Int
    BY BlockNumbers
  <2>2. Turn(Turn(u[k], -BlockNumber(u, k)), BlockNumber(u, k)) = u[k] /\ Turn(u[k], -0) = u[k]
    BY <2>1, TurnedBack
  <2> QED BY <1>1, <2>2
<1>7. u = [k \in 1..n |-> u[k]]
  BY <1>3
<1>8. OpenUnit(e) = u
  BY <1>5, <1>6, <1>7
<1> QED BY <1>8 DEF e

\* The unit that comes out of the escapes taken away from what was sent.
Arrived(u) == IF IsEncrypted(u) THEN Encrypted(u) ELSE Unescaped(u)

\* A unit that an encoder may make, and that loses no escape for good.
Sendable(u) ==
  /\ u # <<>> /\ u[Len(u)] # "00"
  /\ \A k \in 1..(Len(u) - 2) : Zeros(u, k) =>
       /\ u[k + 2] \notin {"00", "01", "02"}
       /\ u[k + 2] = "03" /\ k + 2 < Len(u) => u[k + 3] \in {"00", "01", "02", "03"}
       /\ ~IsEncrypted(u) /\ u[k + 2] = "03" => ~(k + 2 = Len(u) \/ u[k + 3] = "03" \/ Zeros(u, k + 3))

\* What is sent for a unit arrives, and is made the unit again.
LEMMA UnitArrives ==
  ASSUME NEW u \in Seq(Octets), Sendable(u)
  PROVE  /\ Sent(u) \in Seq(Octets) /\ Closed(Sent(u)) /\ Unescaped(Sent(u)) = Arrived(u)
         /\ Arrived(u) \in Seq(Octets) /\ Arrived(u) # <<>> /\ Closed(Arrived(u))
         /\ Escaped(OpenUnit(Arrived(u))) = u
<1>1. u # <<>> /\ Len(u) \in Nat \ {0} /\ u[Len(u)] # "00"
  BY EmptySeq DEF Sendable
<1>2. CASE IsEncrypted(u)
  <2> DEFINE e == Encrypted(u)
  <2>1. e \in Seq(Octets) /\ e # <<>> /\ Len(e) = Len(u) /\ e[Len(u)] = u[Len(u)]
    BY <1>1, EncryptedIs
  <2>2. Sent(u) = EscapedAgain(e) /\ Arrived(u) = e
    BY <1>2 DEF Sent, Encrypted, Arrived
  <2>3. OpenUnit(e) = u
    BY <1>1, <1>2, UnitOpened
  <2> HIDE DEF e
  <2>4. Closed(e)
    BY <1>1, <2>1 DEF Closed
  <2>5. EscapedAgain(e) \in Seq(Octets) /\ Closed(EscapedAgain(e)) /\ Unescaped(EscapedAgain(e)) = e
    BY <2>1, <2>4, SentComesBack
  <2>6. Ins(u) = {}
    BY DEF Ins, NeedsEscape, Sendable
  <2>7. Escaped(u) = u
    BY <2>6, NothingRewritten
  <2> QED BY <2>1, <2>2, <2>3, <2>4, <2>5, <2>7
<1>3. CASE ~IsEncrypted(u)
  <2> DEFINE y == Unescaped(u)
  <2>1. Sent(u) = u /\ Arrived(u) = y
    BY <1>3 DEF Sent, Arrived
  <2>2. Proper(u)
    <3>1. Closed(u)
      BY <1>1 DEF Closed
    <3>2. ASSUME NEW k \in 1..(Len(u) - 2), Zeros(u, k)
          PROVE  /\ u[k + 2] \notin {"00", "01", "02"}
                 /\ u[k + 2] = "03" => k + 2 < Len(u) /\ u[k + 3] \in {"00", "01", "02"} /\ ~Zeros(u, k + 3)
      <4>1. /\ u[k + 2] \notin {"00", "01", "02"}
            /\ u[k + 2] = "03" /\ k + 2 < Len(u) => u[k + 3] \in {"00", "01", "02", "03"}
            /\ u[k + 2] = "03" => ~(k + 2 = Len(u) \/ u[k + 3] = "03" \/ Zeros(u, k + 3))
        BY <1>3, <3>2 DEF Sendable
      <4>2. k + 2 <= Len(u) /\ k \in Nat
        BY <1>1
      <4>3. k + 2 # Len(u) => k + 2 < Len(u)
        BY <1>1, <4>2
      <4> QED BY <4>1, <4>3
    <3> QED BY <3>1, <3>2 DEF Proper
  <2>3. y \in Seq(Octets) /\ Escaped(y) = u /\ Closed(y)
    BY <2>2, EscapesComeBack, UnescapedNext
  <2>4. y # <<>> /\ y[1] = u[1] /\ Len(y) <= Len(u)
    BY <1>1, FirstKept, NoLonger
  <2>5. OpenUnit(y) = y
    <3> HIDE DEF y
    <3>1. ~IsEncrypted(y)
      <4>1. Len(y) \in Nat /\ Shortest \in Nat
        BY <2>3, CipherAssumption
      <4> QED BY <1>1, <1>3, <2>4, <4>1 DEF IsEncrypted
    <3> QED BY <3>1 DEF OpenUnit
  <2>6. Closed(u)
    BY <1>1 DEF Closed
  <2> QED BY <2>1, <2>3, <2>4, <2>5, <2>6
<1> QED BY <1>2, <1>3

-----------------------------------------------------------------------------
(* Many NAL units and their bytes                                              *)

StartBytes == <<"00", "00", "01">>

\* What a byte and a unit of a text spell.
ByteOf == [c \in STRING |-> IF c = "S" THEN StartBytes ELSE <<c>>]
UnitOf == [u \in Seq(STRING) |-> StartBytes \o u]

LEMMA SpellingTyped ==
  /\ ByteOf \in [STRING -> Seq(Octets)] /\ UnitOf \in [Seq(STRING) -> Seq(Octets)]
  /\ StartBytes \in Seq(Octets)
<1>1. "00" \in Octets /\ "01" \in Octets /\ STRING \subseteq Octets
  BY OctetsAre
<1>2. StartBytes \in Seq(Octets)
  BY <1>1 DEF StartBytes
<1>3. \A u \in Seq(STRING) : u \in Seq(Octets)
  BY <1>1, SeqMonotonic
<1>4. \A u \in Seq(STRING) : StartBytes \o u \in Seq(Octets)
  <2> TAKE u \in Seq(STRING)
  <2> DEFINE m == StartBytes
  <2>1. m \in Seq(Octets) /\ u \in Seq(Octets)
    BY <1>2, <1>3
  <2> HIDE DEF m
  <2>2. m \o u \in Seq(Octets)
    BY <2>1, ConcatProperties
  <2> QED BY <2>2 DEF m
<1>5. \A c \in STRING : <<c>> \in Seq(Octets)
  BY <1>1
<1> QED BY <1>2, <1>4, <1>5 DEF ByteOf, UnitOf

LEMMA BytesAre ==
  ASSUME NEW s \in Seq(STRING)
  PROVE  Bytes(s) = Told(ByteOf, s)
<1>1. DOMAIN s = 1..Len(s) /\ \A k \in 1..Len(s) : s[k] \in STRING
  OBVIOUS
<1>2. \A k \in 1..Len(s) : ByteOf[s[k]] = IF s[k] = "S" THEN <<"00", "00", "01">> ELSE <<s[k]>>
  BY <1>1 DEF ByteOf, StartBytes
<1>3. [k \in DOMAIN s |-> IF s[k] = "S" THEN <<"00", "00", "01">> ELSE <<s[k]>>]
        = [k \in DOMAIN s |-> ByteOf[s[k]]]
  BY <1>1, <1>2
<1> QED BY <1>3 DEF Bytes, Told

\* The units of a text without its first start code spell what it spells with it.
SpellsUnits(w) == Told(UnitOf, Split(w, "S")) = StartBytes \o Told(ByteOf, w)

LEMMA UnitsSpelled ==
  ASSUME "S" \in STRING
  PROVE  \A w \in Seq(STRING) : SpellsUnits(w)
<1> DEFINE C == Octets
           m == StartBytes
           T == {w \in Seq(STRING) : SpellsUnits(w)}
<1>1. ByteOf \in [STRING -> Seq(C)] /\ UnitOf \in [Seq(STRING) -> Seq(C)] /\ m \in Seq(C)
      /\ <<>> \in Seq(STRING) /\ UnitOf[<<>>] = m
  <2>1. ByteOf \in [STRING -> Seq(C)] /\ UnitOf \in [Seq(STRING) -> Seq(C)] /\ m \in Seq(C)
    BY SpellingTyped
  <2>2. <<>> \in Seq(STRING)
    OBVIOUS
  <2>3. UnitOf[<<>>] = m
    <3>1. UnitOf[<<>>] = m \o <<>>
      BY <2>2 DEF UnitOf
    <3> HIDE DEF m, C
    <3>2. m \o <<>> = m
      BY <2>1, ConcatEmptySeq
    <3> QED BY <3>1, <3>2
  <2> QED BY <2>1, <2>2, <2>3
<1>2. \A s \in Seq(STRING) : Told(ByteOf, s) \in Seq(C)
  BY <1>1, ToldNext
<1>3. \A s \in Seq(Seq(STRING)) : Told(UnitOf, s) \in Seq(C)
  BY <1>1, ToldNext
<1>4. Told(ByteOf, <<>>) = <<>>
  BY <1>1, ToldNext
<1> HIDE DEF C, m
<1>5. SpellsUnits(<<>>)
  <2>1. Split(<<>>, "S") = <<<<>>>>
    BY <1>1, CutNext DEF Uncut
  <2>2. Told(UnitOf, <<<<>>>>) = UnitOf[<<>>]
    <3> DEFINE none == <<>>
    <3>1. none \in Seq(STRING) /\ <<>> \in Seq(Seq(STRING))
      OBVIOUS
    <3> HIDE DEF none
    <3>2. TellsOne(UnitOf, none)
      BY <1>1, <3>1, ToldLast
    <3> QED BY <3>2 DEF none, TellsOne
  <2>3. m \o <<>> = m
    BY <1>1, ConcatEmptySeq
  <2> QED BY <1>1, <1>4, <2>1, <2>2, <2>3 DEF SpellsUnits, m
<1>6. ASSUME NEW w \in T, NEW c \in STRING
      PROVE  Append(w, c) \in T
  <2> DEFINE r == Split(w, "S")
             x == Told(UnitOf, r)
             y == Told(ByteOf, w)
             wc == Append(w, c)
             o == ByteOf[c]
  <2>1. w \in Seq(STRING) /\ x = m \o y
    BY DEF SpellsUnits, m
  <2>2. r \in SegmentLists /\ Split(wc, "S") = Cutting(r, c, "S") /\ r \in Seq(Seq(STRING)) /\ r # <<>>
    BY <2>1, CutNext DEF SegmentLists
  <2>3. x \in Seq(C) /\ y \in Seq(C) /\ wc \in Seq(STRING) /\ o \in Seq(C)
    BY <1>1, <1>2, <1>3, <2>1, <2>2
  <2>4. Told(ByteOf, wc) = y \o o
    <3>1. TellsAlso(ByteOf, w, c)
      BY <1>1, <2>1, ToldLast
    <3> QED BY <3>1 DEF TellsAlso
  <2>5. Told(UnitOf, Cutting(r, c, "S")) = x \o o
    <3>1. CASE c = "S"
      <4>1. o = m /\ Cutting(r, c, "S") = Append(r, <<>>)
        BY <3>1 DEF ByteOf, Cutting, m
      <4>2. Told(UnitOf, Append(r, <<>>)) = x \o UnitOf[<<>>]
        <5> DEFINE none == <<>>
        <5>1. none \in Seq(STRING)
          OBVIOUS
        <5> HIDE DEF none
        <5>2. TellsAlso(UnitOf, r, none)
          <6> HIDE DEF r
          <6> QED BY <1>1, <2>2, <5>1, ToldLast
        <5> QED BY <5>2 DEF none, TellsAlso
      <4> QED BY <1>1, <4>1, <4>2
    <3>2. CASE c # "S"
      <4> DEFINE f == Front(r)
                 l == Last(r)
                 lc == Append(l, c)
                 z == Told(UnitOf, f)
                 k == <<c>>
                 ml == m \o l
      <4>1. o = k /\ Cutting(r, c, "S") = Append(f, lc)
        BY <3>2 DEF ByteOf, Cutting
      <4>2. f \in Seq(Seq(STRING)) /\ l \in Seq(STRING) /\ r = Append(f, l)
        BY <2>2, FrontAndLast
      <4>3. lc \in Seq(STRING) /\ z \in Seq(C) /\ l \in Seq(C) /\ k \in Seq(C)
        <5>1. Seq(STRING) \subseteq Seq(C)
          BY OctetsAre, SeqMonotonic DEF C
        <5> QED BY <1>3, <2>3, <4>1, <4>2, <5>1
      <4> HIDE DEF f, l
      <4>4. x = z \o UnitOf[l] /\ Told(UnitOf, Append(f, lc)) = z \o UnitOf[lc]
        <5>1. TellsAlso(UnitOf, f, l)
          BY <1>1, <4>2, ToldLast
        <5> HIDE DEF lc
        <5>2. TellsAlso(UnitOf, f, lc)
          BY <1>1, <4>2, <4>3, ToldLast
        <5> QED BY <4>2, <5>1, <5>2 DEF TellsAlso
      <4>5. UnitOf[l] = ml /\ UnitOf[lc] = m \o lc
        BY <4>2, <4>3 DEF UnitOf, m
      <4>6. lc = l \o k
        BY <4>2, AppendIsConcat
      <4>7. Regroups(m, l, k) /\ ml \in Seq(C)
        BY <1>1, <4>3, Regrouped
      <4> HIDE DEF lc, k, z, ml
      <4>8. Regroups(z, ml, k)
        BY <4>3, <4>7, Regrouped
      <4>9. UnitOf[lc] = ml \o k
        BY <4>5, <4>6, <4>7 DEF Regroups, ml
      <4> HIDE DEF x
      <4> QED BY <4>1, <4>4, <4>5, <4>8, <4>9 DEF Regroups
    <3> QED BY <3>1, <3>2
  <2>6. Regroups(m, y, o)
    <3> HIDE DEF x, y, o
    <3> QED BY <1>1, <2>3, Regrouped
  <2> HIDE DEF x, y, o, r
  <2>7. Told(UnitOf, Split(wc, "S")) = m \o Told(ByteOf, wc)
    BY <2>1, <2>2, <2>4, <2>5, <2>6 DEF Regroups
  <2> QED BY <2>3, <2>7 DEF SpellsUnits, m
<1>7. <<>> \in T
  BY <1>1, <1>5
<1>8. T = Seq(STRING)
  <2>1. T \in SUBSET Seq(STRING)
    OBVIOUS
  <2> HIDE DEF T
  <2> QED BY <1>6, <1>7, <2>1, SeqInduction
<1> QED BY <1>8

\* The bytes of a text that starts with a start code are those of its units.
LEMMA BytesOfUnits ==
  ASSUME NEW s \in Seq(STRING), s # <<>>, s[1] = "S"
  PROVE  Units(s) \in Seq(Seq(STRING)) /\ Bytes(s) = Told(UnitOf, Units(s))
<1> DEFINE w == Remainder(s, 1)
           d == s[1]
           us == Split(w, d)
<1>1. d \in STRING /\ w \in Seq(STRING) /\ s = <<d>> \o w
  BY FirstAndRest
<1>2. Units(s) = us /\ us \in Seq(Seq(STRING))
  <2> HIDE DEF d, w
  <2>1. Append(<<>>, d) = <<d>> /\ <<>> \in Seq(STRING)
    BY <1>1
  <2>2. Split(Append(<<>>, d) \o w, d) = Split(<<>>, d) \o us
    BY <1>1, <2>1, CutJoin
  <2>3. Split(<<>>, d) = Uncut /\ us \in SegmentLists
    BY <1>1, <2>1, CutNext
  <2>4. us \in Seq(Seq(STRING)) /\ Uncut \in Seq(Seq(STRING)) /\ Uncut # <<>> /\ Tail(Uncut) = <<>>
    BY <2>3 DEF SegmentLists, Uncut
  <2> HIDE DEF us
  <2>5. Tail(Uncut \o us) = us
    <3>1. Tail(Uncut \o us) = Tail(Uncut) \o us
      BY <2>4, TailJoin
    <3> QED BY <2>4, <3>1, ConcatEmptySeq
  <2>6. Units(s) = Tail(Split(s, d))
    BY DEF Units, d
  <2> QED BY <1>1, <2>1, <2>2, <2>3, <2>4, <2>5, <2>6
<1>3. Bytes(s) = Told(ByteOf, s)
  BY BytesAre
<1>4. Told(ByteOf, s) = ByteOf[d] \o Told(ByteOf, w)
  <2>1. ByteOf \in [STRING -> Seq(Octets)]
    BY SpellingTyped
  <2> HIDE DEF d, w
  <2>2. Leads(s, d, w)
    BY <1>1 DEF Leads
  <2>3. TellsOn(ByteOf, s, d, w)
    BY <1>1, <2>1, <2>2, ToldNext
  <2> QED BY <2>3 DEF TellsOn
<1>5. ByteOf[d] = StartBytes
  BY <1>1 DEF ByteOf
<1>6. SpellsUnits(w)
  BY <1>1, UnitsSpelled
<1>7. Told(UnitOf, Split(w, "S")) = StartBytes \o Told(ByteOf, w)
  BY <1>6 DEF SpellsUnits
<1> QED BY <1>2, <1>3, <1>4, <1>5, <1>7

\* Units that can be sent, and what is sent and what arrives for each.
Sendables == {u \in Seq(STRING) : Sendable(u)}

SentOf    == [u \in Sendables |-> StartBytes \o Sent(u)]
ArrivedOf == [u \in Sendables |-> StartBytes \o Arrived(u)]

LEMMA SentArrives ==
  /\ SentOf \in [Sendables -> Seq(Octets)] /\ ArrivedOf \in [Sendables -> Seq(Octets)]
  /\ \A u \in Sendables : Closed(SentOf[u]) /\ Unescaped(SentOf[u]) = ArrivedOf[u]
<1> DEFINE m == StartBytes
<1>1. m \in Seq(Octets) /\ Seq(STRING) \subseteq Seq(Octets)
  BY SpellingTyped, OctetsAre, SeqMonotonic
<1>2. Closed(m) /\ Unescaped(m) = m
  <2>1. "00" \in Octets /\ "01" \in Octets
    BY OctetsAre
  <2>2. Len(m) = 3 /\ m[3] = "01"
    BY <2>1, ThreeAndFour DEF StartBytes
  <2>3. Unescaped(m) = m
    BY <2>1, UnescapedShort DEF StartBytes
  <2> QED BY <2>2, <2>3 DEF Closed
<1> HIDE DEF m
<1>3. ASSUME NEW u \in Sendables
      PROVE  /\ m \o Sent(u) \in Seq(Octets) /\ m \o Arrived(u) \in Seq(Octets)
             /\ Closed(m \o Sent(u)) /\ Unescaped(m \o Sent(u)) = m \o Arrived(u)
  <2> DEFINE x == Sent(u)
             y == Arrived(u)
  <2>1. u \in Seq(Octets) /\ Sendable(u)
    BY <1>1 DEF Sendables
  <2>2. x \in Seq(Octets) /\ Closed(x) /\ Unescaped(x) = y /\ y \in Seq(Octets)
    BY <2>1, UnitArrives
  <2> HIDE DEF x, y
  <2>3. m \o x \in Seq(Octets) /\ m \o y \in Seq(Octets)
    BY <1>1, <2>2, ConcatProperties
  <2>4. Closed(m \o x)
    BY <1>1, <1>2, <2>2, ClosedJoined
  <2>5. Unescaped(m \o x) = Unescaped(m) \o Unescaped(x)
    BY <1>1, <1>2, <2>2, UnescapedJoins
  <2> QED BY <1>2, <2>2, <2>3, <2>4, <2>5 DEF x, y
<1> QED BY <1>3 DEF SentOf, ArrivedOf, m

\* All that arrives.
LEMMA StreamArrives ==
  \A us \in Seq(Sendables) : Unescaped(Told(SentOf, us)) = Told(ArrivedOf, us)
<1> DEFINE D == Sendables
           B == {us \in Seq(D) : Unescaped(Told(SentOf, us)) # Told(ArrivedOf, us)}
<1>1. SUFFICES ASSUME B # {} PROVE FALSE
  OBVIOUS
<1>2. PICK a \in B : \A t \in Seq(D) : Len(t) < Len(a) => t \notin B
  <2>1. B \in SUBSET Seq(D)
    OBVIOUS
  <2> HIDE DEF B, D
  <2> QED BY <1>1, <2>1, ShortestOne
<1>3. a \in Seq(D) /\ Unescaped(Told(SentOf, a)) # Told(ArrivedOf, a)
  OBVIOUS
<1>4. \A t \in Seq(D) : Len(t) < Len(a) => Unescaped(Told(SentOf, t)) = Told(ArrivedOf, t)
  BY <1>2
<1>5. SentOf \in [D -> Seq(Octets)] /\ ArrivedOf \in [D -> Seq(Octets)]
      /\ \A u \in D : Closed(SentOf[u]) /\ Unescaped(SentOf[u]) = ArrivedOf[u]
  BY SentArrives
<1> HIDE DEF B, D
<1>6. CASE a = <<>>
  <2>1. Told(SentOf, <<>>) = <<>> /\ Told(ArrivedOf, <<>>) = <<>>
    BY <1>5, ToldNext
  <2>2. Unescaped(<<>>) = <<>>
    BY UnescapedNext, EmptySeq
  <2> QED BY <1>3, <1>6, <2>1, <2>2
<1>7. CASE a # <<>>
  <2> DEFINE c == a[1]
             r == Remainder(a, 1)
             x == SentOf[c]
             y == Told(SentOf, r)
  <2>1. c \in D /\ r \in Seq(D) /\ Len(r) < Len(a) /\ a = <<c>> \o r
    BY <1>3, <1>7, FirstAndRest
  <2> HIDE DEF c, r
  <2>2. Leads(a, c, r)
    BY <2>1 DEF Leads
  <2>3. TellsOn(SentOf, a, c, r)
    BY <1>3, <1>5, <2>1, <2>2, ToldNext
  <2>4. TellsOn(ArrivedOf, a, c, r)
    BY <1>3, <1>5, <2>1, <2>2, ToldNext
  <2>5. y \in Seq(Octets)
    BY <1>5, <2>1, ToldNext
  <2>6. x \in Seq(Octets) /\ Closed(x)
    BY <1>5, <2>1
  <2>7. Unescaped(x \o y) = Unescaped(x) \o Unescaped(y)
    <3> HIDE DEF x, y
    <3> QED BY <2>5, <2>6, UnescapedJoins
  <2>8. Unescaped(x) = ArrivedOf[c] /\ Unescaped(y) = Told(ArrivedOf, r)
    BY <1>4, <1>5, <2>1
  <2> QED BY <1>3, <2>3, <2>4, <2>7, <2>8 DEF TellsOn
<1> QED BY <1>6, <1>7

\* The units of a text that the property is about.
LEMMA VideoUnits ==
  ASSUME NEW s \in Seq(STRING), IsVideo(s), ~EscapeIsLost(s)
  PROVE  /\ Units(s) \in Seq(Sendables) /\ Bytes(s) = Told(UnitOf, Units(s))
         /\ Stream(s) = Told(SentOf, Units(s)) /\ Unescaped(Stream(s)) = Told(ArrivedOf, Units(s))
<1> DEFINE us == Units(s)
<1>1. s # <<>> /\ s[1] = "S"
  BY DEF IsVideo
<1>2. us \in Seq(Seq(STRING)) /\ Bytes(s) = Told(UnitOf, us)
  BY <1>1, BytesOfUnits
<1>3. DOMAIN us = 1..Len(us) /\ Len(us) \in Nat /\ ToSet(us) = {us[k] : k \in 1..Len(us)}
  BY <1>2 DEF ToSet
<1>4. ASSUME NEW i \in 1..Len(us)
      PROVE  us[i] \in Sendables
  <2> DEFINE u == us[i]
  <2>1. u \in Seq(STRING) /\ u \in ToSet(us)
    BY <1>2, <1>3
  <2>2. /\ u # <<>> /\ u[Len(u)] # "00"
        /\ \A k \in 1..(Len(u) - 2) : Zeros(u, k) =>
             /\ ~(u[k + 2] \in {"00", "01", "02"})
             /\ ~(u[k + 2] = "03" /\ k + 2 < Len(u) /\ u[k + 2 + 1] \notin {"00", "01", "02", "03"})
    BY <2>1 DEF IsVideo, Contains3, Last
  <2>3. ~IsEncrypted(u) => \A k \in 1..(Len(u) - 2) : Zeros(u, k) =>
             ~(u[k + 2] = "03" /\ (k + 2 = Len(u) \/ u[k + 2 + 1] = "03" \/ Zeros(u, k + 2 + 1)))
    BY <2>1 DEF EscapeIsLost, Contains3
  <2> HIDE DEF u
  <2>4. \A k \in 1..(Len(u) - 2) : k + 2 + 1 = k + 3
    BY <2>1
  <2>5. Sendable(u)
    BY <2>2, <2>3, <2>4 DEF Sendable
  <2> QED BY <2>1, <2>5 DEF Sendables, u
<1>5. us \in Seq(Sendables)
  BY <1>2, <1>3, <1>4
<1>6. Stream(s) = Told(SentOf, us)
  <2>1. \A i \in 1..Len(us) : SentOf[us[i]] = <<"00", "00", "01">> \o Sent(us[i])
    BY <1>4 DEF SentOf, StartBytes
  <2>2. [i \in DOMAIN us |-> <<"00", "00", "01">> \o Sent(us[i])] = [i \in DOMAIN us |-> SentOf[us[i]]]
    BY <1>3, <2>1
  <2> QED BY <2>2 DEF Stream, Told
<1>7. Unescaped(Stream(s)) = Told(ArrivedOf, us)
  BY <1>5, <1>6, StreamArrives
<1> QED BY <1>2, <1>5, <1>6, <1>7

-----------------------------------------------------------------------------
(* The places of start codes                                                   *)

\* A start code at p, with y behind it.
SpelledAt(s, p, y) ==
  /\ s[p] = "00" /\ s[p + 1] = "00" /\ s[p + 2] = "01"
  /\ \A j \in 1..Len(y) : s[p + 2 + j] = y[j]

\* The unit that arrived as y takes the bytes from p to q.
UnitFrom(s, p, q, y) == /\ p \in Nat \ {0} /\ q = p + 3 + Len(y) /\ q <= Len(s) + 1
                        /\ SpelledAt(s, p, y)

\* The units of us have arrived at these places.
UnitsAt(at, s, us) ==
  /\ at[1] = 1 /\ at[Len(us) + 1] = Len(s) + 1
  /\ \A i \in 1..Len(us) : UnitFrom(s, at[i], at[i + 1], Arrived(us[i]))

LEMMA ArrivedIs ==
  ASSUME NEW c \in Sendables
  PROVE  /\ ArrivedOf[c] \in Seq(Octets) /\ Arrived(c) \in Seq(Octets) /\ Len(Arrived(c)) \in Nat \ {0}
         /\ Arrived(c)[Len(Arrived(c))] # "00" /\ Escaped(OpenUnit(Arrived(c))) = c
         /\ Len(ArrivedOf[c]) = 3 + Len(Arrived(c)) /\ SpelledAt(ArrivedOf[c], 1, Arrived(c))
<1> DEFINE m == StartBytes
           y == Arrived(c)
           my == m \o y
<1>1. m \in Seq(Octets) /\ Len(m) = 3 /\ m[1] = "00" /\ m[2] = "00" /\ m[3] = "01"
  BY SpellingTyped, OctetsAre, ThreeAndFour DEF StartBytes
<1>2. c \in Seq(Octets) /\ Sendable(c)
  BY OctetsAre, SeqMonotonic DEF Sendables
<1>3. y \in Seq(Octets) /\ y # <<>> /\ Closed(y) /\ Escaped(OpenUnit(y)) = c
  BY <1>2, UnitArrives
<1>4. ArrivedOf[c] = my
  BY DEF ArrivedOf
<1> HIDE DEF m, y
<1>5. Len(y) \in Nat \ {0} /\ y[Len(y)] # "00"
  BY <1>3, EmptySeq DEF Closed
<1>6. my \in Seq(Octets) /\ IsJoin(my, m, y)
  BY <1>1, <1>3, JoinIs
<1> HIDE DEF my
<1>7. Len(my) = 3 + Len(y) /\ (\A i \in 1..3 : my[i] = m[i]) /\ \A i \in 1..Len(y) : my[3 + i] = y[i]
  BY <1>1, <1>6 DEF IsJoin
<1>8. SpelledAt(my, 1, y)
  BY <1>1, <1>5, <1>7 DEF SpelledAt
<1> QED BY <1>3, <1>4, <1>5, <1>6, <1>7, <1>8 DEF y

\* One unit more takes the places behind the others.
LEMMA PlacedNext ==
  ASSUME NEW us \in Seq(Sendables), NEW s \in Seq(Octets), NEW at, UnitsAt(at, s, us), NEW c \in Sendables
  PROVE  \E to : UnitsAt(to, s \o ArrivedOf[c], Append(us, c))
<1> DEFINE n == Len(us)
           m == Len(s)
           y == Arrived(c)
           x == ArrivedOf[c]
           sx == s \o x
           vs == Append(us, c)
           to == [i \in 1..(n + 2) |-> IF i <= n + 1 THEN at[i] ELSE m + 4 + Len(y)]
<1>1. n \in Nat /\ m \in Nat /\ at[1] = 1 /\ at[n + 1] = m + 1
      /\ \A i \in 1..n : UnitFrom(s, at[i], at[i + 1], Arrived(us[i]))
  BY DEF UnitsAt
<1>2. /\ x \in Seq(Octets) /\ y \in Seq(Octets) /\ Len(y) \in Nat \ {0}
      /\ Len(x) = 3 + Len(y) /\ SpelledAt(x, 1, y)
  BY ArrivedIs
<1>3. Len(vs) = n + 1 /\ (\A i \in 1..n : vs[i] = us[i]) /\ vs[n + 1] = c
  BY AppendProperties
<1> HIDE DEF n, x, y, vs
<1>4. IsJoin(sx, s, x)
  BY <1>2, JoinIs
<1> HIDE DEF sx
<1>5. Len(sx) = m + 3 + Len(y) /\ (\A i \in 1..m : sx[i] = s[i]) /\ \A i \in 1..(3 + Len(y)) : sx[m + i] = x[i]
  BY <1>1, <1>2, <1>4 DEF IsJoin
<1> HIDE DEF m
<1>6. (\A i \in 1..(n + 1) : to[i] = at[i]) /\ to[n + 2] = m + 4 + Len(y)
  BY <1>1
<1> HIDE DEF to
<1>7. to[1] = 1 /\ to[n + 1 + 1] = Len(sx) + 1
  BY <1>1, <1>2, <1>5, <1>6
<1>8. ASSUME NEW i \in 1..n
      PROVE  UnitFrom(sx, to[i], to[i + 1], Arrived(vs[i]))
  <2> DEFINE p == at[i]
             q == at[i + 1]
             z == Arrived(us[i])
  <2>1. to[i] = p /\ to[i + 1] = q /\ Arrived(vs[i]) = z
    BY <1>1, <1>3, <1>6
  <2>2. UnitFrom(s, p, q, z)
    BY <1>1
  <2>3. Len(z) \in Nat
    <3>1. us[i] \in Sendables
      BY DEF n
    <3> QED BY <3>1, ArrivedIs
  <2> HIDE DEF p, q, z
  <2>4. p \in Nat \ {0} /\ q = p + 3 + Len(z) /\ q <= m + 1 /\ SpelledAt(s, p, z)
    BY <2>2 DEF UnitFrom, m
  <2>5. SpelledAt(sx, p, z)
    <3>a. m \in Nat /\ \A j \in 1..m : sx[j] = s[j]
      BY <1>1, <1>5
    <3>b. /\ p \in 1..m /\ p + 1 \in 1..m /\ p + 2 \in 1..m
          /\ \A j \in 1..Len(z) : p + 2 + j \in 1..m
      <4> DEFINE l == Len(z)
      <4>1. p \in Nat \ {0} /\ l \in Nat /\ m \in Nat /\ p + 3 + l <= m + 1
        BY <2>3, <2>4, <3>a
      <4> HIDE DEF l
      <4>2. p \in 1..m /\ p + 1 \in 1..m /\ p + 2 \in 1..m
        BY <4>1
      <4>3. \A j \in 1..l : p + 2 + j \in 1..m
        BY <4>1
      <4> QED BY <4>2, <4>3 DEF l
    <3>1. sx[p] = s[p] /\ sx[p + 1] = s[p + 1] /\ sx[p + 2] = s[p + 2]
      BY <3>a, <3>b
    <3>2. \A j \in 1..Len(z) : sx[p + 2 + j] = s[p + 2 + j]
      BY <3>a, <3>b
    <3> QED BY <2>4, <3>1, <3>2 DEF SpelledAt
  <2>6. q <= Len(sx) + 1
    <3>1. Len(sx) = m + 3 + Len(y) /\ Len(y) \in Nat /\ m \in Nat
      BY <1>1, <1>2, <1>5
    <3> QED BY <2>3, <2>4, <3>1
  <2> QED BY <2>1, <2>4, <2>5, <2>6 DEF UnitFrom
<1>9. UnitFrom(sx, to[n + 1], to[n + 1 + 1], Arrived(vs[n + 1]))
  <2>1. to[n + 1] = m + 1 /\ to[n + 1 + 1] = m + 1 + 3 + Len(y) /\ Arrived(vs[n + 1]) = y
    BY <1>1, <1>2, <1>3, <1>6 DEF y
  <2>2. SpelledAt(sx, m + 1, y)
    <3>1. x[1] = "00" /\ x[2] = "00" /\ x[3] = "01" /\ \A j \in 1..Len(y) : x[3 + j] = y[j]
      BY <1>2 DEF SpelledAt
    <3>2. sx[m + 1] = x[1] /\ sx[m + 2] = x[2] /\ sx[m + 3] = x[3] /\ \A j \in 1..Len(y) : sx[m + (3 + j)] = x[3 + j]
      BY <1>1, <1>2, <1>5
    <3>3. m + 1 + 1 = m + 2 /\ m + 1 + 2 = m + 3 /\ \A j \in 1..Len(y) : m + 1 + 2 + j = m + (3 + j)
      BY <1>1
    <3> QED BY <3>1, <3>2, <3>3 DEF SpelledAt
  <2> QED BY <1>1, <1>2, <1>5, <2>1, <2>2 DEF UnitFrom
<1>10. UnitsAt(to, sx, vs)
  <2>1. \A i \in 1..(n + 1) : i \in 1..n \/ i = n + 1
    BY <1>1
  <2> QED BY <1>3, <1>7, <1>8, <1>9, <2>1 DEF UnitsAt
<1> QED BY <1>10 DEF sx, vs, x

LEMMA UnitsPlaced ==
  \A us \in Seq(Sendables) : \E at : UnitsAt(at, Told(ArrivedOf, us), us)
<1> DEFINE D == Sendables
           T == {us \in Seq(D) : \E at : UnitsAt(at, Told(ArrivedOf, us), us)}
<1>1. ArrivedOf \in [D -> Seq(Octets)]
  BY SentArrives
<1>2. <<>> \in T
  <2> DEFINE one == [i \in {1} |-> 1]
  <2>1. Told(ArrivedOf, <<>>) = <<>>
    BY <1>1, ToldNext
  <2>2. UnitsAt(one, <<>>, <<>>)
    <3>1. Len(<<>>) = 0 /\ one[1] = 1 /\ one[0 + 1] = 0 + 1
      OBVIOUS
    <3> HIDE DEF one
    <3> QED BY <3>1 DEF UnitsAt
  <2> HIDE DEF one
  <2> QED BY <2>1, <2>2
<1>3. ASSUME NEW us \in T, NEW c \in D
      PROVE  Append(us, c) \in T
  <2> DEFINE s == Told(ArrivedOf, us)
             vs == Append(us, c)
  <2>1. us \in Seq(D) /\ \E at : UnitsAt(at, s, us)
    OBVIOUS
  <2>2. s \in Seq(Octets)
    BY <1>1, <2>1, ToldNext
  <2>3. TellsAlso(ArrivedOf, us, c)
    BY <1>1, <2>1, ToldLast
  <2>4. Told(ArrivedOf, vs) = s \o ArrivedOf[c]
    BY <2>3 DEF TellsAlso
  <2> HIDE DEF s, T
  <2>5. vs \in Seq(D)
    BY <2>1
  <2>6. \E to : UnitsAt(to, s \o ArrivedOf[c], vs)
    BY <2>1, <2>2, PlacedNext
  <2> HIDE DEF vs
  <2> QED BY <2>4, <2>5, <2>6 DEF T, vs
<1>4. T = Seq(D)
  <2>1. T \in SUBSET Seq(D)
    OBVIOUS
  <2> HIDE DEF T, D
  <2> QED BY <1>2, <1>3, <2>1, SeqInduction
<1> QED BY <1>4

LEMMA PlacesGrow ==
  ASSUME NEW us \in Seq(Sendables), NEW s \in Seq(Octets), NEW at, UnitsAt(at, s, us)
  PROVE  /\ \A i \in 1..(Len(us) + 1) : at[i] \in Nat \ {0}
         /\ \A i, j \in 1..(Len(us) + 1) : i < j => at[i] + 4 <= at[j]
         /\ \A i \in 1..Len(us) : at[i] \in StartCodes(s) /\ at[i] <= Len(s) - 3
<1> DEFINE n == Len(us)
           m == Len(s)
<1>1. n \in Nat /\ m \in Nat /\ at[1] = 1 /\ at[n + 1] = m + 1
  BY DEF UnitsAt
<1>2. ASSUME NEW i \in 1..n
      PROVE  /\ at[i] \in Nat \ {0} /\ at[i] + 4 <= at[i + 1] /\ at[i + 1] <= m + 1
             /\ s[at[i]] = "00" /\ s[at[i] + 1] = "00" /\ s[at[i] + 2] = "01"
  <2> DEFINE z == Arrived(us[i])
             p == at[i]
             q == at[i + 1]
  <2>1. Len(z) \in Nat \ {0}
    <3>1. us[i] \in Sendables
      OBVIOUS
    <3> QED BY <3>1, ArrivedIs
  <2>2. UnitFrom(s, p, q, z)
    BY DEF UnitsAt
  <2> HIDE DEF z, p, q
  <2>3. p \in Nat \ {0} /\ q = p + 3 + Len(z) /\ q <= m + 1 /\ SpelledAt(s, p, z)
    BY <2>2 DEF UnitFrom
  <2>4. s[p] = "00" /\ s[p + 1] = "00" /\ s[p + 2] = "01"
    BY <2>3 DEF SpelledAt
  <2>5. p + 4 <= q
    BY <2>1, <2>3
  <2> QED BY <2>3, <2>4, <2>5 DEF p, q
<1> HIDE DEF n, m
<1>3. ASSUME NEW i \in 1..(n + 1) PROVE at[i] \in Nat \ {0}
  <2>1. i \in 1..n \/ i = n + 1
    BY <1>1
  <2> QED BY <1>1, <1>2, <2>1
<1> DEFINE T == {d \in Nat : \A i \in 1..n : i + d + 1 <= n + 1 => at[i] + 4 <= at[i + d + 1]}
<1>4. T = Nat
  <2>1. 0 \in T
    <3>1. \A i \in 1..n : i + 0 + 1 = i + 1
      BY <1>1
    <3> QED BY <1>2, <3>1
  <2>2. ASSUME NEW d \in T PROVE d + 1 \in T
    <3>1. d \in Nat /\ \A i \in 1..n : i + d + 1 <= n + 1 => at[i] + 4 <= at[i + d + 1]
      OBVIOUS
    <3> HIDE DEF T
    <3>2. ASSUME NEW i \in 1..n, i + (d + 1) + 1 <= n + 1
          PROVE  at[i] + 4 <= at[i + (d + 1) + 1]
      <4> DEFINE k == i + d + 1
      <4>1. k \in 1..n /\ k + 1 = i + (d + 1) + 1 /\ k <= n + 1
        BY <1>1, <3>1, <3>2
      <4>2. at[i] + 4 <= at[k]
        BY <3>1, <4>1
      <4> HIDE DEF k
      <4>3. at[k] + 4 <= at[k + 1] /\ at[k] \in Nat
        BY <1>2, <4>1
      <4>4. at[i] \in Nat /\ at[k + 1] \in Nat
        <5>1. k + 1 \in 1..(n + 1)
          BY <1>1, <4>1
        <5> QED BY <1>2, <1>3, <5>1
      <4>5. at[i] + 4 <= at[k + 1]
        BY <4>2, <4>3, <4>4
      <4> QED BY <4>1, <4>5
    <3> QED BY <3>1, <3>2 DEF T
  <2>3. T \in SUBSET Nat
    OBVIOUS
  <2> HIDE DEF T
  <2> QED BY <2>1, <2>2, <2>3, SetInduction
<1>5. ASSUME NEW i \in 1..(n + 1), NEW j \in 1..(n + 1), i < j
      PROVE  at[i] + 4 <= at[j]
  <2> DEFINE d == j - i - 1
  <2>1. d \in Nat /\ i \in 1..n /\ i + d + 1 = j /\ j <= n + 1
    BY <1>1, <1>5
  <2> HIDE DEF d
  <2> QED BY <1>4, <2>1
<1>6. ASSUME NEW i \in 1..n
      PROVE  at[i] \in StartCodes(s) /\ at[i] <= m - 3
  <2>1. at[i] + 4 <= m + 1 /\ at[i] \in Nat \ {0}
    <3>1. i \in 1..(n + 1) /\ n + 1 \in 1..(n + 1) /\ i < n + 1
      BY <1>1
    <3> QED BY <1>1, <1>2, <1>5, <3>1
  <2>2. at[i] <= m - 3 /\ at[i] \in 1..(m - 2) /\ at[i] + 2 <= m
    BY <1>1, <2>1
  <2> QED BY <1>2, <2>2 DEF StartCodes, Zeros, m
<1> QED BY <1>3, <1>5, <1>6 DEF n, m

\* There is no start code but those of the units.
LEMMA NoOtherCodes ==
  ASSUME NEW us \in Seq(Sendables), NEW s \in Seq(Octets), NEW at, UnitsAt(at, s, us),
         Cardinality(StartCodes(s)) = Len(us)
  PROVE  \A p \in StartCodes(s) : \E i \in 1..Len(us) : p = at[i]
<1> DEFINE n == Len(us)
           S == StartCodes(s)
           f == [i \in 1..n |-> at[i]]
<1>1. n \in Nat
  OBVIOUS
<1>2. (\A i \in 1..n : at[i] \in S /\ at[i] \in Nat) /\ \A i, j \in 1..n : i < j => at[i] + 4 <= at[j]
  <2>1. \A i \in 1..n : i \in 1..(n + 1)
    BY <1>1
  <2> QED BY <2>1, PlacesGrow
<1>3. IsFiniteSet(S)
  <2>1. Len(s) - 2 \in Int /\ S \in SUBSET (1..(Len(s) - 2))
    BY DEF StartCodes
  <2>2. IsFiniteSet(1..(Len(s) - 2))
    BY <2>1, FS_Interval
  <2> HIDE DEF S
  <2> QED BY <2>1, <2>2, FS_Subset
<1>4. Cardinality(1..n) = n
  <2> HIDE DEF n
  <2>1. Cardinality(1..n) = IF 1 > n THEN 0 ELSE n - 1 + 1
    <3>1. 1 \in Int /\ n \in Int
      BY <1>1
    <3> QED BY <3>1, FS_Interval
  <2> QED BY <1>1, <2>1
<1>5. Cardinality(S) = n
  OBVIOUS
<1> HIDE DEF n, S
<1>6. f \in Injection(1..n, S)
  <2>1. f \in [1..n -> S]
    BY <1>2
  <2>2. \A i, j \in 1..n : f[i] = f[j] => i = j
    <3> SUFFICES ASSUME NEW i \in 1..n, NEW j \in 1..n, f[i] = f[j] PROVE i = j
      OBVIOUS
    <3>1. at[i] = at[j]
      OBVIOUS
    <3>2. ~(i < j) /\ ~(j < i)
      BY <1>2, <3>1
    <3> QED BY <1>1, <3>2
  <2> QED BY <2>1, <2>2 DEF Injection, IsInjective
<1>7. f \in Surjection(1..n, S)
  <2> HIDE DEF f
  <2> QED BY <1>3, <1>4, <1>5, <1>6, FS_Injection
<1>8. \A p \in S : \E i \in 1..n : f[i] = p
  BY <1>7 DEF Surjection
<1> QED BY <1>8 DEF n, S

\* The start code behind a unit is that of the next one, or the end.
LEMMA NextCode ==
  ASSUME NEW us \in Seq(Sendables), NEW s \in Seq(Octets), NEW at, UnitsAt(at, s, us),
         Cardinality(StartCodes(s)) = Len(us)
  PROVE  /\ StartCode(s, 1) = 1
         /\ \A i \in 1..Len(us) : StartCode(s, at[i] + 3) = at[i + 1]
<1> DEFINE n == Len(us)
           m == Len(s)
           CodeAt(k) == {p \in k..(Len(s) - 3) : s[p] = "00" /\ s[p + 1] = "00" /\ s[p + 2] = "01"}
<1>1. n \in Nat /\ m \in Nat /\ at[1] = 1 /\ at[n + 1] = m + 1
  BY DEF UnitsAt
<1>2. /\ \A i \in 1..(n + 1) : at[i] \in Nat \ {0}
      /\ \A i, j \in 1..(n + 1) : i < j => at[i] + 4 <= at[j]
      /\ \A i \in 1..n : at[i] \in StartCodes(s) /\ at[i] <= m - 3
  BY PlacesGrow
<1>3. ASSUME NEW k \in Nat \ {0}, NEW p \in CodeAt(k)
      PROVE  \E i \in 1..n : p = at[i] /\ at[i] >= k
  <2>1. p \in 1..(Len(s) - 2) /\ p + 2 <= Len(s) /\ s[p] = "00" /\ s[p + 1] = "00" /\ s[p + 2] = "01" /\ p >= k
    BY <1>1
  <2>2. p \in StartCodes(s)
    BY <2>1 DEF StartCodes, Zeros
  <2> QED BY <2>1, <2>2, NoOtherCodes
<1>4. ASSUME NEW k \in Nat \ {0}, NEW i \in 1..n, at[i] >= k
      PROVE  at[i] \in CodeAt(k)
  <2>1. at[i] \in k..(m - 3)
    BY <1>1, <1>2, <1>4
  <2>2. s[at[i]] = "00" /\ s[at[i] + 1] = "00" /\ s[at[i] + 2] = "01"
    BY <1>2 DEF StartCodes, Zeros
  <2> QED BY <2>1, <2>2
<1>5. ASSUME NEW k \in Nat \ {0}, NEW i \in 1..n, at[i] >= k,
             \A j \in 1..n : at[j] >= k => j >= i,
             at[i] > k => s[at[i] - 1] # "00"
      PROVE  StartCode(s, k) = at[i]
  <2> DEFINE A == CodeAt(k)
             a == at[i]
  <2>1. A \in SUBSET Nat /\ IsFiniteSet(A)
    <3>1. A \in SUBSET (k..(Len(s) - 3)) /\ Len(s) - 3 \in Int /\ k \in Int
      BY <1>1
    <3>2. IsFiniteSet(k..(Len(s) - 3))
      BY <3>1, FS_Interval
    <3> HIDE DEF A
    <3>3. k..(Len(s) - 3) \subseteq Nat
      OBVIOUS
    <3> QED BY <3>1, <3>2, <3>3, FS_Subset
  <2>2. a \in A
    BY <1>4, <1>5
  <2>3. \A p \in A : a <= p
    <3> TAKE p \in A
    <3>1. PICK j \in 1..n : p = at[j] /\ at[j] >= k
      BY <1>3
    <3>2. j >= i
      BY <1>5, <3>1
    <3> HIDE DEF A
    <3>3. i \in 1..(n + 1) /\ j \in 1..(n + 1) /\ at[i] \in Nat /\ at[j] \in Nat
      BY <1>1, <1>2
    <3>4. i = j \/ i < j
      BY <3>2
    <3> QED BY <1>2, <3>1, <3>3, <3>4
  <2>4. StartCode(s, k) = IF A = {} THEN Len(s) + 1
                          ELSE IF Min(A) > k /\ s[Min(A) - 1] = "00" THEN Min(A) - 1 ELSE Min(A)
    BY DEF StartCode
  <2> HIDE DEF A
  <2>5. Min(A) = a
    <3>1. Min(A) \in A /\ Min(A) <= a
      BY <2>1, <2>2, MaxOfFinite
    <3>2. a <= Min(A) /\ a \in Nat /\ Min(A) \in Nat
      BY <2>1, <2>2, <2>3, <3>1
    <3> QED BY <3>1, <3>2
  <2> QED BY <1>5, <2>2, <2>4, <2>5
<1>6. ASSUME NEW k \in Nat \ {0}, \A j \in 1..n : ~(at[j] >= k)
      PROVE  StartCode(s, k) = m + 1
  <2>1. CodeAt(k) = {}
    BY <1>3, <1>6
  <2> QED BY <2>1 DEF StartCode
<1> HIDE DEF CodeAt
<1>7. StartCode(s, 1) = 1
  <2>1. CASE n = 0
    <3>1. m + 1 = 1
      BY <1>1, <2>1
    <3>2. \A j \in 1..n : ~(at[j] >= 1)
      BY <2>1
    <3> QED BY <1>6, <3>1, <3>2
  <2>2. CASE n # 0
    <3>1. 1 \in 1..n /\ at[1] >= 1 /\ ~(at[1] > 1) /\ \A j \in 1..n : j >= 1
      BY <1>1, <2>2
    <3> QED BY <1>1, <1>5, <3>1
  <2> QED BY <2>1, <2>2
<1>8. ASSUME NEW i \in 1..n PROVE StartCode(s, at[i] + 3) = at[i + 1]
  <2> DEFINE k == at[i] + 3
  <2>1. i \in 1..(n + 1) /\ i + 1 \in 1..(n + 1) /\ i < i + 1
    BY <1>1
  <2>2. at[i] \in Nat \ {0} /\ k \in Nat \ {0} /\ at[i + 1] \in Nat /\ at[i] + 4 <= at[i + 1]
    BY <1>2, <2>1
  <2>3. ASSUME NEW j \in 1..n, at[j] >= k PROVE j >= i + 1
    <3>1. j \in 1..(n + 1) /\ at[j] \in Nat
      BY <1>1, <1>2
    <3>2. ~(j < i) /\ j # i
      <4>1. at[i] < at[j]
        BY <2>2, <2>3, <3>1
      <4>2. j < i => at[j] + 4 <= at[i]
        BY <1>2, <2>1, <3>1
      <4> HIDE DEF k
      <4> QED BY <2>2, <3>1, <4>1, <4>2
    <3> QED BY <1>1, <3>2
  <2>4. s[at[i + 1] - 1] # "00"
    <3> DEFINE z == Arrived(us[i])
               p == at[i]
               q == at[i + 1]
    <3>1. Len(z) \in Nat \ {0} /\ z[Len(z)] # "00"
      <4>1. us[i] \in Sendables
        OBVIOUS
      <4> QED BY <4>1, ArrivedIs
    <3>2. UnitFrom(s, p, q, z)
      BY DEF UnitsAt
    <3> HIDE DEF z, p, q
    <3>3. p \in Nat \ {0} /\ q = p + 3 + Len(z) /\ SpelledAt(s, p, z)
      BY <3>2 DEF UnitFrom
    <3>4. s[p + 2 + Len(z)] = z[Len(z)]
      BY <3>1, <3>3 DEF SpelledAt
    <3>5. q - 1 = p + 2 + Len(z)
      BY <3>1, <3>3
    <3> QED BY <3>1, <3>4, <3>5 DEF q
  <2>5. CASE i < n
    <3>1. i + 1 \in 1..n /\ at[i + 1] >= k
      BY <1>1, <2>2, <2>5
    <3> HIDE DEF k
    <3>2. StartCode(s, k) = at[i + 1]
      BY <1>5, <2>2, <2>3, <2>4, <3>1
    <3> QED BY <3>2 DEF k
  <2>6. CASE i = n
    <3>1. \A j \in 1..n : ~(at[j] >= k)
      BY <1>1, <2>3, <2>6
    <3>2. StartCode(s, k) = m + 1
      BY <1>6, <2>2, <3>1
    <3> QED BY <1>1, <2>6, <3>2
  <2> QED BY <1>1, <2>5, <2>6
<1> QED BY <1>7, <1>8

-----------------------------------------------------------------------------
(* The scan for NAL units                                                      *)

\* Where the unit at k starts and ends.
StartFrom(s, k) == LET code == {p \in k..Len(s) : s[p] # "00"}
                   IN IF code = {} THEN Len(s) + 1 ELSE Min(code) + 1
EndFrom(s, k)   == StartCode(s, StartFrom(s, k))

NalEnds(s) == {k \in 1..(Len(s) + 1) : StartFrom(s, k) > Len(s)}
NalRest(s) == [k \in 1..(Len(s) + 1) |-> SubSeq(s, k, Len(s))]
NalNext(s) == [k \in 1..(Len(s) + 1) |-> EndFrom(s, k)]
NalHead(s) ==
  [k \in 1..(Len(s) + 1) |->
     SubSeq(s, k, StartFrom(s, k) - 1) \o Escaped(OpenUnit(SubSeq(s, StartFrom(s, k), EndFrom(s, k) - 1)))]

\* The loop of OpenNalUnits.
NalLoop(g, s) ==
  g = [k \in 1..(Len(s) + 1) |->
        LET code  == {p \in k..Len(s) : s[p] # "00"}
            start == IF code = {} THEN Len(s) + 1 ELSE Min(code) + 1
            end   == StartCode(s, start)
        IN IF start > Len(s) THEN SubSeq(s, k, Len(s))
           ELSE SubSeq(s, k, start - 1) \o Escaped(OpenUnit(SubSeq(s, start, end - 1))) \o g[end]]

NalGlues(g, s) == Glues(g, Len(s) + 1, NalEnds(s), NalRest(s), NalHead(s), NalNext(s))

LEMMA LoopGlues ==
  ASSUME NEW s, NEW g
  PROVE  NalLoop(g, s) <=> NalGlues(g, s)
<1> DEFINE A(k) == LET code  == {p \in k..Len(s) : s[p] # "00"}
                       start == IF code = {} THEN Len(s) + 1 ELSE Min(code) + 1
                       end   == StartCode(s, start)
                   IN IF start > Len(s) THEN SubSeq(s, k, Len(s))
                      ELSE SubSeq(s, k, start - 1) \o Escaped(OpenUnit(SubSeq(s, start, end - 1))) \o g[end]
           G(k) == IF k \in NalEnds(s) THEN NalRest(s)[k] ELSE NalHead(s)[k] \o g[NalNext(s)[k]]
<1>1. ASSUME NEW k \in 1..(Len(s) + 1)
      PROVE  A(k) = G(k)
  <2> DEFINE start == StartFrom(s, k)
             end   == EndFrom(s, k)
             h     == SubSeq(s, k, start - 1) \o Escaped(OpenUnit(SubSeq(s, start, end - 1)))
  <2>1. A(k) = IF start > Len(s) THEN SubSeq(s, k, Len(s)) ELSE h \o g[end]
    BY DEF StartFrom, EndFrom
  <2>2. NalHead(s)[k] = h /\ NalNext(s)[k] = end /\ NalRest(s)[k] = SubSeq(s, k, Len(s))
    BY DEF NalHead, NalNext, NalRest
  <2>3. k \in NalEnds(s) <=> start > Len(s)
    BY DEF NalEnds
  <2> HIDE DEF A, h, start, end
  <2> QED BY <2>1, <2>2, <2>3
<1>2. NalLoop(g, s) <=> g = [k \in 1..(Len(s) + 1) |-> A(k)]
  BY DEF NalLoop
<1>3. NalGlues(g, s) <=> g = [k \in 1..(Len(s) + 1) |-> G(k)]
  BY DEF NalGlues, Glues
<1> HIDE DEF A, G
<1>4. [k \in 1..(Len(s) + 1) |-> A(k)] = [k \in 1..(Len(s) + 1) |-> G(k)]
  BY <1>1
<1> QED BY <1>2, <1>3, <1>4

LEMMA OpenedTyped ==
  ASSUME NEW u \in Seq(Octets)
  PROVE  OpenUnit(u) \in Seq(Octets)
<1>1. CASE u = <<>> \/ ~IsEncrypted(u)
  BY <1>1 DEF OpenUnit
<1>2. CASE ~(u = <<>> \/ ~IsEncrypted(u))
  <2> DEFINE F(k) == IF BlockNumber(u, k) = 0 THEN u[k] ELSE Turn(u[k], BlockNumber(u, k))
  <2>1. ASSUME NEW k \in 1..Len(u) PROVE F(k) \in Octets
    <3> DEFINE b == BlockNumber(u, k)
    <3>1. b \in Int /\ -b \in Int /\ -(-b) = b /\ u[k] \in Octets
      BY BlockNumbers
    <3> HIDE DEF b
    <3>2. Turn(u[k], -(-b)) \in Octets
      BY <3>1, TurnedBack
    <3> QED BY <3>1, <3>2 DEF b
  <2>2. OpenUnit(u) = [k \in 1..Len(u) |-> F(k)] /\ Len(u) \in Nat
    BY <1>2 DEF OpenUnit, Open
  <2> HIDE DEF F
  <2>3. [k \in 1..Len(u) |-> F(k)] \in Seq(Octets)
    BY <2>1, <2>2
  <2> QED BY <2>2, <2>3
<1> QED BY <1>1, <1>2

\* A start code is not looked for in vain.
LEMMA CodeBounds ==
  ASSUME NEW s \in Seq(Octets), NEW k \in 1..(Len(s) + 1)
  PROVE  StartCode(s, k) \in k..(Len(s) + 1)
<1> DEFINE A == {p \in k..(Len(s) - 3) : s[p] = "00" /\ s[p + 1] = "00" /\ s[p + 2] = "01"}
           m == Len(s)
<1>1. m \in Nat /\ k \in Nat
  OBVIOUS
<1>2. StartCode(s, k) = IF A = {} THEN m + 1 ELSE IF Min(A) > k /\ s[Min(A) - 1] = "00" THEN Min(A) - 1 ELSE Min(A)
  BY DEF StartCode
<1>3. A # {} => Min(A) \in k..(m - 3)
  <2>1. A \in SUBSET (k..(m - 3)) /\ m - 3 \in Int /\ k..(m - 3) \subseteq Nat
    BY <1>1
  <2>2. IsFiniteSet(k..(m - 3))
    BY <1>1, <2>1, FS_Interval
  <2> HIDE DEF A
  <2>3. IsFiniteSet(A) /\ A \in SUBSET Nat
    BY <2>1, <2>2, FS_Subset
  <2> QED BY <2>1, <2>3, MaxOfFinite
<1> HIDE DEF A, m
<1>4. CASE A = {}
  BY <1>1, <1>2, <1>4 DEF m
<1>5. CASE A # {}
  <2> DEFINE p == Min(A)
  <2>1. p \in k..(m - 3)
    BY <1>3, <1>5
  <2>2. StartCode(s, k) = p \/ (p > k /\ StartCode(s, k) = p - 1)
    BY <1>2, <1>5
  <2> HIDE DEF p
  <2>3. StartCode(s, k) \in k..(m + 1)
    BY <1>1, <2>1, <2>2
  <2> QED BY <2>3 DEF m
<1> QED BY <1>4, <1>5

LEMMA StartBounds ==
  ASSUME NEW s \in Seq(Octets), NEW k \in 1..(Len(s) + 1)
  PROVE  /\ StartFrom(s, k) \in Nat
         /\ StartFrom(s, k) <= Len(s) => StartFrom(s, k) \in (k + 1)..Len(s)
<1> DEFINE A == {p \in k..Len(s) : s[p] # "00"}
           m == Len(s)
<1>1. m \in Nat /\ k \in Nat
  OBVIOUS
<1>2. StartFrom(s, k) = IF A = {} THEN m + 1 ELSE Min(A) + 1
  BY DEF StartFrom
<1>3. A # {} => Min(A) \in k..m
  <2>1. A \in SUBSET (k..m) /\ k..m \subseteq Nat
    BY <1>1
  <2>2. IsFiniteSet(k..m)
    BY <1>1, FS_Interval
  <2> HIDE DEF A
  <2>3. IsFiniteSet(A) /\ A \in SUBSET Nat
    BY <2>1, <2>2, FS_Subset
  <2> QED BY <2>1, <2>3, MaxOfFinite
<1> HIDE DEF A, m
<1>4. StartFrom(s, k) = m + 1 \/ (Min(A) \in k..m /\ StartFrom(s, k) = Min(A) + 1)
  BY <1>2, <1>3
<1> QED BY <1>1, <1>4 DEF m

LEMMA NalGluable ==
  ASSUME NEW s \in Seq(Octets)
  PROVE  Gluable(Len(s) + 1, Octets, NalEnds(s), NalRest(s), NalHead(s), NalNext(s))
<1> DEFINE n == Len(s) + 1
<1>1. Len(s) \in Nat /\ n \in Nat
  OBVIOUS
<1>2. ASSUME NEW k \in 1..n, k \notin NalEnds(s)
      PROVE  NalNext(s)[k] \in (k + 1)..n
  <2> DEFINE st == StartFrom(s, k)
  <2>1. st \in Nat /\ ~(st > Len(s))
    BY <1>2, StartBounds DEF NalEnds
  <2>2. st \in (k + 1)..Len(s)
    BY <1>1, <2>1, StartBounds
  <2>3. NalNext(s)[k] = StartCode(s, st)
    BY DEF NalNext, EndFrom
  <2> HIDE DEF st
  <2>4. st \in 1..(Len(s) + 1)
    BY <1>1, <2>2
  <2>5. StartCode(s, st) \in st..n
    BY <2>4, CodeBounds
  <2> DEFINE e == StartCode(s, st)
  <2> HIDE DEF e
  <2>6. e \in (k + 1)..n
    BY <1>1, <2>2, <2>5 DEF e
  <2> QED BY <2>3, <2>6 DEF e
<1>3. ASSUME NEW k \in 1..n, k \in NalEnds(s)
      PROVE  NalRest(s)[k] \in Seq(Octets)
  <2>1. SubSeq(s, k, Len(s)) \in Seq(Octets)
    BY <1>1, SubSeqProperties
  <2> QED BY <2>1 DEF NalRest
<1>4. ASSUME NEW k \in 1..n, k \notin NalEnds(s)
      PROVE  NalHead(s)[k] \in Seq(Octets)
  <2> DEFINE st == StartFrom(s, k)
             e  == EndFrom(s, k)
             x == SubSeq(s, k, st - 1)
             y == SubSeq(s, st, e - 1)
             z == Escaped(OpenUnit(y))
  <2>1. st \in Nat /\ ~(st > Len(s))
    BY <1>4, StartBounds DEF NalEnds
  <2>2. st \in (k + 1)..Len(s)
    BY <1>1, <2>1, StartBounds
  <2>3. e \in (k + 1)..n
    <3>1. NalNext(s)[k] = e
      BY DEF NalNext
    <3> QED BY <1>2, <1>4, <3>1
  <2> HIDE DEF st, e
  <2>4. x \in Seq(Octets)
    <3>1. \A i \in k..(st - 1) : s[i] \in Octets
      BY <1>1, <2>2
    <3>2. k \in Int /\ st - 1 \in Int
      BY <2>2
    <3> QED BY <3>1, <3>2, SubSeqProperties
  <2>5. y \in Seq(Octets)
    <3>1. \A i \in st..(e - 1) : s[i] \in Octets
      BY <1>1, <2>2, <2>3
    <3>2. st \in Int /\ e - 1 \in Int
      BY <2>2, <2>3
    <3> QED BY <3>1, <3>2, SubSeqProperties
  <2>6. NalHead(s)[k] = x \o z
    BY DEF NalHead, st, e
  <2> HIDE DEF x, y
  <2>7. z \in Seq(Octets)
    BY <2>5, OpenedTyped, EscapedNext
  <2> HIDE DEF z
  <2>8. x \o z \in Seq(Octets)
    BY <2>4, <2>7, ConcatProperties
  <2> QED BY <2>6, <2>8
<1> QED BY <1>1, <1>2, <1>3, <1>4 DEF Gluable, Forward

\* What comes out is what the loop has at the first start code.
LEMMA NalUnitsAre ==
  ASSUME NEW buf \in Seq(Octets)
  PROVE  \E g : /\ NalGlues(g, Unescaped(buf))
                /\ OpenNalUnits(buf) = SubSeq(Unescaped(buf), 1, StartCode(Unescaped(buf), 1) - 1)
                                         \o g[StartCode(Unescaped(buf), 1)]
<1> DEFINE s == Unescaped(buf)
           f == CHOOSE g : NalLoop(g, s)
           first == StartCode(s, 1)
<1>1. OpenNalUnits(buf) = SubSeq(s, 1, first - 1) \o f[first]
  BY DEF OpenNalUnits, NalLoop
<1>2. s \in Seq(Octets)
  BY UnescapedNext
<1> HIDE DEF s
<1>3. \E g : NalGlues(g, s)
  BY <1>2, NalGluable, GlueExists DEF NalGlues
<1>4. NalLoop(f, s)
  BY <1>3, LoopGlues
<1> HIDE DEF f
<1>5. NalGlues(f, s)
  BY <1>4, LoopGlues
<1> QED BY <1>1, <1>5 DEF s

\* What the loop g has at p is the unit u, and what it has at q.
OpensUnit(g, p, u, q) == g[p] = UnitOf[u] \o g[q]

\* The loop opens the unit at p and goes on behind it.
LEMMA UnitScanned ==
  ASSUME NEW s \in Seq(Octets), NEW g, NalGlues(g, s), NEW u \in Sendables, NEW p, NEW q,
         UnitFrom(s, p, q, Arrived(u)), StartCode(s, p + 3) = q
  PROVE  OpensUnit(g, p, u, q)
<1> DEFINE y == Arrived(u)
           m == Len(s)
           A == {x \in p..Len(s) : s[x] # "00"}
           st == StartFrom(s, p)
           SB == StartBytes
<1>1. y \in Seq(Octets) /\ Len(y) \in Nat \ {0} /\ Escaped(OpenUnit(y)) = u
  BY ArrivedIs
<1>2. p \in Nat \ {0} /\ q = p + 3 + Len(y) /\ q <= m + 1 /\ SpelledAt(s, p, y) /\ m \in Nat
  BY DEF UnitFrom
<1>3. /\ s[p] = "00" /\ s[p + 1] = "00" /\ s[p + 2] = "01"
      /\ \A j \in 1..Len(y) : s[p + 2 + j] = y[j]
  BY <1>2 DEF SpelledAt
<1> HIDE DEF y
<1>4. Min(A) = p + 2 /\ A # {}
  <2>1. p + 2 \in A
    BY <1>1, <1>2, <1>3
  <2>2. \A x \in A : p + 2 <= x
    <3> TAKE x \in A
    <3>1. x \in p..m /\ s[x] # "00"
      OBVIOUS
    <3>2. x # p /\ x # p + 1
      BY <1>3, <3>1
    <3> HIDE DEF A
    <3> QED BY <1>2, <3>1, <3>2
  <2>3. IsFiniteSet(A) /\ A \in SUBSET Nat
    <3>1. A \in SUBSET (p..m) /\ p..m \subseteq Nat
      BY <1>2
    <3>2. IsFiniteSet(p..m)
      BY <1>2, FS_Interval
    <3> HIDE DEF A
    <3> QED BY <3>1, <3>2, FS_Subset
  <2> HIDE DEF A
  <2>4. Min(A) \in A /\ Min(A) <= p + 2
    BY <2>1, <2>3, MaxOfFinite
  <2>5. p + 2 <= Min(A) /\ Min(A) \in Nat
    BY <2>2, <2>3, <2>4
  <2> QED BY <1>2, <2>1, <2>4, <2>5
<1>5. st = p + 3
  <2>1. st = Min(A) + 1
    BY <1>4 DEF StartFrom
  <2> HIDE DEF A, st
  <2> QED BY <1>2, <1>4, <2>1
<1>6. EndFrom(s, p) = q
  BY <1>5 DEF EndFrom
<1>7. p \in 1..(m + 1) /\ p \notin NalEnds(s) /\ q \in 1..(m + 1)
  <2>1. p \in 1..(m + 1) /\ q \in 1..(m + 1) /\ ~(p + 3 > m)
    <3> HIDE DEF m
    <3> QED BY <1>1, <1>2
  <2> QED BY <1>5, <2>1 DEF NalEnds
<1>8. g[p] = NalHead(s)[p] \o g[NalNext(s)[p]]
  <2>1. Gluable(m + 1, Octets, NalEnds(s), NalRest(s), NalHead(s), NalNext(s))
    BY NalGluable
  <2>2. Glues(g, m + 1, NalEnds(s), NalRest(s), NalHead(s), NalNext(s))
    BY DEF NalGlues
  <2>3. g[p] = IF p \in NalEnds(s) THEN NalRest(s)[p] ELSE NalHead(s)[p] \o g[NalNext(s)[p]]
    BY <1>7, <2>2 DEF Glues
  <2> QED BY <1>7, <2>3
<1>9. NalNext(s)[p] = q
  BY <1>6, <1>7 DEF NalNext
<1>10. NalHead(s)[p] = SubSeq(s, p, p + 3 - 1) \o Escaped(OpenUnit(SubSeq(s, p + 3, q - 1)))
  BY <1>5, <1>6, <1>7 DEF NalHead
<1>11. SubSeq(s, p, p + 3 - 1) = SB
  <2> DEFINE x == SubSeq(s, p, p + 3 - 1)
  <2>1. SB \in Seq(Octets) /\ Len(SB) = 3 /\ SB[1] = "00" /\ SB[2] = "00" /\ SB[3] = "01"
    BY SpellingTyped, OctetsAre, ThreeAndFour DEF StartBytes
  <2>2. \A i \in p..(p + 3 - 1) : s[i] \in Octets
    <3> HIDE DEF m
    <3>1. \A i \in p..(p + 3 - 1) : i \in 1..m
      BY <1>1, <1>2
    <3> QED BY <3>1 DEF m
  <2>3. /\ x \in Seq(Octets)
        /\ Len(x) = IF p <= p + 3 - 1 THEN p + 3 - 1 - p + 1 ELSE 0
        /\ \A i \in 1..(p + 3 - 1 - p + 1) : x[i] = s[p + i - 1]
    <3>1. p \in Int /\ p + 3 - 1 \in Int
      BY <1>2
    <3> QED BY <2>2, <3>1, SubSeqProperties
  <2> HIDE DEF x, SB
  <2>4. Len(x) = 3 /\ x[1] = s[p] /\ x[2] = s[p + 1] /\ x[3] = s[p + 2]
    <3>1. p <= p + 3 - 1 /\ p + 3 - 1 - p + 1 = 3 /\ p + 1 - 1 = p /\ p + 2 - 1 = p + 1 /\ p + 3 - 1 = p + 2
      BY <1>2
    <3> QED BY <2>3, <3>1
  <2>5. \A i \in 1..3 : x[i] = SB[i]
    <3>1. \A i \in 1..3 : i = 1 \/ i = 2 \/ i = 3
      OBVIOUS
    <3> QED BY <1>3, <2>1, <2>4, <3>1
  <2>6. x = SB
    BY <2>1, <2>3, <2>4, <2>5, SeqEqual
  <2> QED BY <2>6 DEF x
<1>12. SubSeq(s, p + 3, q - 1) = y
  <2> DEFINE x == SubSeq(s, p + 3, q - 1)
             l == Len(y)
  <2>1. l \in Nat \ {0} /\ q - 1 = p + 2 + l
    BY <1>1, <1>2
  <2> HIDE DEF l
  <2>2. \A i \in (p + 3)..(q - 1) : s[i] \in Octets
    <3> HIDE DEF m
    <3>1. \A i \in (p + 3)..(q - 1) : i \in 1..m
      BY <1>2, <2>1
    <3> QED BY <3>1 DEF m
  <2>3. /\ x \in Seq(Octets)
        /\ Len(x) = IF p + 3 <= q - 1 THEN q - 1 - (p + 3) + 1 ELSE 0
        /\ \A i \in 1..(q - 1 - (p + 3) + 1) : x[i] = s[p + 3 + i - 1]
    <3>1. p + 3 \in Int /\ q - 1 \in Int
      BY <1>2, <2>1
    <3> QED BY <2>2, <3>1, SubSeqProperties
  <2> HIDE DEF x
  <2>4. p + 3 <= q - 1 /\ q - 1 - (p + 3) + 1 = l /\ \A i \in 1..l : p + 3 + i - 1 = p + 2 + i
    BY <1>2, <2>1
  <2>5. Len(x) = l /\ \A i \in 1..l : x[i] = s[p + 2 + i]
    BY <2>3, <2>4
  <2>6. x = y
    BY <1>1, <1>3, <2>3, <2>5, SeqEqual DEF l
  <2> QED BY <2>6 DEF x
<1>13. UnitOf[u] = SB \o u
  BY DEF UnitOf, Sendables
<1> QED BY <1>1, <1>8, <1>9, <1>10, <1>11, <1>12, <1>13 DEF OpensUnit

LEMMA AllScanned ==
  ASSUME NEW us \in Seq(Sendables), NEW s \in Seq(Octets), NEW at, UnitsAt(at, s, us),
         Cardinality(StartCodes(s)) = Len(us), NEW g, NalGlues(g, s)
  PROVE  g[1] = Told(UnitOf, us)
<1> DEFINE n == Len(us)
           m == Len(s)
           R(i) == Remainder(us, i)
           T == {d \in Nat : d <= n => g[at[n + 1 - d]] = Told(UnitOf, R(n - d))}
<1>1. n \in Nat /\ m \in Nat /\ at[1] = 1 /\ at[n + 1] = m + 1
  BY DEF UnitsAt
<1>2. UnitOf \in [Seq(STRING) -> Seq(Octets)] /\ Sendables \subseteq Seq(STRING) /\ us \in Seq(Seq(STRING))
  <2>1. Sendables \subseteq Seq(STRING)
    BY DEF Sendables
  <2> QED BY <2>1, SpellingTyped, SeqMonotonic
<1>3. 0 \in T
  <2>1. R(n - 0) = <<>>
    <3>1. n - 0 = n /\ n + 1 \in Int /\ n \in Int /\ n < n + 1
      BY <1>1
    <3>2. SubSeq(us, n + 1, n) = <<>>
      <4> HIDE DEF n
      <4> QED BY <3>1, SubSeqEmpty
    <3> QED BY <3>1, <3>2 DEF Remainder
  <2>2. Told(UnitOf, <<>>) = <<>>
    BY <1>2, ToldNext
  <2>3. g[m + 1] = <<>>
    <3>1. StartFrom(s, m + 1) > m
      <4>1. {p \in (m + 1)..Len(s) : s[p] # "00"} = {}
        BY <1>1
      <4>2. StartFrom(s, m + 1) = m + 1
        BY <4>1 DEF StartFrom
      <4> QED BY <1>1, <4>2
    <3>2. m + 1 \in 1..(m + 1) /\ m + 1 \in NalEnds(s)
      BY <1>1, <3>1 DEF NalEnds
    <3>3. Glues(g, m + 1, NalEnds(s), NalRest(s), NalHead(s), NalNext(s))
      BY DEF NalGlues
    <3>4. g[m + 1] = IF m + 1 \in NalEnds(s) THEN NalRest(s)[m + 1]
                     ELSE NalHead(s)[m + 1] \o g[NalNext(s)[m + 1]]
      BY <3>2, <3>3 DEF Glues
    <3>5. NalRest(s)[m + 1] = SubSeq(s, m + 1, m)
      BY <3>2 DEF NalRest
    <3>6. SubSeq(s, m + 1, m) = <<>>
      <4>1. m + 1 \in Int /\ m \in Int /\ m < m + 1
        BY <1>1
      <4> HIDE DEF m
      <4> QED BY <4>1, SubSeqEmpty
    <3> QED BY <3>2, <3>4, <3>5, <3>6
  <2>4. n + 1 - 0 = n + 1
    BY <1>1
  <2> QED BY <1>1, <2>1, <2>2, <2>3, <2>4
<1>4. ASSUME NEW d \in T PROVE d + 1 \in T
  <2>1. d \in Nat /\ (d <= n => g[at[n + 1 - d]] = Told(UnitOf, R(n - d)))
    OBVIOUS
  <2> HIDE DEF T
  <2>2. SUFFICES ASSUME d + 1 <= n
                 PROVE  g[at[n + 1 - (d + 1)]] = Told(UnitOf, R(n - (d + 1)))
    BY <2>1 DEF T
  <2> DEFINE i == n - d
             u == us[i]
  <2>3. i \in 1..n /\ n + 1 - d = i + 1 /\ n + 1 - (d + 1) = i /\ n - (d + 1) = i - 1 /\ d <= n
    BY <1>1, <2>1, <2>2
  <2>4. g[at[i + 1]] = Told(UnitOf, R(i))
    BY <2>1, <2>3
  <2> HIDE DEF i
  <2>5. u \in Sendables /\ UnitFrom(s, at[i], at[i + 1], Arrived(u))
    BY <2>3 DEF UnitsAt
  <2>6. StartCode(s, at[i] + 3) = at[i + 1]
    BY <2>3, NextCode
  <2>7. g[at[i]] = UnitOf[u] \o g[at[i + 1]]
    <3> DEFINE p == at[i]
               q == at[i + 1]
    <3>1. u \in Sendables /\ UnitFrom(s, p, q, Arrived(u)) /\ StartCode(s, p + 3) = q
      BY <2>5, <2>6
    <3> HIDE DEF u, p, q
    <3>2. OpensUnit(g, p, u, q)
      BY <3>1, UnitScanned
    <3> QED BY <3>2 DEF OpensUnit, p, q
  <2>8. Leads(R(i - 1), u, R(i)) /\ R(i - 1) \in Seq(Seq(STRING)) /\ R(i) \in Seq(Seq(STRING))
    <3>1. R(i - 1) = <<us[i]>> \o R(i)
      <4>1. i - 1 + 1 = i /\ i \in 1..Len(us) /\ Len(us) \in i..Len(us)
        BY <1>1, <2>3
      <4>2. SubSeq(us, i, Len(us)) = <<us[i]>> \o SubSeq(us, i + 1, Len(us))
        BY <1>2, <4>1, SubSeqRecursiveFirst
      <4> QED BY <4>1, <4>2 DEF Remainder
    <3>2. i - 1 \in 0..Len(us) /\ i \in 0..Len(us)
      BY <1>1, <2>3
    <3> QED BY <1>2, <3>1, <3>2, AfterIs DEF Leads
  <2>9. TellsOn(UnitOf, R(i - 1), u, R(i))
    <3>1. u \in Seq(STRING)
      BY <1>2, <2>5
    <3> DEFINE x == R(i - 1)
               z == R(i)
    <3> HIDE DEF u, x, z
    <3>2. TellsOn(UnitOf, x, u, z)
      BY <1>2, <2>8, <3>1, ToldNext DEF x, z
    <3> QED BY <3>2 DEF x, z
  <2>10. g[at[i]] = Told(UnitOf, R(i - 1))
    BY <2>4, <2>7, <2>9 DEF TellsOn
  <2> QED BY <2>3, <2>10
<1>5. T = Nat
  <2>1. T \in SUBSET Nat
    OBVIOUS
  <2> HIDE DEF T
  <2> QED BY <1>3, <1>4, <2>1, SetInduction
<1>6. g[at[n + 1 - n]] = Told(UnitOf, R(n - n))
  <2>1. n \in T
    BY <1>1, <1>5
  <2> QED BY <1>1, <2>1
<1>7. R(n - n) = us
  <2>1. n - n = 0
    BY <1>1
  <2>2. SubSeq(us, 0 + 1, Len(us)) = us
    BY <1>2, SubSeqFull
  <2> QED BY <2>1, <2>2 DEF Remainder
<1>8. n + 1 - n = 1
  BY <1>1
<1> QED BY <1>1, <1>6, <1>7, <1>8

\* What the encoder sent comes back byte by byte unless a start code appears where
\* the escapes were removed (hls.c:1037, 1045) or an unencrypted unit has an escape
\* that is not put back: for texts of any length, any number of NAL units, any cycle
\* of bytes the cipher permutes, and any sizes of leader, stride and shortest unit.
THEOREM UnitsAlwaysRestored == Spec => []UnitsRestored
<1>1. ASSUME text \in Seq(STRING) PROVE UnitsRestored
  <2> SUFFICES ASSUME IsVideo(text), ~StartCodeAppears(text), ~EscapeIsLost(text)
               PROVE  OpenNalUnits(Stream(text)) = Bytes(text)
    BY DEF UnitsRestored
  <2> DEFINE us == Units(text)
             buf == Stream(text)
             s == Unescaped(buf)
  <2>1. us \in Seq(Sendables) /\ Bytes(text) = Told(UnitOf, us) /\ s = Told(ArrivedOf, us)
    BY <1>1, VideoUnits
  <2>2. buf \in Seq(Octets) /\ s \in Seq(Octets)
    <3>1. buf = Told(SentOf, us)
      BY <1>1, VideoUnits
    <3>2. buf \in Seq(Octets)
      BY <2>1, <3>1, SentArrives, ToldNext
    <3> QED BY <3>2, UnescapedNext
  <2>3. Cardinality(StartCodes(s)) = Len(us)
    BY DEF StartCodeAppears
  <2>4. PICK at : UnitsAt(at, s, us)
    BY <2>1, UnitsPlaced
  <2>5. PICK g : /\ NalGlues(g, s)
                 /\ OpenNalUnits(buf) = SubSeq(s, 1, StartCode(s, 1) - 1) \o g[StartCode(s, 1)]
    <3> HIDE DEF buf
    <3> QED BY <2>2, NalUnitsAre
  <2> HIDE DEF us, buf, s
  <2>6. StartCode(s, 1) = 1
    BY <2>1, <2>2, <2>3, <2>4, NextCode
  <2>7. g[1] = Told(UnitOf, us)
    BY <2>1, <2>2, <2>3, <2>4, <2>5, AllScanned
  <2>8. SubSeq(s, 1, 1 - 1) = <<>>
    BY SubSeqEmpty
  <2>9. Told(UnitOf, us) \in Seq(Octets)
    <3>1. us \in Seq(Seq(STRING))
      <4>1. Sendables \subseteq Seq(STRING)
        BY DEF Sendables
      <4> QED BY <2>1, <4>1, SeqMonotonic
    <3> QED BY <3>1, SpellingTyped, ToldNext
  <2>10. <<>> \o Told(UnitOf, us) = Told(UnitOf, us)
    BY <2>9, ConcatEmptySeq
  <2> QED BY <2>1, <2>5, <2>6, <2>7, <2>8, <2>10 DEF buf
<1> QED BY <1>1, Typed, PTL
=============================================================================
