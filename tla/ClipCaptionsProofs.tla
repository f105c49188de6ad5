--------------------------- MODULE ClipCaptionsProofs ---------------------------
(***************************************************************************)
(* What holds of the chosen clips and of their captions, for every         *)
(* recording, transcript, answer of the language model and setting.        *)
(***************************************************************************)
EXTENDS ClipCaptions, FiniteSetTheorems, TLAPS

(* Induction over the natural numbers, for a set of them.                  *)
LEMMA Induction ==
  ASSUME NEW S \in SUBSET Nat, 0 \in S, \A n \in S : n + 1 \in S
  PROVE  \A n \in Nat : n \in S
<1> SUFFICES ASSUME NEW n \in Nat, n \notin S PROVE FALSE
  OBVIOUS
<1> DEFINE R == {p \in Nat \X Nat : p[1] < p[2]}
           T == Nat \ S
<1>1. IsWellFoundedOn(R, Nat)
  BY NatLessThanWellFounded DEF OpToRel
<1>2. T \subseteq Nat /\ T # {}
  OBVIOUS
<1> HIDE DEF R, T
<1>3. PICK x \in T : \A y \in T : ~ (<<y, x>> \in R)
  BY <1>1, <1>2, WFMin
<1> USE DEF R, T
<1>4. x \in Nat /\ x # 0 /\ x - 1 \in Nat
  OBVIOUS
<1>5. x - 1 \in S
  <2>1. <<x - 1, x>> \in R
    BY <1>4
  <2>2. x - 1 \notin T
    BY <1>3, <2>1
  <2> QED
    BY <1>4, <2>2
<1>6. (x - 1) + 1 \in S
  BY <1>5
<1> QED
  BY <1>4, <1>6

----------------------------------------------------------------------------
(* Enumerations.  An order is a relation as a set of pairs.                *)
Strict(R, S) ==
  /\ \A x, y \in S : x # y <=> <<x, y>> \in R \/ <<y, x>> \in R
  /\ \A x, y \in S : ~ (<<x, y>> \in R /\ <<y, x>> \in R)
  /\ \A x, y, z \in S : <<x, y>> \in R /\ <<y, z>> \in R => <<x, z>> \in R
Along(f, R, S) ==
  /\ f \in [1 .. Cardinality(S) -> S]
  /\ \A i, j \in 1 .. Cardinality(S) : i < j => <<f[i], f[j]>> \in R

(* Counting the elements before each gives a place to each.                *)
LEMMA AlongExists ==
  ASSUME NEW S, IsFiniteSet(S), NEW R, Strict(R, S)
  PROVE  \E f : Along(f, R, S)
<1> DEFINE n == Cardinality(S)
           B(x) == {y \in S : <<y, x>> \in R}
           r == [x \in S |-> Cardinality(B(x)) + 1]
<1>1. n \in Nat
  BY FS_CardinalityType
<1>2. \A x \in S : B(x) \in SUBSET S /\ x \notin B(x)
  BY DEF Strict
<1>3. \A x, y \in S : <<x, y>> \in R => B(x) \cup {x} \in SUBSET B(y)
  BY DEF Strict
<1> HIDE DEF B
<1>4. ASSUME NEW x \in S
      PROVE  /\ IsFiniteSet(B(x)) /\ Cardinality(B(x)) \in Nat
             /\ Cardinality(B(x) \cup {x}) = Cardinality(B(x)) + 1
             /\ Cardinality(B(x)) + 1 <= n
  <2>1. IsFiniteSet(B(x)) /\ Cardinality(B(x)) \in Nat
    BY <1>2, FS_Subset, FS_CardinalityType
  <2>2. Cardinality(B(x) \cup {x}) = Cardinality(B(x)) + 1
    BY <1>2, <2>1, FS_AddElement
  <2>3. B(x) \cup {x} \in SUBSET S
    BY <1>2
  <2>4. Cardinality(B(x) \cup {x}) <= n
    BY <2>3, FS_Subset
  <2> QED
    BY <2>1, <2>2, <2>4
<1>5. /\ DOMAIN r = S
      /\ \A x \in S : r[x] \in Nat /\ 1 <= r[x] /\ r[x] <= n
      /\ \A x, y \in S : <<x, y>> \in R => r[x] < r[y]
      /\ r = [x \in S |-> r[x]]
  <2>1. ASSUME NEW x \in S, NEW y \in S, <<x, y>> \in R
        PROVE  Cardinality(B(x)) + 1 <= Cardinality(B(y))
    <3>1. Cardinality(B(x) \cup {x}) <= Cardinality(B(y))
      BY <1>3, <1>4, <2>1, FS_Subset
    <3> QED
      BY <1>4, <3>1
  <2> DEFINE c(x) == Cardinality(B(x)) + 1
  <2>2. r = [x \in S |-> c(x)]
    OBVIOUS
  <2>3. \A x \in S : c(x) \in Nat /\ 1 <= c(x) /\ c(x) <= n
    <3> SUFFICES ASSUME NEW x \in S PROVE c(x) \in Nat /\ 1 <= c(x) /\ c(x) <= n
      OBVIOUS
    <3>1. Cardinality(B(x)) \in Nat /\ Cardinality(B(x)) + 1 <= n
      BY <1>4
    <3> QED
      BY <1>1, <3>1
  <2>4. \A x, y \in S : <<x, y>> \in R => c(x) < c(y)
    <3> SUFFICES ASSUME NEW x \in S, NEW y \in S, <<x, y>> \in R PROVE c(x) < c(y)
      OBVIOUS
    <3>1. Cardinality(B(x)) + 1 <= Cardinality(B(y))
      BY <2>1
    <3>2. Cardinality(B(x)) \in Nat /\ Cardinality(B(y)) \in Nat
      BY <1>4
    <3> QED
      BY <3>1, <3>2
  <2> HIDE DEF n, r, c
  <2> QED
    BY <2>2, <2>3, <2>4
<1> HIDE DEF r
<1>6. r \in [S -> 1 .. n]
  BY <1>1, <1>5
<1>7. ASSUME NEW x \in S, NEW y \in S, r[x] = r[y] PROVE x = y
  <2>1. ~ (r[x] < r[y]) /\ ~ (r[y] < r[x])
    BY <1>5, <1>7
  <2> QED
    BY <1>5, <2>1 DEF Strict
<1>8. IsFiniteSet(1 .. n) /\ Cardinality(1 .. n) = n
  BY <1>1, FS_Interval
<1>9. \A k \in 1 .. n : \E x \in S : r[x] = k
  <2>1. r \in Injection(S, 1 .. n)
    BY <1>6, <1>7 DEF Injection, IsInjective
  <2>2. r \in Surjection(S, 1 .. n)
    BY <1>8, <2>1, FS_Injection
  <2> QED
    BY <2>2 DEF Surjection
<1> DEFINE f == [k \in 1 .. n |-> CHOOSE x \in S : r[x] = k]
<1>10. \A k \in 1 .. n : f[k] \in S /\ r[f[k]] = k
  BY <1>9
<1>11. f \in [1 .. n -> S]
  BY <1>9
<1> HIDE DEF f
<1>12. ASSUME NEW i \in 1 .. n, NEW j \in 1 .. n, i < j PROVE <<f[i], f[j]>> \in R
  <2>1. f[i] # f[j] /\ f[i] \in S /\ f[j] \in S
    BY <1>1, <1>10, <1>12
  <2>2. <<f[j], f[i]>> \notin R
    BY <1>1, <1>5, <1>10, <1>12
  <2> QED
    BY <2>1, <2>2 DEF Strict
<1> QED
  BY <1>11, <1>12 DEF Along

(* Nothing is listed twice and nothing is left out.                        *)
LEMMA AlongListsAll ==
  ASSUME NEW S, IsFiniteSet(S), NEW R, Strict(R, S), NEW f, Along(f, R, S)
  PROVE  /\ \A i, j \in 1 .. Cardinality(S) : <<f[i], f[j]>> \in R => i < j
         /\ \A i, j \in 1 .. Cardinality(S) : f[i] = f[j] => i = j
         /\ \A x \in S : \E k \in 1 .. Cardinality(S) : f[k] = x
<1> DEFINE n == Cardinality(S)
<1>1. n \in Nat
  BY FS_CardinalityType
<1>2. \A i, j \in 1 .. n : i < j => f[i] # f[j]
  BY DEF Strict, Along
<1>3. \A i, j \in 1 .. n : f[i] = f[j] => i = j
  BY <1>1, <1>2
<1>4. f \in Injection(1 .. n, S)
  BY <1>3 DEF Along, Injection, IsInjective
<1>5. IsFiniteSet(1 .. n) /\ Cardinality(1 .. n) = n
  BY <1>1, FS_Interval
<1>6. f \in Surjection(1 .. n, S)
  BY <1>4, <1>5, FS_Injection
<1>7. \A x \in S : \E k \in 1 .. n : f[k] = x
  BY <1>6 DEF Surjection
<1>8. ASSUME NEW i \in 1 .. n, NEW j \in 1 .. n, <<f[i], f[j]>> \in R PROVE i < j
  <2>1. f[i] \in S /\ f[j] \in S
    BY DEF Along
  <2>2. i # j
    BY <1>8, <2>1 DEF Strict
  <2>3. ~ (j < i)
    BY <1>8, <2>1 DEF Strict, Along
  <2> QED
    BY <1>1, <2>2, <2>3
<1> QED
  BY <1>3, <1>7, <1>8

(* As many are before the k-th as its place says.                          *)
LEMMA AlongCounts ==
  ASSUME NEW S, IsFiniteSet(S), NEW R, Strict(R, S), NEW f, Along(f, R, S),
         NEW k \in 1 .. Cardinality(S)
  PROVE  Cardinality({x \in S : <<x, f[k]>> \in R}) = k - 1
<1> DEFINE n == Cardinality(S)
           B == {x \in S : <<x, f[k]>> \in R}
           g == [i \in 1 .. k - 1 |-> f[i]]
<1>1. n \in Nat
  BY FS_CardinalityType
<1>2. g \in [1 .. k - 1 -> B]
  BY <1>1 DEF Along
<1>3. \A i, j \in 1 .. k - 1 : g[i] = g[j] => i = j
  BY <1>1, AlongListsAll
<1>4. \A x \in B : \E i \in 1 .. k - 1 : g[i] = x
  <2> SUFFICES ASSUME NEW x \in B PROVE \E i \in 1 .. k - 1 : g[i] = x
    OBVIOUS
  <2>1. PICK i \in 1 .. n : f[i] = x
    BY AlongListsAll
  <2>2. i < k
    BY <2>1, AlongListsAll
  <2> QED
    BY <1>1, <2>1, <2>2
<1>5. g \in Bijection(1 .. k - 1, B)
  BY <1>2, <1>3, <1>4 DEF Bijection, Injection, Surjection, IsInjective
<1>6. ExistsBijection(1 .. k - 1, B)
  BY <1>5 DEF ExistsBijection
<1>7. k - 1 \in Nat
  BY <1>1
<1> QED
  BY <1>6, <1>7, FS_CountingElements

(* _clip_words: ascending indices.                                         *)
LEMMA Ascending ==
  ASSUME NEW S \in SUBSET Nat, IsFiniteSet(S)
  PROVE  LET f == Enumeration(S, <)
         IN  /\ f \in [1 .. Cardinality(S) -> S]
             /\ Cardinality(S) \in Nat
             /\ \A i, j \in 1 .. Cardinality(S) : i < j <=> f[i] < f[j]
             /\ \A x \in S : \E k \in 1 .. Cardinality(S) : f[k] = x
<1> DEFINE R == {p \in S \X S : p[1] < p[2]}
           n == Cardinality(S)
           f == Enumeration(S, <)
<1>1. Strict(R, S)
  BY DEF Strict
<1>2. n \in Nat
  BY FS_CardinalityType
<1>3. \E g \in [1 .. n -> S] : \A i, j \in 1 .. n : i < j => g[i] < g[j]
  <2>1. PICK g : Along(g, R, S)
    BY <1>1, AlongExists
  <2> QED
    BY <2>1 DEF Along
<1>4. f \in [1 .. n -> S] /\ \A i, j \in 1 .. n : i < j => f[i] < f[j]
  BY <1>3 DEF Enumeration
<1> HIDE DEF f
<1>5. Along(f, R, S)
  BY <1>4 DEF Along
<1>6. /\ \A i, j \in 1 .. n : <<f[i], f[j]>> \in R => i < j
      /\ \A x \in S : \E k \in 1 .. n : f[k] = x
  BY <1>1, <1>5, AlongListsAll
<1>7. \A i, j \in 1 .. n : f[i] < f[j] => i < j
  BY <1>4, <1>6
<1> QED
  BY <1>2, <1>4, <1>6, <1>7 DEF f

(* list.sort: better scores first, equal scores in the order of s.         *)
Better(s) ==
  {p \in (DOMAIN s) \X (DOMAIN s) :
     s[p[1]].score > s[p[2]].score \/ (s[p[1]].score = s[p[2]].score /\ p[1] < p[2])}

LEMMA RankedIs ==
  ASSUME NEW X, NEW s \in Seq(X), \A i \in DOMAIN s : s[i].score \in Nat
  PROVE  /\ Strict(Better(s), DOMAIN s)
         /\ IsFiniteSet(DOMAIN s) /\ Cardinality(DOMAIN s) = Len(s)
         /\ \E f : /\ Along(f, Better(s), DOMAIN s)
                   /\ Ranked(s) = [k \in DOMAIN s |-> s[f[k]]]
<1> DEFINE D == DOMAIN s
           n == Cardinality(D)
           R == Better(s)
<1>1. D = 1 .. Len(s) /\ Len(s) \in Nat
  OBVIOUS
<1>2. IsFiniteSet(D) /\ n = Len(s)
  BY <1>1, FS_Interval
<1>3. Strict(R, D)
  BY <1>1 DEF Strict, Better
<1>4. PICK g : Along(g, R, D)
  BY <1>2, <1>3, AlongExists
<1> DEFINE P(i, j) == s[i].score > s[j].score \/ (s[i].score = s[j].score /\ i < j)
           f == Enumeration(D, P)
<1>5. \A i, j \in D : <<i, j>> \in R <=> P(i, j)
  BY DEF Better
<1>6. \E h \in [1 .. n -> D] : \A i, j \in 1 .. n : i < j => P(h[i], h[j])
  <2>1. g \in [1 .. n -> D] /\ \A i, j \in 1 .. n : i < j => P(g[i], g[j])
    BY <1>4, <1>5 DEF Along
  <2> QED
    BY <2>1
<1>7. f \in [1 .. n -> D] /\ \A i, j \in 1 .. n : i < j => P(f[i], f[j])
  BY <1>6 DEF Enumeration
<1>8. Ranked(s) = [k \in D |-> s[f[k]]]
  BY DEF Ranked
<1> HIDE DEF f
<1>9. Along(f, R, D)
  BY <1>5, <1>7 DEF Along
<1> QED
  BY <1>2, <1>3, <1>8, <1>9

----------------------------------------------------------------------------
(* The words of a transcript follow each other, not only each the last.    *)
Follow(ws) == \A i, j \in DOMAIN ws : i < j => ws[i].end <= ws[j].start

LEMMA TranscriptsFollow ==
  ASSUME NEW ws \in Transcripts
  PROVE  ws \in Seq(Word) /\ Follow(ws)
<1>1. MaxWords \in Nat /\ Duration \in Nat
  BY AnalyzeAssumption
<1>2. PICK n \in 0 .. MaxWords : ws \in [1 .. n -> Word]
  BY DEF Transcripts
<1>3. n \in Nat /\ ws \in Seq(Word) /\ DOMAIN ws = 1 .. n
  BY <1>1, <1>2
<1>4. \A i \in 1 .. n : ws[i].start \in Int /\ ws[i].end \in Int /\ ws[i].start <= ws[i].end
  BY <1>1, <1>2 DEF Word
<1>5. \A i \in 1 .. n : i > 1 => ws[i - 1].end <= ws[i].start
  BY <1>3 DEF Transcripts
<1> DEFINE S == {d \in Nat : \A i \in 1 .. n : i + d + 1 <= n => ws[i].end <= ws[i + d + 1].start}
<1>6. 0 \in S
  <2> SUFFICES ASSUME NEW i \in 1 .. n, i + 1 <= n PROVE ws[i].end <= ws[i + 1].start
    OBVIOUS
  <2>1. i + 1 \in 1 .. n /\ i + 1 > 1 /\ (i + 1) - 1 = i
    BY <1>3
  <2> QED
    BY <1>5, <2>1
<1>7. ASSUME NEW d \in S PROVE d + 1 \in S
  <2> SUFFICES ASSUME NEW i \in 1 .. n, i + (d + 1) + 1 <= n
               PROVE  ws[i].end <= ws[i + (d + 1) + 1].start
    OBVIOUS
  <2> DEFINE j == i + d + 1
  <2>1. j \in 1 .. n /\ j + 1 \in 1 .. n /\ j + 1 > 1 /\ (j + 1) - 1 = j /\ i + (d + 1) + 1 = j + 1
    BY <1>3
  <2>2. ws[i].end <= ws[j].start
    BY <1>3, <1>7
  <2>3. ws[j].end <= ws[j + 1].start
    BY <1>5, <2>1
  <2> HIDE DEF j
  <2> QED
    BY <1>4, <2>1, <2>2, <2>3
<1> HIDE DEF S
<1>8. \A d \in Nat : d \in S
  BY <1>6, <1>7, Induction DEF S
<1> USE DEF S
<1>9. ASSUME NEW i \in 1 .. n, NEW j \in 1 .. n, i < j PROVE ws[i].end <= ws[j].start
  <2>1. j - i - 1 \in Nat /\ i + (j - i - 1) + 1 = j
    BY <1>3, <1>9
  <2>2. j - i - 1 \in S
    BY <1>8, <2>1
  <2> QED
    BY <1>3, <2>1, <2>2
<1> QED
  BY <1>3, <1>9 DEF Follow

(* The boundary a time snaps to is a boundary or, without words, the time. *)
LEMMA SnappedIsBoundary ==
  ASSUME NEW t, NEW bounds, NEW x \in Snapped(t, bounds)
  PROVE  (bounds = {} => x = t) /\ (bounds # {} => x \in bounds)
BY DEF Snapped

(* What Keep appends: a clip of allowed length, cut at words.              *)
LEMMA KeptIsGood ==
  ASSUME NEW c \in Candidate, NEW b \in Bounds(c), words \in Seq(Word), Length(b) >= MinLen
  PROVE  /\ Kept(b, c) \in Clip
         /\ Kept(b, c).end - Kept(b, c).start \in MinLen .. MaxLen
         /\ words # <<>> =>
              /\ Kept(b, c).start \in Starts
              /\ \/ Kept(b, c).end \in Ends
                 \/ Kept(b, c).end - Kept(b, c).start = MaxLen
<1>1. Duration \in Nat /\ MinLen \in Nat /\ MaxLen \in Nat /\ MinLen <= MaxLen
  BY AnalyzeAssumption
<1>2. /\ c.start \in Int /\ c.end \in Int /\ c.score \in 0 .. MaxScore
  BY <1>1 DEF Candidate, Times
<1>3. Clamp(c.start) \in 0 .. Duration /\ Clamp(c.end) \in 0 .. Duration
  BY <1>1, <1>2 DEF Clamp
<1>4. \A i \in DOMAIN words : words[i] \in Word
  OBVIOUS
<1>5. Starts \subseteq 0 .. Duration /\ Ends \subseteq 0 .. Duration + 1
  BY <1>1, <1>4 DEF Starts, Ends, Word
<1>6. words # <<>> => Starts # {} /\ Ends # {}
  <2> SUFFICES ASSUME words # <<>> PROVE Starts # {} /\ Ends # {}
    OBVIOUS
  <2>1. 1 \in DOMAIN words
    OBVIOUS
  <2> QED
    BY <2>1 DEF Starts, Ends
<1>7. b[1] \in Snapped(Clamp(c.start), Starts) /\ b[2] \in Snapped(Clamp(c.end), Ends)
  BY DEF Bounds
<1>8. b[1] \in 0 .. Duration /\ (words # <<>> => b[1] \in Starts)
  <2>1. /\ Starts = {} => b[1] = Clamp(c.start)
        /\ Starts # {} => b[1] \in Starts
    BY <1>7, SnappedIsBoundary
  <2> QED
    BY <1>3, <1>5, <1>6, <2>1
<1>9. b[2] \in 0 .. Duration + 1 /\ (words # <<>> => b[2] \in Ends)
  <2>1. /\ Ends = {} => b[2] = Clamp(c.end)
        /\ Ends # {} => b[2] \in Ends
    BY <1>7, SnappedIsBoundary
  <2>2. Clamp(c.end) \in 0 .. Duration + 1
    BY <1>1, <1>3
  <2> QED
    BY <1>5, <1>6, <2>1, <2>2
<1>10. /\ Shortened(b) \in 0 .. Duration + 1
       /\ Shortened(b) - b[1] \in MinLen .. MaxLen
       /\ Shortened(b) = b[2] \/ Shortened(b) - b[1] = MaxLen
  BY <1>1, <1>8, <1>9 DEF Shortened, Length
<1> QED
  BY <1>2, <1>8, <1>9, <1>10 DEF Kept, Clip

(* The best of a list, once it is ranked and capped.                       *)
LEMMA RankedAndCapped ==
  ASSUME NEW s \in Seq(Clip)
  PROVE  LET best == First(Ranked(s), MaxClips)
         IN  /\ best \in Seq(Clip)
             /\ Len(best) = IF Len(s) < MaxClips THEN Len(s) ELSE MaxClips
             /\ \A k \in DOMAIN best :
                  \E i \in DOMAIN s :
                    /\ s[i] = best[k]
                    /\ Cardinality({j \in DOMAIN s :
                         \/ s[j].score > s[i].score
                         \/ s[j].score = s[i].score /\ j < i}) = k - 1
<1> DEFINE best == First(Ranked(s), MaxClips)
           n == Len(s)
           m == IF n < MaxClips THEN n ELSE MaxClips
<1>1. MaxClips \in Nat /\ MaxScore \in Nat /\ n \in Nat /\ DOMAIN s = 1 .. n
  BY AnalyzeAssumption
<1>2. \A i \in DOMAIN s : s[i] \in Clip /\ s[i].score \in Nat
  <2>1. \A x \in Clip : x.score \in Nat
    BY <1>1 DEF Clip
  <2>2. \A i \in DOMAIN s : s[i] \in Clip
    OBVIOUS
  <2> QED
    BY <2>1, <2>2
<1>3. /\ Strict(Better(s), DOMAIN s)
      /\ IsFiniteSet(DOMAIN s) /\ Cardinality(DOMAIN s) = n
  BY <1>2, RankedIs
<1>4. PICK f : /\ Along(f, Better(s), DOMAIN s)
               /\ Ranked(s) = [k \in DOMAIN s |-> s[f[k]]]
  BY <1>2, RankedIs
<1>5. f \in [1 .. n -> 1 .. n]
  BY <1>1, <1>3, <1>4 DEF Along
<1>6. /\ Ranked(s) \in Seq(Clip) /\ Len(Ranked(s)) = n
      /\ \A k \in 1 .. n : Ranked(s)[k] = s[f[k]]
  BY <1>1, <1>2, <1>4, <1>5
<1>7. /\ best \in Seq(Clip) /\ Len(best) = m
      /\ DOMAIN best = 1 .. m /\ m <= n
      /\ \A k \in 1 .. m : best[k] = s[f[k]]
  <2>1. best = SubSeq(Ranked(s), 1, m)
    BY <1>6 DEF First
  <2>2. m \in Nat /\ m <= n
    BY <1>1
  <2> HIDE DEF best, m
  <2> QED
    BY <1>1, <1>6, <2>1, <2>2
<1> HIDE DEF best
<1>8. ASSUME NEW k \in DOMAIN best
      PROVE  \E i \in DOMAIN s :
               /\ s[i] = best[k]
               /\ Cardinality({j \in DOMAIN s :
                    \/ s[j].score > s[i].score
                    \/ s[j].score = s[i].score /\ j < i}) = k - 1
  <2>1. k \in 1 .. n /\ f[k] \in DOMAIN s /\ s[f[k]] = best[k]
    BY <1>1, <1>5, <1>7
  <2>2. Cardinality({x \in DOMAIN s : <<x, f[k]>> \in Better(s)}) = k - 1
    BY <1>3, <1>4, <2>1, AlongCounts
  <2>3. {x \in DOMAIN s : <<x, f[k]>> \in Better(s)} =
          {j \in DOMAIN s : \/ s[j].score > s[f[k]].score
                            \/ s[j].score = s[f[k]].score /\ j < f[k]}
    BY <2>1 DEF Better
  <2> QED
    BY <2>1, <2>2, <2>3
<1> QED
  BY <1>7, <1>8 DEF best

(* What the properties of analyze need: the words are a transcript, and    *)
(* what is returned is the ranking of what was kept.                       *)
ClipsInv ==
  /\ words \in Transcripts
  /\ TypeOK
  /\ LengthsInBounds
  /\ CutsAtWords
  /\ pc = "done" => clips = First(Ranked(out), MaxClips)

LEMMA ClipsInit == Init => ClipsInv
<1> SUFFICES ASSUME Init PROVE ClipsInv
  OBVIOUS
<1>1. words \in Seq(Word)
  BY TranscriptsFollow DEF Init
<1>2. 0 \in 0 .. MaxCandidates
  BY AnalyzeAssumption
<1> QED
  BY <1>1, <1>2 DEF Init, ClipsInv, TypeOK, LengthsInBounds, CutsAtWords

LEMMA ClipsStep == ClipsInv /\ [Next]_vars => ClipsInv'
<1> SUFFICES ASSUME ClipsInv, [Next]_vars PROVE ClipsInv'
  OBVIOUS
<1>1. /\ words \in Seq(Word) /\ out \in Seq(Clip) /\ clips \in Seq(Clip)
      /\ read \in 0 .. MaxCandidates /\ MaxCandidates \in Nat
      /\ LengthsInBounds /\ CutsAtWords /\ words \in Transcripts
  BY AnalyzeAssumption DEF ClipsInv, TypeOK
<1>2. ASSUME NEW c \in Candidate, Keep(c) PROVE ClipsInv'
  <2>1. PICK b \in Bounds(c) : Length(b) >= MinLen /\ out' = Append(out, Kept(b, c))
    BY <1>2 DEF Keep
  <2> DEFINE clip == Kept(b, c)
  <2>2. /\ clip \in Clip
        /\ clip.end - clip.start \in MinLen .. MaxLen
        /\ words # <<>> => /\ clip.start \in Starts
                           /\ clip.end \in Ends \/ clip.end - clip.start = MaxLen
    BY <1>1, <2>1, KeptIsGood
  <2> HIDE DEF clip
  <2>3. out' = Append(out, clip)
    BY <2>1 DEF clip
  <2>4. /\ out' \in Seq(Clip)
        /\ \A i \in DOMAIN out' : out'[i] = IF i = Len(out) + 1 THEN clip ELSE out[i]
        /\ \A i \in DOMAIN out' : i # Len(out) + 1 => i \in DOMAIN out
    BY <1>1, <2>2, <2>3
  <2>5. words' = words /\ clips' = clips /\ pc' = pc /\ pc = "clean" /\ read' \in 0 .. MaxCandidates
    BY <1>1, <1>2 DEF Keep, Read
  <2>6. LengthsInBounds'
    BY <1>1, <2>2, <2>4 DEF LengthsInBounds
  <2>7. CutsAtWords'
    BY <1>1, <2>2, <2>4, <2>5 DEF CutsAtWords, Starts, Ends
  <2> QED
    BY <1>1, <2>4, <2>5, <2>6, <2>7 DEF ClipsInv, TypeOK
<1>3. ASSUME NEW c \in Candidate, Drop(c) PROVE ClipsInv'
  <2>1. UNCHANGED <<words, out, clips, pc>> /\ pc = "clean" /\ read' \in 0 .. MaxCandidates
    BY <1>1, <1>3 DEF Drop, Read
  <2> QED
    BY <2>1 DEF ClipsInv, TypeOK, LengthsInBounds, CutsAtWords, Starts, Ends
<1>4. CASE RankAndCap
  <2>1. UNCHANGED <<words, out, read>> /\ pc' = "done" /\ clips' = First(Ranked(out), MaxClips)
    BY <1>4 DEF RankAndCap
  <2>2. clips' \in Seq(Clip)
    BY <1>1, <2>1, RankedAndCapped
  <2>3. clips' = First(Ranked(out'), MaxClips)
    BY <2>1
  <2> QED
    BY <2>1, <2>2, <2>3 DEF ClipsInv, TypeOK, LengthsInBounds, CutsAtWords, Starts, Ends
<1>5. CASE UNCHANGED vars
  BY <1>5 DEF vars, ClipsInv, TypeOK, LengthsInBounds, CutsAtWords, Starts, Ends
<1> QED
  BY <1>2, <1>3, <1>4, <1>5 DEF Next

LEMMA BestOfKept == ClipsInv => BestFirst
<1> SUFFICES ASSUME ClipsInv, pc = "done" PROVE BestFirst
  BY DEF BestFirst
<1>1. out \in Seq(Clip) /\ clips = First(Ranked(out), MaxClips)
  BY DEF ClipsInv, TypeOK
<1> QED
  BY <1>1, RankedAndCapped DEF BestFirst

(* The captions leave what analyze stored alone.                           *)
LEMMA CaptionsAnalyze == CaptionsSpec => Spec
<1>1. CaptionsInit => Init
  BY DEF CaptionsInit
<1>2. [CaptionsNext]_<<vars, captions>> => [Next]_vars
  BY DEF CaptionsNext, AnalyzeStep, Render, CaptionStep
<1> QED
  BY <1>1, <1>2, PTL DEF CaptionsSpec, Spec

LEMMA ClipsHold == CaptionsSpec => []ClipsInv
BY ClipsInit, ClipsStep, CaptionsAnalyze, PTL DEF Spec

(* Every clip that is kept has an allowed length, for every transcript and *)
(* every answer of the language model.                                     *)
THEOREM LengthsRespectSettings == CaptionsSpec => []LengthsInBounds
<1>1. ClipsInv => LengthsInBounds
  BY DEF ClipsInv
<1> QED
  BY ClipsHold, <1>1, PTL

(* Every clip starts with a word, and ends with one unless it was          *)
(* shortened to the greatest length.                                       *)
THEOREM CutsBetweenWords == CaptionsSpec => []CutsAtWords
<1>1. ClipsInv => CutsAtWords
  BY DEF ClipsInv
<1> QED
  BY ClipsHold, <1>1, PTL

(* The clips returned are the best of those kept, in order of their score, *)
(* equal scores in the order of the answer; for every number of candidates *)
(* and every cap.                                                          *)
THEOREM BestComeFirst == CaptionsSpec => []BestFirst
BY ClipsHold, BestOfKept, PTL

-----------------------------------------------------------------------------
(* Captions: the words of a clip, and the lines they make.                 *)

(* A line that begins with word f is on the screen, unless it has no       *)
(* length.                                                                 *)
Listed(f) ==
  Ass!Line(f).end <= Ass!Line(f).start \/ \E i \in DOMAIN events : events[i] = Ass!Line(f)

(* The words up to next are in lines, in the order of the lines.           *)
Grouped ==
  /\ \A i \in DOMAIN events :
       events[i].first \in DOMAIN shown /\ events[i] = Ass!Line(events[i].first)
  /\ \A n \in DOMAIN shown : n < next => \E f \in 1 .. n : n < f + PerLine /\ Listed(f)
  /\ next > 1 /\ Ass!Line(1).start < Ass!Line(1).end => events # <<>> /\ events[1] = Ass!Line(1)
  /\ next = 1 => events = <<>>
  /\ step # "lines" => next > Len(shown)
  /\ step = "raised" => events = <<>>

CaptionInv ==
  /\ step \in {"waiting", "select", "lines", "written", "raised"}
  /\ step = "waiting" => rank = 0 /\ events = <<>>
  /\ step # "waiting" =>
       /\ pc = "done" /\ rank \in DOMAIN clips
       /\ window = [start |-> clips[rank].start, end |-> clips[rank].end]
       /\ Ass!TypeOK
  /\ step = "select" => next = 1 /\ events = <<>>
  /\ step \in {"lines", "written", "raised"} =>
       /\ shown = [i \in DOMAIN Ass!ClipWords |-> Ass!Rebased(Ass!ClipWords[i])]
       /\ Grouped

Windows == [start : 0 .. Duration + 1, end : 0 .. Duration + 1]

(* Subtitles counts as the other modules do.                               *)
LEMMA SameCardinality == ASSUME NEW S PROVE Ass!Cardinality(S) = Cardinality(S)
BY Zenon DEF Ass!Cardinality, Cardinality

(* _clip_words passes on, in their order, the words that overlap the clip. *)
LEMMA WordsOfClip ==
  ASSUME words \in Transcripts, window \in Windows
  PROVE  /\ Ass!ClipWords \in Seq(Word)
         /\ Follow(Ass!ClipWords)
         /\ \A k \in DOMAIN Ass!ClipWords :
              /\ Ass!ClipWords[k].end > window.start
              /\ Ass!ClipWords[k].start < window.end
         /\ \A i \in DOMAIN words :
              words[i].end > window.start /\ words[i].start < window.end =>
                \E k \in DOMAIN Ass!ClipWords : Ass!ClipWords[k] = words[i]
<1> DEFINE S == Ass!Overlapping
           n == Cardinality(S)
           f == Enumeration(S, <)
<1>1. /\ words \in Seq(Word) /\ Follow(words)
      /\ DOMAIN words = 1 .. Len(words) /\ Len(words) \in Nat
  BY TranscriptsFollow
<1>2. S \in SUBSET DOMAIN words
  BY DEF Ass!Overlapping
<1>3. S \in SUBSET Nat /\ IsFiniteSet(S)
  <2>1. IsFiniteSet(1 .. Len(words))
    BY <1>1, FS_Interval
  <2> QED
    BY <1>1, <1>2, <2>1, FS_Subset
<1>4. /\ f \in [1 .. n -> S] /\ n \in Nat
      /\ \A i, j \in 1 .. n : i < j <=> f[i] < f[j]
      /\ \A x \in S : \E k \in 1 .. n : f[k] = x
  <2> HIDE DEF S
  <2> QED
    BY <1>3, Ascending
<1>5. Ass!Enumeration(S, <) = f
  <2> HIDE DEF S
  <2>1. Ass!Enumeration(S, <) = Enumeration(S, <)
    BY SameCardinality, Zenon DEF Ass!Enumeration, Enumeration
  <2> QED
    BY <2>1
<1>6. Ass!ClipWords = [k \in 1 .. n |-> words[f[k]]]
  <2>1. Ass!ClipWords = [k \in DOMAIN f |-> words[f[k]]]
    BY <1>5 DEF Ass!ClipWords, Ass!WordsAt
  <2> QED
    BY <1>4, <2>1
<1> HIDE DEF S, n, f
<1>7. /\ Ass!ClipWords \in Seq(Word) /\ DOMAIN Ass!ClipWords = 1 .. n
      /\ \A k \in 1 .. n : Ass!ClipWords[k] = words[f[k]] /\ f[k] \in S
  BY <1>1, <1>2, <1>4, <1>6
<1>8. Follow(Ass!ClipWords)
  BY <1>1, <1>2, <1>4, <1>7 DEF Follow
<1>9. \A k \in 1 .. n : words[f[k]].end > window.start /\ words[f[k]].start < window.end
  BY <1>7 DEF S, Ass!Overlapping
<1>10. ASSUME NEW i \in DOMAIN words, words[i].end > window.start, words[i].start < window.end
       PROVE  \E k \in 1 .. n : Ass!ClipWords[k] = words[i]
  <2>1. i \in S
    BY <1>10 DEF S, Ass!Overlapping
  <2> QED
    BY <1>4, <1>7, <2>1
<1> QED
  BY <1>7, <1>8, <1>9, <1>10

(* The words of a clip on its own clock: in order, each ending after it    *)
(* starts and after the clip does.                                         *)
Timed(ws) ==
  /\ ws \in Seq(Ass!Word)
  /\ Follow(ws)
  /\ \A k \in DOMAIN ws : ws[k].start <= ws[k].end /\ ws[k].end > 0

LEMMA ShownWords ==
  ASSUME words \in Transcripts, window \in Windows
  PROVE  Timed([i \in DOMAIN Ass!ClipWords |-> Ass!Rebased(Ass!ClipWords[i])])
<1> DEFINE cw == Ass!ClipWords
           ws == [i \in DOMAIN cw |-> Ass!Rebased(cw[i])]
<1>1. /\ cw \in Seq(Word) /\ Follow(cw)
      /\ \A k \in DOMAIN cw : cw[k].end > window.start
  BY WordsOfClip
<1> HIDE DEF cw
<1>2. Duration \in Nat /\ window.start \in Nat
  BY AnalyzeAssumption DEF Windows
<1>3. ASSUME NEW w \in Word, w.end > window.start
      PROVE  /\ Ass!Rebased(w) \in Ass!Word
             /\ Ass!Rebased(w).start <= Ass!Rebased(w).end /\ Ass!Rebased(w).end > 0
  BY <1>2, <1>3 DEF Word, Ass!Word, Ass!Rebased, Ass!Positive
<1>4. ASSUME NEW v \in Word, NEW w \in Word, v.end <= w.start
      PROVE  Ass!Rebased(v).end <= Ass!Rebased(w).start
  BY <1>2, <1>4 DEF Word, Ass!Rebased, Ass!Positive
<1>5. \A k \in DOMAIN cw : cw[k] \in Word
  BY <1>1
<1>6. ws \in Seq(Ass!Word)
  <2>1. DOMAIN cw = 1 .. Len(cw) /\ Len(cw) \in Nat
    BY <1>1
  <2>2. \A k \in DOMAIN cw : ws[k] \in Ass!Word
    BY <1>1, <1>3, <1>5
  <2> QED
    BY <2>1, <2>2
<1>7. Follow(ws)
  BY <1>1, <1>4, <1>5 DEF Follow
<1>8. \A k \in DOMAIN ws : ws[k].start <= ws[k].end /\ ws[k].end > 0
  BY <1>1, <1>3, <1>5
<1> QED
  BY <1>6, <1>7, <1>8 DEF Timed, cw

(* A line holds the words from its first to its last; their tags are the   *)
(* times they take.                                                        *)
Last(n) == IF n + PerLine - 1 > Len(shown) THEN Len(shown) ELSE n + PerLine - 1

LEMMA LineIs ==
  ASSUME Timed(shown), NEW n \in DOMAIN shown
  PROVE  /\ Last(n) \in DOMAIN shown /\ n <= Last(n) /\ n \in Nat \ {0}
         /\ \A m \in DOMAIN shown : n <= m /\ m < n + PerLine => m <= Last(n)
         /\ Ass!Line(n).first = n
         /\ Ass!Line(n).start = shown[n].start
         /\ Ass!Line(n).end = shown[Last(n)].end
         /\ Ass!Line(n).kf = [i \in 1 .. Last(n) - n + 1 |-> Ass!Kf(shown[n + i - 1])]
         /\ Ass!Line(n) \in Ass!Event
<1>1. PerLine \in Nat \ {0}
  BY CaptionsAssumption
<1>2. /\ shown \in Seq(Ass!Word) /\ Len(shown) \in Nat
      /\ DOMAIN shown = 1 .. Len(shown) /\ n \in 1 .. Len(shown)
  BY DEF Timed
<1>3. Last(n) \in 1 .. Len(shown) /\ n <= Last(n)
  BY <1>1, <1>2 DEF Last
<1>4. Ass!Line(n) = [start |-> shown[n].start, end |-> shown[Last(n)].end,
                     kf |-> [i \in 1 .. Last(n) - n + 1 |-> Ass!Kf(shown[n + i - 1])], first |-> n]
  BY DEF Ass!Line, Last
<1>5. \A k \in DOMAIN shown : shown[k] \in Ass!Word
  BY <1>2
<1>6. \A w \in Ass!Word : w.start \in 0 .. Duration + 1 /\ w.end \in 0 .. Duration + 1
  BY DEF Ass!Word
<1>7. \A w \in Ass!Word : Ass!Kf(w) \in Nat \ {0}
  BY AnalyzeAssumption DEF Ass!Word, Ass!Kf
<1>8. Ass!Line(n).kf \in Seq(Nat \ {0})
  <2> DEFINE m == Last(n) - n + 1
  <2>1. m \in Nat
    BY <1>2, <1>3
  <2>2. \A i \in 1 .. m : n + i - 1 \in DOMAIN shown
    BY <1>2, <1>3
  <2>3. \A i \in 1 .. m : Ass!Kf(shown[n + i - 1]) \in Nat \ {0}
    BY <1>5, <1>7, <2>2
  <2> QED
    BY <1>4, <2>1, <2>3
<1>9. Ass!Line(n) \in Ass!Event
  BY <1>2, <1>3, <1>4, <1>5, <1>6, <1>8 DEF Ass!Event
<1> QED
  BY <1>1, <1>2, <1>3, <1>4, <1>9 DEF Last

(* A clip has the same words as long as its times are the same.            *)
Rebasing == [i \in DOMAIN Ass!ClipWords |-> Ass!Rebased(Ass!ClipWords[i])]

LEMMA SameWords ==
  ASSUME UNCHANGED <<words, window>>
  PROVE  Rebasing' = Rebasing
<1>1. Ass!Overlapping' = Ass!Overlapping
  BY DEF Ass!Overlapping
<1>2. words' = words
  OBVIOUS
<1>3. Ass!ClipWords' = Ass!ClipWords
  BY <1>1, <1>2, SMT DEF Ass!ClipWords, Ass!WordsAt, Ass!Enumeration
<1>4. \A w : Ass!Rebased(w)' = Ass!Rebased(w)
  BY DEF Ass!Rebased
<1> QED
  BY <1>3, <1>4 DEF Rebasing

LEMMA SameLine == ASSUME shown' = shown, NEW n PROVE Ass!Line(n)' = Ass!Line(n)
BY DEF Ass!Line, Ass!Kf

(* The steps of the captions keep the invariant.                           *)
LEMMA CaptionsSelect ==
  ASSUME ClipsInv, CaptionInv, CaptionStep, Ass!Select
  PROVE  CaptionInv'
<1> DEFINE ws == Rebasing
<1>1. /\ step = "select" /\ step' = "lines" /\ shown' = ws
      /\ UNCHANGED <<words, clips, pc, rank, window, next, events>>
  BY DEF Ass!Select, CaptionStep, vars, Rebasing
<1>2. next = 1 /\ events = <<>> /\ Ass!TypeOK
  BY <1>1 DEF CaptionInv
<1>3. window \in Windows
  BY <1>1, <1>2 DEF CaptionInv, Ass!TypeOK, Windows
<1>4. Timed(ws)
  BY <1>3, ShownWords DEF ClipsInv, Rebasing
<1>5. ws' = ws
  BY <1>1, SameWords
<1> HIDE DEF ws
<1>6. Ass!TypeOK'
  BY <1>1, <1>2, <1>4 DEF Ass!TypeOK, Timed
<1>7. Grouped'
  <2>1. DOMAIN events' = {} /\ DOMAIN shown' \subseteq Nat \ {0}
    BY <1>2, <1>1, <1>4 DEF Timed
  <2> QED
    BY <1>1, <1>2, <2>1 DEF Grouped
<1>8. shown' = ws'
  BY <1>1, <1>5
<1> QED
  BY <1>1, <1>6, <1>7, <1>8 DEF CaptionInv, ws, Rebasing

LEMMA CaptionsLine ==
  ASSUME ClipsInv, CaptionInv, CaptionStep, Ass!AddLine
  PROVE  CaptionInv'
<1> DEFINE cw == Rebasing
           line == Ass!Line(next)
<1>1. /\ step = "lines" /\ next <= Len(shown) /\ next' = next + PerLine
      /\ events' = IF line.end <= line.start THEN events ELSE Append(events, line)
      /\ UNCHANGED <<words, clips, pc, rank, window, shown, step>>
  BY DEF Ass!AddLine, CaptionStep, vars
<1>2. Grouped /\ Ass!TypeOK /\ shown = cw /\ PerLine \in Nat \ {0}
  BY <1>1, CaptionsAssumption DEF CaptionInv, Rebasing
<1>3. window \in Windows
  BY <1>1, <1>2 DEF CaptionInv, Ass!TypeOK, Windows
<1>4. Timed(shown)
  BY <1>2, <1>3, ShownWords DEF ClipsInv, Rebasing
<1>5. cw' = cw /\ \A n : Ass!Line(n)' = Ass!Line(n)
  BY <1>1, SameWords, SameLine
<1> HIDE DEF cw
<1>6. /\ shown \in Seq(Ass!Word) /\ next \in Nat \ {0} /\ events \in Seq(Ass!Event)
      /\ DOMAIN shown = 1 .. Len(shown) /\ Len(shown) \in Nat
  BY <1>2 DEF Ass!TypeOK
<1>7. next \in DOMAIN shown
  BY <1>1, <1>6
<1>8. line \in Ass!Event /\ line.first = next
  BY <1>4, <1>7, LineIs
<1> HIDE DEF line
<1>9. events' \in Seq(Ass!Event) /\ next' \in Nat \ {0}
  BY <1>1, <1>2, <1>6, <1>8
<1>10. Ass!TypeOK'
  BY <1>1, <1>2, <1>9 DEF Ass!TypeOK
<1>11. /\ \A i \in DOMAIN events : i \in DOMAIN events' /\ events'[i] = events[i]
       /\ \A i \in DOMAIN events' : i \in DOMAIN events \/ events'[i] = line
       /\ line.end <= line.start \/ \E i \in DOMAIN events' : events'[i] = line
       /\ events # <<>> => events' # <<>> /\ events'[1] = events[1]
       /\ events = <<>> /\ ~ (line.end <= line.start) => events' # <<>> /\ events'[1] = line
  <2>1. CASE line.end <= line.start
    BY <1>1, <2>1
  <2>2. CASE ~ (line.end <= line.start)
    BY <1>1, <1>6, <1>8, <2>2
  <2> QED
    BY <2>1, <2>2
<1>12. \A f : Listed(f) => Listed(f)'
  BY <1>5, <1>11 DEF Listed
<1>13. ASSUME NEW f, f = next PROVE Listed(f)'
  <2>1. Ass!Line(f) = line
    BY <1>13 DEF line
  <2>2. line.end <= line.start \/ \E i \in DOMAIN events' : events'[i] = line
    BY <1>11
  <2> QED
    BY <1>5, <2>1, <2>2 DEF Listed
<1>14. Grouped'
  <2>1. ASSUME NEW i \in DOMAIN events'
        PROVE  events'[i].first \in DOMAIN shown /\ events'[i] = Ass!Line(events'[i].first)
    BY <1>2, <1>7, <1>8, <1>11 DEF Grouped, line
  <2>2. ASSUME NEW n \in DOMAIN shown, n < next'
        PROVE  \E f \in 1 .. n : n < f + PerLine /\ Listed(f)'
    <3>1. CASE n < next
      BY <1>2, <1>12, <3>1 DEF Grouped
    <3>2. CASE ~ (n < next)
      <4>1. PICK f \in 1 .. n : f = next /\ n < f + PerLine
        BY <1>1, <1>2, <1>6, <2>2, <3>2
      <4>2. Listed(f)'
        BY <1>13, <4>1
      <4> QED
        BY <4>1, <4>2
    <3> QED
      BY <3>1, <3>2
  <2>3. Ass!Line(1).start < Ass!Line(1).end => events' # <<>> /\ events'[1] = Ass!Line(1)
    <3>1. CASE next > 1
      BY <1>2, <1>11, <3>1 DEF Grouped
    <3>2. CASE next = 1
      <4>1. events = <<>> /\ line = Ass!Line(1)
        BY <1>2, <3>2 DEF Grouped, line
      <4>2. line.start \in Int /\ line.end \in Int
        BY <1>8, AnalyzeAssumption DEF Ass!Event
      <4> QED
        BY <1>11, <4>1, <4>2
    <3> QED
      BY <1>6, <3>1, <3>2
  <2>4. next' # 1 /\ step' = "lines"
    BY <1>1, <1>2, <1>6
  <2> QED
    BY <1>1, <1>5, <2>1, <2>2, <2>3, <2>4 DEF Grouped
<1>15. shown' = cw'
  BY <1>1, <1>2, <1>5
<1> QED
  BY <1>1, <1>10, <1>14, <1>15 DEF CaptionInv, cw, Rebasing

LEMMA CaptionsWritten ==
  ASSUME CaptionInv, CaptionStep, Ass!Write
  PROVE  CaptionInv'
<1>1. /\ step = "lines" /\ next > Len(shown)
      /\ step' = IF events = <<>> THEN "raised" ELSE "written"
      /\ UNCHANGED <<words, clips, pc, rank, window, shown, next, events>>
  BY DEF Ass!Write, CaptionStep, vars
<1>2. Grouped' /\ Ass!TypeOK'
  BY <1>1 DEF CaptionInv, Grouped, Listed, Ass!Line, Ass!Kf, Ass!TypeOK
<1> QED
  BY <1>1, <1>2, SameWords DEF CaptionInv, Rebasing

LEMMA CaptionsStart == CaptionsInit => CaptionInv
BY DEF CaptionsInit, CaptionInv

LEMMA CaptionsStep ==
  ClipsInv /\ CaptionInv /\ [CaptionsNext]_<<vars, captions>> => CaptionInv'
<1> SUFFICES ASSUME ClipsInv, CaptionInv, [CaptionsNext]_<<vars, captions>> PROVE CaptionInv'
  OBVIOUS
<1>1. CASE AnalyzeStep
  <2>1. pc = "clean" /\ UNCHANGED captions
    BY <1>1 DEF AnalyzeStep, Next, Drop, Keep, RankAndCap, Read
  <2>2. step = "waiting" /\ step' = "waiting" /\ rank' = 0 /\ events' = <<>>
    BY <2>1 DEF CaptionInv, captions
  <2> QED
    BY <2>2 DEF CaptionInv
<1>2. CASE Render
  <2>1. /\ pc = "done" /\ rank < Len(clips) /\ rank' = rank + 1
        /\ window' = [start |-> clips[rank + 1].start, end |-> clips[rank + 1].end]
        /\ shown' = <<>> /\ next' = 1 /\ events' = <<>> /\ step' = "select"
        /\ UNCHANGED <<words, pc, clips>>
    BY <1>2 DEF Render, vars
  <2>2. /\ words \in Seq(Word) /\ clips \in Seq(Clip) /\ Duration \in Nat
    BY AnalyzeAssumption DEF ClipsInv, TypeOK
  <2>3. rank + 1 \in DOMAIN clips
    BY <2>1, <2>2 DEF CaptionInv
  <2>4. words \in Seq(Ass!Word)
    <3>1. Word \subseteq Ass!Word
      BY <2>2 DEF Word, Ass!Word
    <3> QED
      BY <2>2, <3>1
  <2>5. clips[rank + 1].start \in 0 .. Duration + 1 /\ clips[rank + 1].end \in 0 .. Duration + 1
    <3>1. clips[rank + 1] \in Clip
      BY <2>2, <2>3
    <3> QED
      BY <2>2, <3>1 DEF Clip
  <2>6. Ass!TypeOK'
    BY <2>1, <2>4, <2>5 DEF Ass!TypeOK
  <2> QED
    BY <2>1, <2>3, <2>6 DEF CaptionInv
<1>3. CASE CaptionStep
  BY <1>3, CaptionsSelect, CaptionsLine, CaptionsWritten DEF CaptionStep, Ass!Next
<1>4. CASE UNCHANGED <<vars, captions>>
  <2>1. UNCHANGED <<words, clips, pc, rank, window, shown, next, events, step>>
    BY <1>4 DEF vars, captions
  <2>2. Rebasing' = Rebasing
    BY <2>1, SameWords
  <2>3. Grouped' <=> Grouped
    BY <2>1 DEF Grouped, Listed, Ass!Line, Ass!Kf
  <2>4. Ass!TypeOK' <=> Ass!TypeOK
    BY <2>1 DEF Ass!TypeOK
  <2> QED
    BY <2>1, <2>2, <2>3, <2>4 DEF CaptionInv, Rebasing
<1> QED
  BY <1>1, <1>2, <1>3, <1>4 DEF CaptionsNext

LEMMA CaptionsHold == CaptionsSpec => []CaptionInv
BY CaptionsStart, CaptionsStep, ClipsHold, PTL DEF CaptionsSpec

(* What the captions find in the words and the times of their clip.        *)
LEMMA CaptionFacts ==
  ASSUME ClipsInv, CaptionInv, step \notin {"waiting", "select"}
  PROVE  window \in Windows /\ Timed(shown) /\ shown = Rebasing /\ Grouped
<1>1. /\ Ass!TypeOK /\ shown = Rebasing /\ Grouped
      /\ window = [start |-> clips[rank].start, end |-> clips[rank].end]
  BY DEF CaptionInv, Rebasing
<1>2. window \in Windows
  BY <1>1 DEF Ass!TypeOK, Windows
<1> QED
  BY <1>1, <1>2, ShownWords DEF ClipsInv, Rebasing

(* Both stages keep their types: clips and captions are inside the         *)
(* recording, whatever the language model answered.                        *)
THEOREM CaptionTypes == CaptionsSpec => []StagesTypeOK
<1>1. ASSUME ClipsInv, CaptionInv PROVE StagesTypeOK
  <2>1. TypeOK /\ out \in Seq(Clip) /\ clips \in Seq(Clip) /\ MaxClips \in Nat
    BY <1>1, AnalyzeAssumption DEF ClipsInv, TypeOK
  <2>2. ASSUME pc = "done" PROVE Len(clips) <= MaxClips
    <3>1. clips = First(Ranked(out), MaxClips)
      BY <1>1, <2>2 DEF ClipsInv
    <3>2. Len(clips) = IF Len(out) < MaxClips THEN Len(out) ELSE MaxClips
      BY <2>1, <3>1, RankedAndCapped
    <3> QED
      BY <2>1, <3>2
  <2>3. rank \in 0 .. MaxClips
    <3>1. CASE step = "waiting"
      BY <1>1, <2>1, <3>1 DEF CaptionInv
    <3>2. CASE step # "waiting"
      <4>1. pc = "done" /\ rank \in DOMAIN clips
        BY <1>1, <3>2 DEF CaptionInv
      <4> QED
        BY <2>1, <2>2, <4>1
    <3> QED
      BY <3>1, <3>2
  <2>4. step = "waiting" \/ Ass!TypeOK
    BY <1>1 DEF CaptionInv
  <2> QED
    BY <2>1, <2>3, <2>4 DEF StagesTypeOK
<1> QED
  BY <1>1, ClipsHold, CaptionsHold, PTL

(* A word of the clip is in a line that begins no later than it, ends no   *)
(* earlier, and is on the screen.                                          *)
LEMMA WordIsListed ==
  ASSUME ClipsInv, CaptionInv, step \in {"written", "raised"},
         NEW k \in DOMAIN shown, shown[k].start < shown[k].end
  PROVE  \E i \in DOMAIN events :
           /\ events[i].start <= shown[k].start /\ shown[k].end <= events[i].end
           /\ \E j \in DOMAIN events[i].kf : events[i].first + j - 1 = k
<1>1. Timed(shown) /\ Grouped
  BY CaptionFacts
<1>2. /\ shown \in Seq(Ass!Word) /\ DOMAIN shown = 1 .. Len(shown) /\ Len(shown) \in Nat
      /\ next > Len(shown)
  BY <1>1 DEF Timed, Grouped
<1>3. PICK f \in 1 .. k : k < f + PerLine /\ Listed(f)
  <2>1. next \in Nat
    BY DEF CaptionInv, Ass!TypeOK
  <2>2. k < next
    BY <1>2, <2>1
  <2> QED
    BY <1>1, <2>2 DEF Grouped
<1>4. f \in DOMAIN shown /\ f <= k
  BY <1>2
<1>5. /\ Last(f) \in DOMAIN shown /\ k <= Last(f)
      /\ Ass!Line(f).first = f /\ Ass!Line(f).start = shown[f].start
      /\ Ass!Line(f).end = shown[Last(f)].end
      /\ DOMAIN Ass!Line(f).kf = 1 .. Last(f) - f + 1
  BY <1>1, <1>3, <1>4, LineIs
<1>6. \A m \in DOMAIN shown : shown[m].start \in Nat /\ shown[m].end \in Nat
  <2>1. \A w \in Ass!Word : w.start \in Nat /\ w.end \in Nat
    BY AnalyzeAssumption DEF Ass!Word
  <2> QED
    BY <1>2, <2>1
<1>7. shown[f].start <= shown[k].start
  <2>1. f = k \/ shown[f].end <= shown[k].start
    BY <1>2, <1>1, <1>4 DEF Timed, Follow
  <2> QED
    BY <1>1, <1>4, <1>6, <2>1 DEF Timed
<1>8. shown[k].end <= shown[Last(f)].end
  <2>1. Last(f) = k \/ shown[k].end <= shown[Last(f)].start
    BY <1>2, <1>1, <1>5 DEF Timed, Follow
  <2> QED
    BY <1>1, <1>5, <1>6, <2>1 DEF Timed
<1>9. PICK i \in DOMAIN events : events[i] = Ass!Line(f)
  <2>1. ~ (Ass!Line(f).end <= Ass!Line(f).start)
    BY <1>4, <1>5, <1>6, <1>7, <1>8
  <2> QED
    BY <1>3, <2>1 DEF Listed
<1>10. k - f + 1 \in DOMAIN events[i].kf /\ f + (k - f + 1) - 1 = k
  BY <1>2, <1>4, <1>5, <1>9
<1> QED
  BY <1>5, <1>7, <1>8, <1>9, <1>10

(* Selection, rebasing and grouping of words fit together: every word      *)
(* spoken in the clip is on the screen while it is spoken, also one the    *)
(* clip begins or ends in; for every transcript and every number of words  *)
(* to a line.                                                              *)
THEOREM SpokenWordsShow == CaptionsSpec => []SpokenIsShown
<1>1. ASSUME ClipsInv, CaptionInv PROVE SpokenIsShown
  <2> SUFFICES ASSUME step = "written", NEW i \in DOMAIN words,
                      NEW t \in window.start .. window.end - 1,
                      words[i].start <= t, t < words[i].end
               PROVE  \E e \in Ass!Range(events) :
                        /\ e.start <= t - window.start /\ t - window.start < e.end
                        /\ \E k \in DOMAIN e.kf : shown[e.first + k - 1] = Ass!Rebased(words[i])
    BY DEF SpokenIsShown, Ass!SpokenIsShown
  <2>1. /\ window \in Windows /\ Timed(shown) /\ shown = Rebasing
        /\ words \in Seq(Word) /\ words \in Transcripts /\ Duration \in Nat
    BY <1>1, CaptionFacts, AnalyzeAssumption DEF ClipsInv, TypeOK
  <2>2. /\ window.start \in Nat /\ window.end \in Nat /\ t \in Int
        /\ window.start <= t /\ t < window.end
    BY <2>1 DEF Windows
  <2>3. words[i] \in Word /\ words[i].start \in Nat /\ words[i].end \in Nat
    <3>1. \A w \in Word : w.start \in Nat /\ w.end \in Nat
      BY <2>1 DEF Word
    <3> QED
      BY <2>1, <3>1
  <2>4. words[i].end > window.start /\ words[i].start < window.end
    BY <2>2, <2>3
  <2>5. PICK k \in DOMAIN Ass!ClipWords : Ass!ClipWords[k] = words[i]
    BY <2>1, <2>4, WordsOfClip
  <2>6. k \in DOMAIN shown /\ shown[k] = Ass!Rebased(words[i])
    BY <2>1, <2>5 DEF Rebasing
  <2>7. shown[k].start <= t - window.start /\ t - window.start < shown[k].end
    BY <2>2, <2>3, <2>6 DEF Ass!Rebased, Ass!Positive
  <2>8. shown[k].start \in Nat /\ shown[k].end \in Nat
    BY <2>2, <2>3, <2>6 DEF Ass!Rebased, Ass!Positive
  <2>9. PICK j \in DOMAIN events :
          /\ events[j].start <= shown[k].start /\ shown[k].end <= events[j].end
          /\ \E m \in DOMAIN events[j].kf : events[j].first + m - 1 = k
    BY <1>1, <2>2, <2>6, <2>7, <2>8, WordIsListed
  <2>10. events[j] \in Ass!Range(events)
    BY DEF Ass!Range
  <2>11. events[j].start \in Nat /\ events[j].end \in Nat
    <3>1. events \in Seq(Ass!Event)
      BY <1>1 DEF CaptionInv, Ass!TypeOK
    <3>2. \A e \in Ass!Event : e.start \in Nat /\ e.end \in Nat
      BY <2>1 DEF Ass!Event
    <3> QED
      BY <3>1, <3>2
  <2>12. events[j].start <= t - window.start /\ t - window.start < events[j].end
    BY <2>2, <2>7, <2>8, <2>9, <2>11
  <2> QED
    BY <2>6, <2>9, <2>10, <2>12
<1> QED
  BY <1>1, ClipsHold, CaptionsHold, PTL

(* Where a clip starts there is the word it was snapped to.                *)
LEMMA ClipStartsWithWord ==
  ASSUME ClipsInv, CaptionInv, step # "waiting", words # <<>>, MinLen > 0
  PROVE  /\ window.start < window.end
         /\ \E i \in DOMAIN words : words[i].start = window.start
<1>1. /\ out \in Seq(Clip) /\ clips \in Seq(Clip) /\ LengthsInBounds /\ CutsAtWords
      /\ MinLen \in Nat /\ MaxLen \in Nat /\ Duration \in Nat
  BY AnalyzeAssumption DEF ClipsInv, TypeOK
<1>2. /\ pc = "done" /\ rank \in DOMAIN clips
      /\ window.start = clips[rank].start /\ window.end = clips[rank].end
  BY DEF CaptionInv
<1>3. clips = First(Ranked(out), MaxClips)
  BY <1>2 DEF ClipsInv
<1>4. PICK j \in DOMAIN out : out[j] = clips[rank]
  BY <1>1, <1>2, <1>3, RankedAndCapped
<1>5. out[j].start \in Nat /\ out[j].end \in Nat
  <2>1. \A c \in Clip : c.start \in Nat /\ c.end \in Nat
    BY <1>1 DEF Clip
  <2> QED
    BY <1>1, <2>1
<1>6. out[j].end - out[j].start \in MinLen .. MaxLen /\ out[j].start \in Starts
  BY <1>1 DEF LengthsInBounds, CutsAtWords
<1> QED
  BY <1>1, <1>2, <1>4, <1>5, <1>6 DEF Starts

(* build_ass never refuses a clip that analyze chose, and its first        *)
(* caption is up when the clip starts: the word the clip was snapped to is *)
(* the first one selected, so that the first line begins at 0.             *)
THEOREM CaptionsFromStart == CaptionsSpec => []CaptionedFromStart
<1>1. ASSUME ClipsInv, CaptionInv PROVE CaptionedFromStart
  <2> SUFFICES ASSUME MinLen > 0, words # <<>>,
                      \A i \in DOMAIN words : words[i].start < words[i].end,
                      step \in {"written", "raised"}
               PROVE  step # "raised" /\ events[1].start = 0
    BY DEF CaptionedFromStart
  <2>1. /\ window \in Windows /\ Timed(shown) /\ shown = Rebasing /\ Grouped
        /\ words \in Seq(Word) /\ words \in Transcripts /\ Duration \in Nat
    BY <1>1, CaptionFacts, AnalyzeAssumption DEF ClipsInv, TypeOK
  <2>2. PICK i \in DOMAIN words : words[i].start = window.start
    BY <1>1, ClipStartsWithWord
  <2>3. window.start < window.end /\ window.start \in Nat /\ window.end \in Nat
    BY <1>1, <2>1, ClipStartsWithWord DEF Windows
  <2>4. \A w \in Word : w.start \in Nat /\ w.end \in Nat
    BY <2>1 DEF Word
  <2>5. words[i].end > window.start /\ words[i].start < window.end
    BY <2>1, <2>2, <2>3, <2>4
  <2> DEFINE cw == Ass!ClipWords
  <2>6. /\ cw \in Seq(Word) /\ Follow(cw)
        /\ \A k \in DOMAIN cw : cw[k].end > window.start
        /\ \E k \in DOMAIN cw : cw[k] = words[i]
    BY <2>1, <2>5, WordsOfClip
  <2>7. shown = [k \in DOMAIN cw |-> Ass!Rebased(cw[k])]
    BY <2>1 DEF Rebasing
  <2> HIDE DEF cw
  <2>8. 1 \in DOMAIN cw /\ cw[1] = words[i]
    <3>1. PICK k \in DOMAIN cw : cw[k] = words[i]
      BY <2>6
    <3>2. 1 \in DOMAIN cw /\ (k = 1 \/ 1 < k)
      BY <2>6
    <3>3. ASSUME 1 < k PROVE FALSE
      <4>1. cw[1].end <= cw[k].start /\ cw[1].end > window.start
        BY <2>6, <3>2, <3>3 DEF Follow
      <4>2. cw[1] \in Word
        BY <2>6, <3>2
      <4> QED
        BY <2>2, <2>3, <2>4, <3>1, <4>1, <4>2
    <3> QED
      BY <3>1, <3>2, <3>3
  <2>9. 1 \in DOMAIN shown /\ shown[1].start = 0 /\ shown[1].end > 0
    <3>1. 1 \in DOMAIN shown /\ shown[1] = Ass!Rebased(words[i])
      BY <2>7, <2>8
    <3>2. shown[1].start = 0
      BY <2>2, <2>3, <3>1 DEF Ass!Rebased, Ass!Positive
    <3> QED
      BY <2>1, <3>1, <3>2 DEF Timed
  <2>10. Ass!Line(1).start = 0 /\ Ass!Line(1).end > 0
    <3>1. /\ Last(1) \in DOMAIN shown /\ Ass!Line(1).start = shown[1].start
          /\ Ass!Line(1).end = shown[Last(1)].end
      BY <2>1, <2>9, LineIs
    <3> QED
      BY <2>1, <2>9, <3>1 DEF Timed
  <2>11. next > 1
    <3>1. next \in Nat /\ next > Len(shown)
      BY <1>1, <2>1 DEF CaptionInv, Ass!TypeOK, Grouped
    <3>2. Len(shown) \in Nat /\ Len(shown) >= 1
      BY <2>1, <2>9 DEF Timed
    <3> QED
      BY <3>1, <3>2
  <2>12. events # <<>> /\ events[1] = Ass!Line(1)
    BY <2>1, <2>10, <2>11 DEF Grouped
  <2> QED
    BY <2>1, <2>10, <2>12 DEF Grouped
<1> QED
  BY <1>1, ClipsHold, CaptionsHold, PTL

(* The highlight of an event is a sum, as the recursion says it is: some   *)
(* function satisfies it for the first m words, for every m.               *)
LEMMA ReachedIs ==
  ASSUME NEW e, NEW n \in Nat, e.start \in Nat, e.kf \in [1 .. n -> Nat]
  PROVE  \A k \in 1 .. n :
           Ass!Reached(e)[k] =
             IF k = 1 THEN e.start ELSE Ass!Reached(e)[k - 1] + e.kf[k - 1]
<1> DEFINE Sums(g, m) == \A k \in 1 .. m : g[k] = IF k = 1 THEN e.start ELSE g[k - 1] + e.kf[k - 1]
           S == {m \in Nat : m <= n => \E g \in [1 .. m -> Nat] : Sums(g, m)}
<1>1. 0 \in S
  <2>1. [k \in 1 .. 0 |-> 0] \in [1 .. 0 -> Nat] /\ Sums([k \in 1 .. 0 |-> 0], 0)
    OBVIOUS
  <2> HIDE DEF Sums
  <2> QED
    BY <2>1
<1>2. ASSUME NEW m \in S PROVE m + 1 \in S
  <2> HIDE DEF Sums
  <2> SUFFICES ASSUME m + 1 <= n PROVE \E g \in [1 .. m + 1 -> Nat] : Sums(g, m + 1)
    BY <1>2
  <2> USE DEF Sums
  <2>1. m \in Nat /\ m <= n
    BY <1>2
  <2>2. PICK g \in [1 .. m -> Nat] : Sums(g, m)
    BY <1>2, <2>1
  <2> DEFINE top == IF m = 0 THEN e.start ELSE g[m] + e.kf[m]
             h == [k \in 1 .. m + 1 |-> IF k <= m THEN g[k] ELSE top]
  <2>3. top \in Nat
    BY <2>1
  <2> HIDE DEF top
  <2>4. h \in [1 .. m + 1 -> Nat]
    BY <2>1, <2>3
  <2>5. Sums(h, m + 1)
    <3> SUFFICES ASSUME NEW k \in 1 .. m + 1
                 PROVE  h[k] = IF k = 1 THEN e.start ELSE h[k - 1] + e.kf[k - 1]
      OBVIOUS
    <3>1. CASE k <= m
      <4>1. h[k] = g[k] /\ (k # 1 => k - 1 \in 1 .. m + 1 /\ h[k - 1] = g[k - 1])
        BY <2>1, <3>1
      <4>2. g[k] = IF k = 1 THEN e.start ELSE g[k - 1] + e.kf[k - 1]
        BY <2>1, <2>2, <3>1
      <4> QED
        BY <4>1, <4>2
    <3>2. CASE k = m + 1
      <4>1. h[k] = top
        BY <2>1, <3>2
      <4>2. k # 1 => h[k - 1] = g[m] /\ k - 1 = m /\ m # 0
        BY <2>1, <3>2
      <4> QED
        BY <2>1, <3>2, <4>1, <4>2 DEF top
    <3> QED
      BY <2>1, <3>1, <3>2
  <2> HIDE DEF h, Sums
  <2> QED
    BY <2>4, <2>5
<1> HIDE DEF S
<1>3. \A m \in Nat : m \in S
  BY <1>1, <1>2, Induction DEF S
<1> HIDE DEF Sums
<1>4. PICK g \in [1 .. n -> Nat] : Sums(g, n)
  <2>1. n \in S
    BY <1>3
  <2> QED
    BY <2>1 DEF S
<1> USE DEF Sums
<1>5. g = [k \in DOMAIN e.kf |-> IF k = 1 THEN e.start ELSE g[k - 1] + e.kf[k - 1]]
  BY <1>4
<1> DEFINE at == Ass!Reached(e)
<1>6. at = CHOOSE a : a = [k \in DOMAIN e.kf |-> IF k = 1 THEN e.start ELSE a[k - 1] + e.kf[k - 1]]
  BY DEF Ass!Reached
<1> HIDE DEF at
<1>7. at = [k \in DOMAIN e.kf |-> IF k = 1 THEN e.start ELSE at[k - 1] + e.kf[k - 1]]
  BY <1>5, <1>6
<1>8. \A k \in 1 .. n : at[k] = IF k = 1 THEN e.start ELSE at[k - 1] + e.kf[k - 1]
  BY <1>7
<1> QED
  BY <1>8 DEF at

(* The words of a line that have no length, of the first m.                *)
Momentary(f, m) == {j \in 1 .. m : shown[f + j - 1].end = shown[f + j - 1].start}

LEMMA MomentaryCounted ==
  ASSUME NEW f, NEW m \in Nat
  PROVE  /\ Cardinality(Momentary(f, m)) \in Nat
         /\ Cardinality(Momentary(f, 0)) = 0
         /\ Cardinality(Momentary(f, m + 1)) =
              IF shown[f + (m + 1) - 1].end = shown[f + (m + 1) - 1].start
                THEN Cardinality(Momentary(f, m)) + 1 ELSE Cardinality(Momentary(f, m))
<1>1. IsFiniteSet(Momentary(f, m)) /\ Cardinality(Momentary(f, m)) \in Nat
  <2>1. IsFiniteSet(1 .. m)
    BY FS_Interval
  <2>2. Momentary(f, m) \in SUBSET (1 .. m)
    BY DEF Momentary
  <2> QED
    BY <2>1, <2>2, FS_Subset, FS_CardinalityType
<1>2. Cardinality(Momentary(f, 0)) = 0
  <2>1. Momentary(f, 0) = {}
    BY DEF Momentary
  <2> QED
    BY <2>1, FS_EmptySet
<1>3. m + 1 \notin Momentary(f, m)
  BY DEF Momentary
<1>4. CASE shown[f + (m + 1) - 1].end = shown[f + (m + 1) - 1].start
  <2>1. Momentary(f, m + 1) = Momentary(f, m) \cup {m + 1}
    BY <1>4 DEF Momentary
  <2> QED
    BY <1>1, <1>2, <1>3, <1>4, <2>1, FS_AddElement
<1>5. CASE shown[f + (m + 1) - 1].end # shown[f + (m + 1) - 1].start
  <2>1. Momentary(f, m + 1) = Momentary(f, m)
    BY <1>5 DEF Momentary
  <2> QED
    BY <1>1, <1>2, <1>5, <2>1
<1> QED
  BY <1>4, <1>5

(* A word's tag is its length, and 1 when it has none; the next word       *)
(* begins no earlier than it ends.  So the sum of the tags stays behind    *)
(* the start of the next word, but for the words that have none.           *)
LEMMA LineNotLate ==
  ASSUME Timed(shown), NEW f \in DOMAIN shown, NEW k \in 1 .. Last(f) - f + 1
  PROVE  Ass!Reached(Ass!Line(f))[k] <= shown[f + k - 1].start + Cardinality(Momentary(f, k - 1))
<1> DEFINE e == Ass!Line(f)
           n == Last(f) - f + 1
           at == Ass!Reached(e)
           S == {m \in Nat : m < n =>
                   /\ at[m + 1] \in Nat
                   /\ at[m + 1] <= shown[f + (m + 1) - 1].start + Cardinality(Momentary(f, m))}
<1>1. /\ shown \in Seq(Ass!Word) /\ Follow(shown)
      /\ DOMAIN shown = 1 .. Len(shown) /\ Len(shown) \in Nat /\ f \in 1 .. Len(shown)
  BY DEF Timed
<1>2. \A j \in DOMAIN shown :
        /\ shown[j].start \in Nat /\ shown[j].end \in Nat /\ shown[j].start <= shown[j].end
        /\ Ass!Kf(shown[j]) \in Nat
        /\ shown[j].end = shown[j].start => Ass!Kf(shown[j]) = 1
        /\ shown[j].end # shown[j].start => Ass!Kf(shown[j]) = shown[j].end - shown[j].start
  <2> SUFFICES ASSUME NEW j \in DOMAIN shown
               PROVE  /\ shown[j].start \in Nat /\ shown[j].end \in Nat
                      /\ shown[j].start <= shown[j].end /\ Ass!Kf(shown[j]) \in Nat
                      /\ shown[j].end = shown[j].start => Ass!Kf(shown[j]) = 1
                      /\ shown[j].end # shown[j].start =>
                           Ass!Kf(shown[j]) = shown[j].end - shown[j].start
    OBVIOUS
  <2>1. \A w \in Ass!Word : w.start \in Nat /\ w.end \in Nat
    BY AnalyzeAssumption DEF Ass!Word
  <2>2. shown[j].start \in Nat /\ shown[j].end \in Nat /\ shown[j].start <= shown[j].end
    BY <1>1, <2>1 DEF Timed
  <2> QED
    BY <2>2 DEF Ass!Kf
<1>3. /\ Last(f) \in DOMAIN shown /\ f <= Last(f)
      /\ e.start = shown[f].start
      /\ e.kf = [j \in 1 .. n |-> Ass!Kf(shown[f + j - 1])]
  BY LineIs
<1>4. n \in Nat /\ n >= 1 /\ \A j \in 1 .. n : f + j - 1 \in DOMAIN shown
  BY <1>1, <1>3
<1> HIDE DEF e, n
<1>5. e.start \in Nat /\ e.kf \in [1 .. n -> Nat]
  BY <1>2, <1>3, <1>4
<1>6. \A j \in 1 .. n : at[j] = IF j = 1 THEN e.start ELSE at[j - 1] + e.kf[j - 1]
  BY <1>4, <1>5, ReachedIs
<1> HIDE DEF at
<1>7. 0 \in S
  <2>1. at[1] = shown[f].start /\ shown[f].start \in Nat
    BY <1>2, <1>3, <1>4, <1>6
  <2>2. f + (0 + 1) - 1 = f /\ Cardinality(Momentary(f, 0)) = 0
    BY <1>1, MomentaryCounted
  <2> QED
    BY <2>1, <2>2
<1>8. ASSUME NEW m \in S PROVE m + 1 \in S
  <2> DEFINE v == shown[f + (m + 1) - 1]
             w == shown[f + ((m + 1) + 1) - 1]
             c == Cardinality(Momentary(f, m))
             d == Cardinality(Momentary(f, m + 1))
  <2> SUFFICES ASSUME m + 1 < n
               PROVE  at[(m + 1) + 1] \in Nat /\ at[(m + 1) + 1] <= w.start + d
    BY <1>8
  <2>1. m \in Nat /\ m + 1 \in 1 .. n /\ (m + 1) + 1 \in 1 .. n /\ (m + 1) + 1 # 1
    BY <1>4, <1>8
  <2>2. at[m + 1] \in Nat /\ at[m + 1] <= v.start + c
    BY <1>4, <1>8, <2>1
  <2>3. at[(m + 1) + 1] = at[m + 1] + Ass!Kf(v)
    <3>1. at[(m + 1) + 1] = at[m + 1] + e.kf[m + 1]
      BY <1>6, <2>1
    <3>2. e.kf[m + 1] = Ass!Kf(v)
      BY <1>3, <2>1
    <3> QED
      BY <3>1, <3>2
  <2>4. f + (m + 1) - 1 \in DOMAIN shown /\ f + ((m + 1) + 1) - 1 \in DOMAIN shown
    BY <1>4, <2>1
  <2>5. v.end <= w.start
    <3>1. f + (m + 1) - 1 < f + ((m + 1) + 1) - 1
      BY <1>1, <2>1
    <3> QED
      BY <1>1, <2>4, <3>1 DEF Follow
  <2>6. /\ v.start \in Nat /\ v.end \in Nat /\ v.start <= v.end /\ w.start \in Nat
        /\ Ass!Kf(v) \in Nat
        /\ v.end = v.start => Ass!Kf(v) = 1
        /\ v.end # v.start => Ass!Kf(v) = v.end - v.start
    BY <1>2, <2>4
  <2>7. c \in Nat /\ d = IF v.end = v.start THEN c + 1 ELSE c
    BY <2>1, MomentaryCounted
  <2> HIDE DEF v, w, c, d
  <2> QED
    BY <2>2, <2>3, <2>5, <2>6, <2>7
<1> HIDE DEF S
<1>9. \A m \in Nat : m \in S
  BY <1>7, <1>8, Induction DEF S
<1>10. k - 1 \in Nat /\ k - 1 < n /\ (k - 1) + 1 = k /\ f + ((k - 1) + 1) - 1 = f + k - 1
  BY <1>1, <1>3, <1>4 DEF n
<1>11. k - 1 \in S
  BY <1>9, <1>10
<1>12. at[k] <= shown[f + k - 1].start + Cardinality(Momentary(f, k - 1))
  BY <1>10, <1>11 DEF S
<1> QED
  BY <1>12 DEF at, e

(* docs/ARCHITECTURE.md, "per-word timing": the karaoke highlight reaches  *)
(* no word after its voice does, but for the least time that words of no   *)
(* length are given; for every line of every clip.                         *)
THEOREM HighlightIsInTime == CaptionsSpec => []HighlightNeverLate
<1>1. ASSUME ClipsInv, CaptionInv PROVE HighlightNeverLate
  <2> SUFFICES ASSUME NEW i \in DOMAIN events, NEW k \in DOMAIN events[i].kf
               PROVE  Ass!Reached(events[i])[k] <=
                        shown[events[i].first + k - 1].start +
                          Ass!Cardinality({j \in 1 .. k - 1 :
                            shown[events[i].first + j - 1].end
                              = shown[events[i].first + j - 1].start})
    BY DEF HighlightNeverLate, Ass!HighlightNeverLate
  <2>1. step \notin {"waiting", "select"}
    BY <1>1 DEF CaptionInv
  <2>2. Timed(shown) /\ Grouped
    BY <1>1, <2>1, CaptionFacts
  <2>3. PICK f \in DOMAIN shown : f = events[i].first /\ events[i] = Ass!Line(f)
    BY <2>2 DEF Grouped
  <2>4. k \in 1 .. Last(f) - f + 1
    <3>1. Ass!Line(f).kf = [j \in 1 .. Last(f) - f + 1 |-> Ass!Kf(shown[f + j - 1])]
      BY <2>2, LineIs
    <3> QED
      BY <2>3, <3>1
  <2>5. Ass!Reached(Ass!Line(f))[k] <= shown[f + k - 1].start + Cardinality(Momentary(f, k - 1))
    BY <2>2, <2>4, LineNotLate
  <2> QED
    BY <2>3, <2>5, SameCardinality DEF Momentary
<1> QED
  BY <1>1, ClipsHold, CaptionsHold, PTL
=============================================================================
