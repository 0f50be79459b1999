------------------------ MODULE AnswerReadingProofs ------------------------
(***************************************************************************)
(* Proofs about AnswerReading, for any reviews a model may mean, anything  *)
(* it writes around them, wherever it stops, and any window and threshold  *)
(* of the repetition detector.  A fact about every position of a text is   *)
(* proved by looking at the first position where it would fail.            *)
(***************************************************************************)
EXTENDS AnswerReading, FiniteSetTheorems, SequenceTheorems, WellFoundedInduction, TLAPS

----------------------------------------------------------------------------
(* Positions in a text *)

\* A set of numbers that is not empty has a least element, and that is its minimum.
LEMMA LeastExists ==
  ASSUME NEW S \in SUBSET Nat, S # {}
  PROVE  Min(S) \in S /\ \A y \in S : Min(S) <= y
<1>1. PICK x \in S : \A y \in S : ~(<<y, x>> \in OpToRel(<, Nat))
  BY NatLessThanWellFounded, WFMin
<1>2. \A y \in S : x <= y
  <2> SUFFICES ASSUME NEW y \in S, y < x
               PROVE  FALSE
    OBVIOUS
  <2>1. <<y, x>> \in OpToRel(<, Nat)
    BY DEF OpToRel
  <2>2. QED
    BY <2>1, <1>1
<1>3. QED
  BY <1>2 DEF Min

\* A set of numbers with a bound has a greatest one.
LEMMA GreatestExists ==
  ASSUME NEW n \in Nat, NEW S \in SUBSET (0..n), S # {}
  PROVE  Max(S) \in S /\ \A y \in S : y <= Max(S)
<1> DEFINE T == {n - y : y \in S}
<1>1. T \in SUBSET Nat /\ T # {}
  <2>1. \A y \in S : n - y \in Nat
    OBVIOUS
  <2>2. QED
    BY <2>1
<1>2. Min(T) \in T /\ \A d \in T : Min(T) <= d
  BY <1>1, LeastExists
<1>3. PICK x \in S : Min(T) = n - x
  BY <1>2
<1>4. \A y \in S : x >= y
  <2> SUFFICES ASSUME NEW y \in S
               PROVE  x >= y
    OBVIOUS
  <2>1. n - x <= n - y
    BY <1>2, <1>3
  <2>2. QED
    BY <2>1
<1>5. \A y \in S : Max(S) >= y
  BY <1>4 DEF Max
<1>6. Max(S) \in S
  BY <1>4 DEF Max
<1>7. QED
  BY <1>5, <1>6

\* NextPosition is the first position with a token after another position, and the one
\* behind the text if there is none.
LEMMA NextPositionIs ==
  ASSUME NEW X, NEW t \in Seq(X), NEW token, NEW after \in 0..Len(t)
  PROVE  LET q == NextPosition(t, token, after)
         IN  /\ q \in (after + 1)..(Len(t) + 1)
             /\ q <= Len(t) => t[q] = token
             /\ \A p \in (after + 1)..Len(t) : t[p] = token => q <= p
<1> DEFINE S == {p \in DOMAIN t : p > after /\ t[p] = token} \cup {Len(t) + 1}
<1>1. Len(t) \in Nat /\ DOMAIN t = 1..Len(t)
  OBVIOUS
<1>2. S \in SUBSET Nat /\ S # {}
  BY <1>1
<1>3. Min(S) \in S /\ \A y \in S : Min(S) <= y
  BY <1>2, LeastExists
<1>4. NextPosition(t, token, after) = Min(S)
  BY DEF NextPosition
<1> DEFINE q == Min(S)
<1>5. (q \in DOMAIN t /\ q > after /\ t[q] = token) \/ q = Len(t) + 1
  BY <1>3
<1> HIDE DEF q
<1>6. q \in (after + 1)..(Len(t) + 1) /\ (q <= Len(t) => t[q] = token)
  BY <1>1, <1>5
<1>7. \A p \in (after + 1)..Len(t) : t[p] = token => p \in S
  BY <1>1
<1>8. \A p \in (after + 1)..Len(t) : t[p] = token => q <= p
  BY <1>3, <1>7 DEF q
<1>9. QED
  BY <1>4, <1>6, <1>8 DEF q

\* The tags of a thought: the second one stands behind the first.
LEMMA TagsAre ==
  ASSUME NEW X, NEW t \in Seq(X)
  PROVE  /\ Opened(t) \in 1..(Len(t) + 1)
         /\ Closed(t) <= Len(t) => Closed(t) \in 1..Len(t) /\ Opened(t) < Closed(t)
<1>1. Opened(t) \in 1..(Len(t) + 1)
  BY NextPositionIs DEF Opened
<1>2. CASE Opened(t) <= Len(t)
  <2>1. Opened(t) \in 0..Len(t)
    BY <1>1, <1>2
  <2>2. Closed(t) \in (Opened(t) + 1)..(Len(t) + 1)
    BY <2>1, NextPositionIs DEF Closed
  <2>3. QED
    BY <1>1, <2>2
<1>3. CASE Opened(t) = Len(t) + 1
  <2>1. {p \in DOMAIN t : p > Opened(t) /\ t[p] = "/think"} = {}
    BY <1>3
  <2>2. Closed(t) = Min({Len(t) + 1})
    BY <2>1 DEF Closed, NextPosition
  <2>3. Min({Len(t) + 1}) = Len(t) + 1
    <3>1. \A n \in Int : Min({n}) = n
      BY DEF Min
    <3>2. Len(t) + 1 \in Int
      OBVIOUS
    <3>3. QED
      BY <3>1, <3>2
  <2>4. QED
    BY <1>1, <2>2, <2>3
<1>4. QED
  BY <1>1, <1>2, <1>3

----------------------------------------------------------------------------
(* The text *)

\* What the raw text is written in.  That a review is written in tokens, too, takes the
\* sections below; TypeCorrect has it.
Letters == Tokens \cup {sent.body[i] : i \in DOMAIN sent.body}

\* Whatever Parse strips, a text remains.
TextInv ==
  /\ sent.lead \in Seq(Tokens) /\ sent.tail \in Seq(Tokens) /\ sent.body \in Seq(Letters)
  /\ text \in Seq(Letters)

\* What is left of a text without a thought, and of one without its fences, is one.
LEMMA StrippedIsText ==
  ASSUME NEW X, NEW t \in Seq(X)
  PROVE  /\ Closed(t) <= Len(t) => Without(t, Opened(t), Closed(t)) \in Seq(X)
         /\ Unfenced(t) \in Seq(X)
         /\ SubSeq(t, 1, Opened(t) - 1) \in Seq(X)
<1>1. Len(t) \in Nat /\ \A i \in 1..Len(t) : t[i] \in X
  OBVIOUS
<1>2. Opened(t) \in 1..(Len(t) + 1)
  BY TagsAre
<1>3. SubSeq(t, 1, Opened(t) - 1) \in Seq(X)
  <2>1. \A i \in 1..(Opened(t) - 1) : t[i] \in X
    BY <1>1, <1>2
  <2>2. Opened(t) - 1 \in Int
    BY <1>2
  <2>3. QED
    BY <2>1, <2>2, SubSeqProperties
<1>4. ASSUME Closed(t) <= Len(t)
      PROVE  Without(t, Opened(t), Closed(t)) \in Seq(X)
  <2>1. Closed(t) \in 1..Len(t)
    BY <1>4, TagsAre
  <2>2. \A i \in (Closed(t) + 1)..Len(t) : t[i] \in X
    BY <1>1, <2>1
  <2>3. SubSeq(t, Closed(t) + 1, Len(t)) \in Seq(X)
    BY <1>1, <2>1, <2>2, SubSeqProperties
  <2>4. QED
    BY <1>3, <2>3 DEF Without
<1>5. Unfenced(t) \in Seq(X)
  <2>1. CASE Len(t) > 1 /\ t[1] = "fence"
    <3> DEFINE S == {p \in DOMAIN t : t[p] # "fence"} \cup {1}
    <3>1. S \in SUBSET (0..Len(t)) /\ S # {}
      BY <1>1, <2>1
    <3>2. Max(S) \in S
      BY <1>1, <3>1, GreatestExists
    <3>3. LastLine(t) \in 0..Len(t)
      BY <3>1, <3>2 DEF LastLine
    <3>4. \A i \in 2..LastLine(t) : t[i] \in X
      BY <1>1, <3>3
    <3>5. SubSeq(t, 2, LastLine(t)) \in Seq(X)
      BY <3>3, <3>4, SubSeqProperties
    <3>6. QED
      BY <2>1, <3>5 DEF Unfenced
  <2>2. CASE ~(Len(t) > 1 /\ t[1] = "fence")
    BY <2>2 DEF Unfenced
  <2>3. QED
    BY <2>1, <2>2
<1>6. QED
  BY <1>3, <1>4, <1>5

\* TextInv holds in every reachable state.
LEMMA TextCorrect == Spec => []TextInv
<1>1. Init => TextInv
  <2> SUFFICES ASSUME Init
               PROVE  TextInv
    OBVIOUS
  <2>0. PICK lead \in Leads, tail \in Tails, form \in Forms(said) :
          \E cut \in 0..Len(form) :
            sent = [lead |-> lead, body |-> SubSeq(form, 1, cut), tail |-> tail]
    BY DEF Init
  <2>1. PICK cut \in 0..Len(form) :
          sent = [lead |-> lead, body |-> SubSeq(form, 1, cut), tail |-> tail]
    BY <2>0
  <2>2. sent.lead \in Seq(Tokens) /\ sent.tail \in Seq(Tokens)
    BY <2>1, AnswerReadingAssumption
  <2>3. sent.body = [i \in 1..cut |-> form[i]] /\ cut \in Nat
    BY <2>1
  <2>4. sent.body \in Seq(Letters)
    BY <2>3 DEF Letters
  <2>5. sent.lead \in Seq(Letters) /\ sent.tail \in Seq(Letters)
    BY <2>2 DEF Letters
  <2>6. text \in Seq(Letters)
    BY <2>4, <2>5 DEF Init, Raw
  <2>7. QED
    BY <2>2, <2>4, <2>6 DEF TextInv
<1>2. TextInv /\ [Next]_vars => TextInv'
  <2> SUFFICES ASSUME TextInv, [Next]_vars
               PROVE  TextInv'
    OBVIOUS
  <2>1. sent' = sent
    BY DEF Next, DetectRepetition, StripThought, StripFences, DecodeWhole, TryBrace, Scan,
           ScanEscaped, ScanBackslash, ScanQuote, ScanOther, ScanBrace, Advance, Unbalanced,
           DecodeMatch, Retry, GiveUp, vars
  <2>2. \/ text' = text
        \/ StripThought \/ StripFences \/ Retry
    BY DEF Next, DetectRepetition, DecodeWhole, TryBrace, Scan, ScanEscaped, ScanBackslash,
           ScanQuote, ScanOther, ScanBrace, Advance, Unbalanced, DecodeMatch, GiveUp, vars
  <2>3. text' \in Seq(Letters)
    BY <2>2, StrippedIsText DEF TextInv, StripThought, StripFences, Retry
  <2>4. Letters' = Letters
    BY <2>1 DEF Letters
  <2>5. QED
    BY <2>1, <2>3, <2>4 DEF TextInv
<1>3. QED
  BY <1>1, <1>2, PTL DEF Spec

----------------------------------------------------------------------------
(* The repetition detector *)

\* What a repeated text looks like further back: going back by the period changes nothing,
\* as often as one stays in the part that repeats.
LEMMA RepeatsBack ==
  ASSUME NEW X, NEW t \in Seq(X), NEW p \in Nat \ {0}, NEW n \in 0..Len(t), Repeats(t, p, n),
         NEW j \in Nat, NEW i \in 1..Len(t), i - j * p > Len(t) - n
  PROVE  t[i - j * p] = t[i]
<1> DEFINE T == {k \in 0..j : t[i - k * p] # t[i]}
<1>1. Len(t) \in Nat /\ n \in Nat
  OBVIOUS
<1> SUFFICES ASSUME T # {}
             PROVE  FALSE
  <2>1. j \notin T
    OBVIOUS
  <2>2. QED
    BY <2>1
<1>2. T \in SUBSET Nat
  OBVIOUS
<1>3. Min(T) \in T /\ \A y \in T : Min(T) <= y
  BY <1>2, LeastExists
<1>4. PICK k \in T : \A y \in T : k <= y
  BY <1>3
<1>5. k \in 0..j /\ t[i - k * p] # t[i]
  OBVIOUS
<1>6. k # 0
  BY <1>5
<1>7. k - 1 \in 0..j /\ ~(k <= k - 1)
  BY <1>5, <1>6
<1>8. t[i - (k - 1) * p] = t[i]
  BY <1>4, <1>7
<1>9. k * p <= j * p
  BY <1>5
<1>10. (k - 1) * p = k * p - p /\ k * p \in Nat /\ j * p \in Nat /\ (k - 1) * p \in Nat
  BY <1>5, <1>6
<1> DEFINE l == i - (k - 1) * p
<1>11. l \in (Len(t) - n + p + 1)..Len(t)
  <2>1. ASSUME NEW a \in Nat, NEW b \in Nat, NEW c \in Nat, NEW m \in Nat,
               a = b - p, b <= c, i - c > m - n, i <= m
        PROVE  i - a \in (m - n + p + 1)..m
    BY <1>1, <2>1
  <2>2. k * p <= j * p /\ i - j * p > Len(t) - n /\ i <= Len(t)
    BY <1>1, <1>9, <1>10
  <2>3. QED
    BY <1>1, <1>10, <2>1, <2>2
<1>12. t[l] = t[l - p]
  BY <1>11 DEF Repeats
<1>13. l - p = i - k * p
  BY <1>10
<1>14. QED
  BY <1>5, <1>8, <1>12, <1>13

\* The window and the threshold are numbers, and not 0.
LEMMA Bounds == Window \in Nat \ {0} /\ Threshold \in Nat \ {0}
<1>1. {Window, Threshold} \subseteq Nat \ {0}
  BY AnswerReadingAssumption
<1>2. QED
  BY <1>1

\* A period's multiple that is as long as the window.
LEMMA StrideCovers ==
  ASSUME NEW p \in Nat \ {0}, NEW w \in Nat \ {0}
  PROVE  LET q == (w + p - 1) \div p
         IN  q \in Nat /\ p * q \in Nat /\ p * q >= w
OBVIOUS

\* A text that ends in a loop for as long as the detector has to see it holds the window at
\* its end often enough.
LEMMA LoopIsSeen ==
  ASSUME NEW X, NEW t \in Seq(X), NEW p \in Nat \ {0}, NEW q \in Nat, p * q >= Window,
         NEW enough, enough = (Threshold - 1) * (p * q) + Window,
         Len(t) >= enough, Repeats(t, p, enough)
  PROVE  Looped(t)
<1> DEFINE N == Len(t)
           stride == p * q
           window == SubSeq(t, N - Window + 1, N)
           start(k) == N - Window + 1 - k * stride
           Ks == 0..(Threshold - 1)
           places == {start(k) : k \in Ks}
<1>1. /\ N \in Nat /\ stride \in Nat /\ Window \in Nat \ {0} /\ Threshold \in Nat \ {0}
      /\ stride >= Window
  <2>1. stride \in Nat
    OBVIOUS
  <2>2. QED
    BY <2>1, Bounds
<1>2. \A k \in Ks : k * stride \in Nat /\ k * stride <= (Threshold - 1) * stride
  BY <1>1
<1>3. enough \in Nat /\ Window <= enough /\ enough <= N
  <2>1. (Threshold - 1) * stride \in Nat
    BY <1>1
  <2>2. QED
    BY <1>1, <2>1
<1>4. N >= Window * Threshold
  <2>1. (Threshold - 1) * stride >= (Threshold - 1) * Window
    BY <1>1
  <2>2. (Threshold - 1) * Window + Window = Window * Threshold
    BY <1>1
  <2>3. (Threshold - 1) * stride \in Nat /\ (Threshold - 1) * Window \in Nat
    BY <1>1
  <2>4. QED
    BY <1>1, <1>3, <2>1, <2>2, <2>3
<1>5. Len(window) = Window /\ \A o \in 1..Window : window[o] = t[N - Window + o]
  BY <1>1, <1>3
<1> HIDE DEF stride
<1>6. ASSUME NEW k \in Ks
      PROVE  start(k) \in Occurrences(t, window)
  <2>1. start(k) \in 1..(N - Window + 1) /\ start(k) > N - enough
    <3>1. enough = (Threshold - 1) * stride + Window
      BY DEF stride
    <3>2. k * stride \in Nat /\ (Threshold - 1) * stride \in Nat
      BY <1>1, <1>2
    <3>3. QED
      BY <1>1, <1>2, <1>3, <3>1, <3>2
  <2>2. ASSUME NEW o \in 1..Window
        PROVE  t[start(k) + o - 1] = t[N - Window + o]
    <3> DEFINE i == N - Window + o
               j == k * q
    <3>1. i \in 1..N /\ j \in Nat
      BY <1>1, <1>3
    <3>2. j * p = k * stride
      BY DEF stride
    <3>3. i - j * p = start(k) + o - 1 /\ i - j * p > N - enough
      BY <1>1, <1>2, <2>1, <3>2
    <3>4. enough \in 0..Len(t)
      BY <1>3
    <3>5. t[i - j * p] = t[i]
      BY <3>1, <3>3, <3>4, RepeatsBack
    <3>6. QED
      BY <3>3, <3>5
  <2> DEFINE s == start(k)
  <2>3. s \in 1..(N - Window + 1)
    BY <2>1
  <2>4. \A o \in 1..Window : t[s + o - 1] = window[o]
    BY <1>5, <2>2
  <2> HIDE DEF s, window
  <2>5. SubSeq(t, s, s + Window - 1) = window
    <3>1. SubSeq(t, s, s + Window - 1) = [o \in 1..Window |-> t[s + o - 1]]
      BY <1>1, <2>3
    <3>2. window = [o \in 1..Window |-> window[o]]
      BY <1>1, <1>3 DEF window
    <3>3. QED
      BY <2>4, <3>1, <3>2
  <2>6. s \in Occurrences(t, window)
    BY <1>1, <1>5, <2>3, <2>5 DEF Occurrences
  <2>7. QED
    BY <2>6 DEF s
<1>7. places \in SUBSET Occurrences(t, window)
  BY <1>6
<1>8. \A j, k \in Ks : start(j) < start(k) => start(k) - start(j) >= Window
  <2> SUFFICES ASSUME NEW j \in Ks, NEW k \in Ks, start(j) < start(k)
               PROVE  start(k) - start(j) >= Window
    OBVIOUS
  <2>1. j * stride \in Nat /\ k * stride \in Nat
    BY <1>1
  <2>2. k * stride < j * stride
    BY <1>1, <2>1
  <2>3. k + 1 <= j
    BY <1>1, <2>2
  <2>4. (k + 1) * stride <= j * stride /\ (k + 1) * stride = k * stride + stride
    BY <1>1, <2>3
  <2>5. QED
    BY <1>1, <2>1, <2>4
<1>9. Cardinality(places) = Threshold
  <2> DEFINE f == [k \in 1..Threshold |-> start(k - 1)]
  <2>1. \A k \in 1..Threshold : k - 1 \in Ks
    BY <1>1
  <2>2. \A k \in Ks : k + 1 \in 1..Threshold /\ f[k + 1] = start(k)
    BY <1>1
  <2>3. f \in Surjection(1..Threshold, places)
    BY <2>1, <2>2 DEF Surjection
  <2>4. \A i, j \in 1..Threshold : f[i] = f[j] => i = j
    <3> SUFFICES ASSUME NEW i \in 1..Threshold, NEW j \in 1..Threshold, f[i] = f[j]
                 PROVE  i = j
      OBVIOUS
    <3>1. (i - 1) * stride \in Int /\ (j - 1) * stride \in Int
      BY <1>1
    <3>2. (i - 1) * stride = (j - 1) * stride
      BY <1>1, <3>1
    <3>3. QED
      BY <1>1, <3>2
  <2>5. f \in Injection(1..Threshold, places)
    BY <2>1, <2>4 DEF Injection, IsInjective
  <2>6. IsFiniteSet(1..Threshold) /\ Cardinality(1..Threshold) = Threshold
    <3>1. Threshold \in Int /\ 1 \in Int /\ ~(1 > Threshold) /\ Threshold - 1 + 1 = Threshold
      BY Bounds
    <3>2. /\ IsFiniteSet(1..Threshold)
          /\ Cardinality(1..Threshold) = IF 1 > Threshold THEN 0 ELSE Threshold - 1 + 1
      BY <3>1, FS_Interval
    <3>3. QED
      BY <3>1, <3>2
  <2>7. QED
    BY <2>3, <2>5, <2>6, FS_Surjection
<1>10. CountsTo(t, window, Threshold)
  <2>1. places \in kSubset(Threshold, Occurrences(t, window))
    BY <1>7, <1>9 DEF kSubset
  <2>2. \A x, y \in places : x < y => y - x >= Len(window)
    BY <1>5, <1>8
  <2>3. QED
    BY <2>1, <2>2 DEF CountsTo
<1>11. QED
  BY <1>4, <1>10 DEF Looped

\* The flag is the detector's verdict on the raw text, which Parse strips only afterwards.
FlagInv ==
  /\ step = "answered" => text = Raw
  /\ step # "answered" => flagged = Looped(Raw)

\* LoopFlagged for every text and every window and threshold: a generation that repeats a
\* block for as long as the detector needs is flagged, wherever it stops.
THEOREM LoopsAreFlagged == Spec => []LoopFlagged
<1>1. Init => FlagInv
  BY DEF Init, FlagInv
<1>2. FlagInv /\ [Next]_vars => FlagInv'
  <2> SUFFICES ASSUME FlagInv, [Next]_vars
               PROVE  FlagInv'
    OBVIOUS
  <2>1. sent' = sent
    BY DEF Next, DetectRepetition, StripThought, StripFences, DecodeWhole, TryBrace, Scan,
           ScanEscaped, ScanBackslash, ScanQuote, ScanOther, ScanBrace, Advance, Unbalanced,
           DecodeMatch, Retry, GiveUp, vars
  <2>2. Raw' = Raw
    BY <2>1 DEF Raw
  <2>3. Looped(Raw)' = Looped(Raw)
    BY <2>2 DEF Looped, CountsTo, Occurrences
  <2>4. CASE DetectRepetition
    BY <2>3, <2>4 DEF DetectRepetition, GoTo, FlagInv
  <2>5. CASE step # "answered" /\ step' # "answered" /\ flagged' = flagged
    BY <2>3, <2>5 DEF FlagInv
  <2>6. CASE UNCHANGED vars
    BY <2>2, <2>3, <2>6 DEF FlagInv, vars
  <2>7. Next /\ ~DetectRepetition => step # "answered" /\ step' # "answered" /\ flagged' = flagged
    BY DEF Next, StripThought, StripFences, DecodeWhole, TryBrace, Scan, ScanEscaped,
           ScanBackslash, ScanQuote, ScanOther, ScanBrace, Scanning, Advance, Unbalanced,
           DecodeMatch, Retry, GiveUp, Return, GoTo
  <2>8. QED
    BY <2>4, <2>5, <2>6, <2>7
<1>3. TextInv /\ FlagInv => LoopFlagged
  <2> SUFFICES ASSUME TextInv, FlagInv, NEW p \in 1..Len(Raw), step # "answered",
                      Len(Raw) >= (Threshold - 1) * (p * ((Window + p - 1) \div p)) + Window,
                      Repeats(Raw, p, (Threshold - 1) * (p * ((Window + p - 1) \div p)) + Window)
               PROVE  flagged
    BY DEF LoopFlagged
  <2> DEFINE q == (Window + p - 1) \div p
  <2>1. p \in Nat \ {0} /\ Window \in Nat \ {0}
    BY Bounds
  <2>2. q \in Nat /\ p * q >= Window
    BY <2>1, StrideCovers
  <2>3. Raw \in Seq(Letters)
    BY DEF TextInv, Raw, Letters
  <2> HIDE DEF q
  <2>4. /\ Len(Raw) >= (Threshold - 1) * (p * q) + Window
        /\ Repeats(Raw, p, (Threshold - 1) * (p * q) + Window)
    BY DEF q
  <2>5. Looped(Raw)
    BY <2>1, <2>2, <2>3, <2>4, LoopIsSeen
  <2>6. QED
    BY <2>5 DEF FlagInv
<1>4. QED
  BY <1>1, <1>2, <1>3, TextCorrect, PTL DEF Spec

----------------------------------------------------------------------------
(* The lexer *)

Modes == {"plain", "string", "escaped"}

\* f is what a lexer that begins in plain text at p takes the positions up to n for.
LexesTo(f, t, p, n) ==
  /\ f \in [p..n -> Modes]
  /\ f[p] = "plain"
  /\ \A i \in (p + 1)..n : f[i] = ModeAfter(f[i - 1], t[i - 1])

\* A token leads from a mode to a mode.
LEMMA ModesFollow == \A c : \A mode \in Modes : ModeAfter(mode, c) \in Modes
BY DEF ModeAfter, Modes

\* A text can be lexed from any position to any later one.
LEMMA LexesExist ==
  ASSUME NEW t, NEW p \in Nat, NEW n \in Nat, p <= n
  PROVE  \E f : LexesTo(f, t, p, n)
<1> DEFINE T == {k \in p..n : ~\E f : LexesTo(f, t, p, k)}
<1> SUFFICES ASSUME T # {}
             PROVE  FALSE
  OBVIOUS
<1>1. T \in SUBSET Nat
  OBVIOUS
<1>2. Min(T) \in T /\ \A y \in T : Min(T) <= y
  BY <1>1, LeastExists
<1>3. PICK k \in T : \A j \in T : k <= j
  BY <1>2
<1>4. k \in p..n /\ ~\E f : LexesTo(f, t, p, k)
  OBVIOUS
<1>5. CASE k = p
  <2> DEFINE f == [i \in p..p |-> "plain"]
  <2>1. f \in [p..p -> Modes] /\ f[p] = "plain"
    BY DEF Modes
  <2>2. LexesTo(f, t, p, p)
    BY <2>1 DEF LexesTo
  <2>3. QED
    BY <1>4, <1>5, <2>2
<1>6. CASE k # p
  <2>1. k - 1 \in p..n /\ k \in Nat /\ ~(k <= k - 1) /\ k - 1 \in p..(k - 1)
    BY <1>4, <1>6
  <2>2. PICK g : LexesTo(g, t, p, k - 1)
    BY <1>3, <2>1
  <2>3. g[k - 1] \in Modes
    BY <2>1, <2>2 DEF LexesTo
  <2> DEFINE f == [i \in p..k |-> IF i = k THEN ModeAfter(g[k - 1], t[k - 1]) ELSE g[i]]
  <2>4. \A i \in p..k : i # k => i \in p..(k - 1) /\ f[i] = g[i]
    BY <2>1
  <2>5. ModeAfter(g[k - 1], t[k - 1]) \in Modes
    BY <2>3, ModesFollow
  <2>6. f \in [p..k -> Modes]
    BY <2>2, <2>4, <2>5 DEF LexesTo
  <2>7. f[p] = "plain"
    <3>1. p \in p..k
      BY <1>4
    <3>2. QED
      BY <1>6, <2>2, <2>4, <3>1 DEF LexesTo
  <2>8. ASSUME NEW i \in (p + 1)..k
        PROVE  f[i] = ModeAfter(f[i - 1], t[i - 1])
    <3>1. i \in p..k /\ i - 1 \in p..k /\ i - 1 # k
      OBVIOUS
    <3>2. f[i - 1] = g[i - 1]
      BY <2>4, <3>1
    <3>3. CASE i = k
      BY <3>1, <3>2, <3>3
    <3>4. CASE i # k
      <4>1. i \in (p + 1)..(k - 1) /\ f[i] = g[i]
        BY <2>4, <3>1, <3>4
      <4>2. g[i] = ModeAfter(g[i - 1], t[i - 1])
        BY <2>2, <4>1 DEF LexesTo
      <4>3. QED
        BY <3>2, <4>1, <4>2
    <3>5. QED
      BY <3>3, <3>4
  <2> HIDE DEF f
  <2>9. LexesTo(f, t, p, k)
    BY <2>6, <2>7, <2>8 DEF LexesTo
  <2>10. QED
    BY <1>4, <2>9
<1>7. QED
  BY <1>5, <1>6

\* Lexed is what its definition says, at every position.
LEMMA LexedFollows ==
  ASSUME NEW X, NEW t \in Seq(X), NEW p \in 1..Len(t)
  PROVE  /\ Lexed(t, p)[p] = "plain"
         /\ \A i \in p..Len(t) : Lexed(t, p)[i + 1] = ModeAfter(Lexed(t, p)[i], t[i])
<1> DEFINE L == Len(t)
           Modal(f) == [i \in p..(L + 1) |->
                          IF i = p THEN "plain" ELSE ModeAfter(f[i - 1], t[i - 1])]
           mode == CHOOSE f : f = Modal(f)
<1>1. L \in Nat /\ p \in Nat /\ p <= L /\ L + 1 \in Nat /\ p <= L + 1
  OBVIOUS
<1>2. PICK f : LexesTo(f, t, p, L + 1)
  BY <1>1, LexesExist
<1>3. f = Modal(f)
  <2>1. DOMAIN f = p..(L + 1) /\ f = [i \in p..(L + 1) |-> f[i]]
    BY <1>2 DEF LexesTo
  <2>2. \A i \in p..(L + 1) : i # p => i \in (p + 1)..(L + 1)
    BY <1>1
  <2>3. \A i \in p..(L + 1) :
          f[i] = IF i = p THEN "plain" ELSE ModeAfter(f[i - 1], t[i - 1])
    BY <1>2, <2>2 DEF LexesTo
  <2>4. QED
    BY <2>1, <2>3
<1>4. mode = Modal(mode)
  BY <1>3
<1>5. Lexed(t, p) = mode
  BY DEF Lexed
<1> HIDE DEF mode
<1>6. \A i \in p..(L + 1) :
        mode[i] = IF i = p THEN "plain" ELSE ModeAfter(mode[i - 1], t[i - 1])
  BY <1>4
<1>7. mode[p] = "plain"
  BY <1>1, <1>6
<1>8. ASSUME NEW i \in p..L
      PROVE  mode[i + 1] = ModeAfter(mode[i], t[i])
  <2>1. i + 1 \in p..(L + 1) /\ i + 1 # p /\ i + 1 - 1 = i
    BY <1>1
  <2>2. QED
    BY <1>6, <2>1
<1>9. QED
  BY <1>5, <1>7, <1>8

----------------------------------------------------------------------------
(* Counting braces *)

\* The tokens of a kind that stand in plain text from p to e.
Count(t, p, token, e) == Cardinality({i \in Plain(t, p, token) : i <= e})

\* No token stands before the beginning, and one more position counts for one token if it
\* has it in plain text.
LEMMA CountFollows ==
  ASSUME NEW X, NEW t \in Seq(X), NEW p \in 1..Len(t), NEW token
  PROVE  /\ Count(t, p, token, p - 1) = 0
         /\ \A e \in (p - 1)..Len(t) : Count(t, p, token, e) \in Nat
         /\ \A e \in p..Len(t) :
              Count(t, p, token, e) =
                Count(t, p, token, e - 1) + (IF e \in Plain(t, p, token) THEN 1 ELSE 0)
<1> DEFINE S == Plain(t, p, token)
           Upto(e) == {i \in S : i <= e}
<1>1. Len(t) \in Nat /\ p \in Nat
  OBVIOUS
<1>2. S \in SUBSET (p..Len(t))
  BY DEF Plain
<1>3. \A i \in S : i \in Int /\ p <= i /\ i <= Len(t)
  BY <1>1, <1>2
<1> HIDE DEF S
<1>4. Upto(p - 1) = {}
  BY <1>1, <1>3
<1>5. ASSUME NEW e \in (p - 1)..Len(t)
      PROVE  IsFiniteSet(Upto(e)) /\ Cardinality(Upto(e)) \in Nat
  <2>1. IsFiniteSet(1..Len(t))
    BY <1>1, FS_Interval
  <2>2. Upto(e) \in SUBSET (1..Len(t))
    BY <1>1, <1>3
  <2>3. QED
    BY <2>1, <2>2, FS_Subset, FS_CardinalityType
<1>6. ASSUME NEW e \in p..Len(t)
      PROVE  Cardinality(Upto(e)) = Cardinality(Upto(e - 1)) + (IF e \in S THEN 1 ELSE 0)
  <2>1. e - 1 \in (p - 1)..Len(t) /\ e \in Int
    BY <1>1
  <2>2. IsFiniteSet(Upto(e - 1)) /\ Cardinality(Upto(e - 1)) \in Nat
    BY <1>5, <2>1
  <2>3. \A i \in S : i <= e <=> i <= e - 1 \/ i = e
    BY <1>3, <2>1
  <2>4. CASE e \in S
    <3>1. Upto(e) = Upto(e - 1) \cup {e}
      BY <2>3, <2>4
    <3>2. e \notin Upto(e - 1)
      BY <2>1
    <3>3. QED
      <4>1. Cardinality(Upto(e)) = Cardinality(Upto(e - 1)) + 1
        BY <2>2, <3>1, <3>2, FS_AddElement
      <4>2. QED
        BY <2>4, <4>1
  <2>5. CASE e \notin S
    <3>1. Upto(e) = Upto(e - 1)
      BY <2>3, <2>5
    <3>2. QED
      <4>1. Cardinality(Upto(e)) = Cardinality(Upto(e - 1))
        BY <3>1
      <4>2. \A c \in Nat : c = c + 0
        OBVIOUS
      <4>3. Cardinality(Upto(e)) = Cardinality(Upto(e - 1)) + 0
        BY <2>2, <4>1, <4>2
      <4>4. QED
        BY <2>5, <4>3
  <2>6. QED
    BY <2>4, <2>5
<1>7. \A e : Count(t, p, token, e) = Cardinality(Upto(e))
  BY DEF Count, S
<1>8. Count(t, p, token, p - 1) = 0
  BY <1>4, <1>7, FS_EmptySet
<1>9. \A e \in (p - 1)..Len(t) : Count(t, p, token, e) \in Nat
  BY <1>5, <1>7
<1>10. \A e \in p..Len(t) :
        Count(t, p, token, e) = Count(t, p, token, e - 1) + (IF e \in S THEN 1 ELSE 0)
  BY <1>6, <1>7
<1>11. QED
  BY <1>8, <1>9, <1>10 DEF S

----------------------------------------------------------------------------
(* The scan for the first object *)

\* The braces.  The names keep the solvers, which do not read such a string, to what the
\* steps say of them.
Left  == "{"
Right == "}"

\* They are two, and the definitions of the scan in their words.
LEMMA TwoBraces == Left # Right
BY Zenon DEF Left, Right

LEMMA NextBraceIs == NextBrace = NextPosition(text, Left, from)
BY Zenon DEF NextBrace, Left

LEMMA BalancesAre ==
  ASSUME NEW t, NEW p, NEW e
  PROVE  e \in Balances(t, p) <=>
           /\ e \in Plain(t, p, Right)
           /\ Count(t, p, Left, e) = Count(t, p, Right, e)
BY Zenon DEF Balances, Count, Left, Right

LEMMA ObjectsAre ==
  ASSUME NEW t, NEW p
  PROVE  p \in Objects(t) <=> p \in DOMAIN t /\ t[p] = Left /\ Balances(t, p) # {}
BY Zenon DEF Objects, Left

LEMMA BraceIs == Brace <=> ~inString /\ (text[at] = Left \/ text[at] = Right)
BY Zenon DEF Brace, Left, Right

LEMMA BraceStep ==
  ASSUME ScanBrace
  PROVE  /\ ~escape /\ Brace
         /\ text[at] = Left => depth' = depth + 1
         /\ text[at] # Left => depth' = depth - 1
         /\ depth' = 0 => step' = "found"
         /\ depth' # 0 => step' = step
         /\ UNCHANGED <<inString, escape>>
<1>1. /\ depth' = IF text[at] = Left THEN depth + 1 ELSE depth - 1
      /\ IF depth' = 0 THEN GoTo("found") ELSE UNCHANGED step
      /\ ~escape /\ Brace /\ UNCHANGED <<inString, escape>>
  BY Zenon DEF ScanBrace, Left
<1>2. QED
  BY <1>1 DEF GoTo

Mode == IF escape THEN "escaped" ELSE IF inString THEN "string" ELSE "plain"

NoObjectUpTo(n) == \A p \in 1..n : p \notin Objects(text)

\* More braces opened than closed, in plain text from the brace that is tried to e.
OpenAt(e) == Count(text, from, Left, e) > Count(text, from, Right, e)

\* In the scan: the flags say what a lexer that began at the brace would take the position
\* for, the depth is the number of braces that are open, and one was open all the way.
Tracking ==
  /\ from \in DOMAIN text /\ text[from] = Left
  /\ NoObjectUpTo(from - 1)
  /\ at \in from..(Len(text) + 1)
  /\ escape => inString
  /\ Lexed(text, from)[at] = Mode
  /\ depth = Count(text, from, Left, at - 1) - Count(text, from, Right, at - 1)
  /\ at = from => ~inString
  /\ \A e \in from..(at - 1) : OpenAt(e)

\* What the scan knows: where it seeks there is no object behind it, and what it found is
\* the first one.
ScanInv ==
  /\ inString \in BOOLEAN /\ escape \in BOOLEAN
  /\ step \in {"answered", "thoughts", "whole"} => from = 0
  /\ step = "seeking" => from \in 0..Len(text) /\ NoObjectUpTo(from)
  /\ step = "scanning" => Tracking
  /\ step = "found" => IsLeast(from, Objects(text)) /\ IsLeast(at - 1, Balances(text, from))

\* The flags follow the lexer by one token.
LEMMA ModeFollows ==
  ASSUME inString \in BOOLEAN, escape \in BOOLEAN, escape => inString, Scan
  PROVE  /\ Mode' = ModeAfter(Mode, text[at])
         /\ inString' \in BOOLEAN /\ escape' \in BOOLEAN /\ (escape' => inString')
<1>1. CASE ScanEscaped
  BY <1>1 DEF ScanEscaped, Mode, ModeAfter
<1>2. CASE ScanBackslash
  BY <1>2 DEF ScanBackslash, Mode, ModeAfter
<1>3. CASE ScanQuote
  <2>1. ~escape /\ escape' = escape /\ text[at] = "quote" /\ inString' = ~inString
    BY <1>3 DEF ScanQuote
  <2>2. CASE inString = TRUE
    <3>1. Mode = "string" /\ inString' = FALSE /\ Mode' = "plain"
      BY <2>1, <2>2, Zenon DEF Mode
    <3>2. escape' = FALSE
      BY <2>1, Zenon
    <3>3. ModeAfter("string", "quote") = "plain"
      BY DEF ModeAfter
    <3>4. QED
      BY <2>1, <3>1, <3>2, <3>3, Zenon
  <2>3. CASE inString = FALSE
    <3>1. Mode = "plain" /\ inString' = TRUE /\ Mode' = "string"
      BY <2>1, <2>3, Zenon DEF Mode
    <3>2. escape' = FALSE
      BY <2>1, Zenon
    <3>3. ModeAfter("plain", "quote") = "string"
      BY DEF ModeAfter
    <3>4. QED
      BY <2>1, <3>1, <3>2, <3>3, Zenon
  <2>4. QED
    BY <2>2, <2>3
<1>4. CASE ScanOther
  BY <1>4 DEF ScanOther, Mode, ModeAfter
<1>5. CASE ScanBrace
  <2>1. /\ ~escape /\ ~inString /\ UNCHANGED <<inString, escape>>
        /\ text[at] = Left \/ text[at] = Right
    BY <1>5, BraceStep, BraceIs
  <2>2. text[at] # "quote"
    BY <2>1, Zenon DEF Left, Right
  <2>3. QED
    BY <2>1, <2>2 DEF Mode, ModeAfter
<1>6. QED
  BY <1>1, <1>2, <1>3, <1>4, <1>5 DEF Scan

\* The depth follows the braces by one token.
LEMMA DepthFollows ==
  ASSUME TextInv, Tracking, inString \in BOOLEAN, escape \in BOOLEAN, at <= Len(text), Scan
  PROVE  /\ depth' = Count(text, from, Left, at) - Count(text, from, Right, at)
         /\ \/ step' = step /\ OpenAt(at)
            \/ /\ step' = "found" /\ at \in Plain(text, from, Right)
               /\ Count(text, from, Left, at) = Count(text, from, Right, at)
<1> DEFINE O(e) == Count(text, from, Left, e)
           C(e) == Count(text, from, Right, e)
<1>1. text \in Seq(Letters) /\ from \in 1..Len(text) /\ at \in from..Len(text)
  BY DEF Tracking, TextInv
<1>2. Len(text) \in Int /\ from \in Int /\ at \in Int /\ 1 <= from /\ from <= at /\ at <= Len(text)
  BY <1>1
<1>3. O(from - 1) = 0 /\ C(from - 1) = 0
  BY <1>1, CountFollows
<1>4. O(at - 1) \in Nat /\ C(at - 1) \in Nat /\ O(at) \in Nat /\ C(at) \in Nat
  <2>1. at - 1 \in (from - 1)..Len(text) /\ at \in (from - 1)..Len(text)
    BY <1>2
  <2>2. QED
    BY <1>1, <2>1, CountFollows
<1>5. /\ O(at) = O(at - 1) + (IF at \in Plain(text, from, Left) THEN 1 ELSE 0)
      /\ C(at) = C(at - 1) + (IF at \in Plain(text, from, Right) THEN 1 ELSE 0)
  BY <1>1, CountFollows
<1>6. /\ at \in Plain(text, from, Left) <=> text[at] = Left /\ Mode = "plain"
      /\ at \in Plain(text, from, Right) <=> text[at] = Right /\ Mode = "plain"
  BY <1>1 DEF Plain, Tracking
<1>7. depth \in Int /\ depth = O(at - 1) - C(at - 1)
  BY <1>4 DEF Tracking
<1>8. depth \in Nat /\ (depth = 0 => text[at] = Left /\ Mode = "plain")
  <2>1. CASE at = from
    <3>1. depth = 0
      BY <1>3, <1>7, <2>1
    <3>2. text[at] = Left /\ Mode = "plain"
      BY <2>1 DEF Tracking, Mode
    <3>3. QED
      BY <3>1, <3>2
  <2>2. CASE at # from
    <3>1. at - 1 \in from..(at - 1)
      BY <1>2, <2>2
    <3>2. OpenAt(at - 1)
      BY <2>2, <3>1 DEF Tracking
    <3>3. O(at - 1) > C(at - 1)
      BY <3>2 DEF OpenAt
    <3>4. depth > 0
      BY <1>4, <1>7, <3>3
    <3>5. QED
      BY <1>7, <3>4
  <2>3. QED
    BY <2>1, <2>2
<1> DEFINE o == O(at - 1)
           c == C(at - 1)
           o1 == O(at)
           c1 == C(at)
<1>9. /\ o \in Nat /\ c \in Nat /\ o1 \in Nat /\ c1 \in Nat /\ depth = o - c
      /\ o1 = o + (IF at \in Plain(text, from, Left) THEN 1 ELSE 0)
      /\ c1 = c + (IF at \in Plain(text, from, Right) THEN 1 ELSE 0)
  BY <1>4, <1>5, <1>7
<1>10. SUFFICES /\ depth' = o1 - c1
                /\ \/ step' = step /\ o1 > c1
                   \/ step' = "found" /\ at \in Plain(text, from, Right) /\ o1 = c1
  BY DEF OpenAt
<1> HIDE DEF o, c, o1, c1
<1>11. CASE ScanBrace
  <2>1. Mode = "plain" /\ (text[at] = Left \/ text[at] = Right)
    BY <1>11, BraceStep, BraceIs DEF Mode
  <2>2. /\ text[at] = Left => depth' = depth + 1
        /\ text[at] # Left => depth' = depth - 1
        /\ depth' = 0 => step' = "found"
        /\ depth' # 0 => step' = step
    BY <1>11, BraceStep
  <2>3. CASE text[at] = Left
    <3>1. at \in Plain(text, from, Left) /\ at \notin Plain(text, from, Right)
      BY <1>6, <2>1, <2>3, TwoBraces
    <3>2. depth' = depth + 1
      BY <2>2, <2>3
    <3>3. depth' \in Int /\ depth' > 0 /\ depth' = o1 - c1 /\ o1 > c1
      BY <1>8, <1>9, <3>1, <3>2
    <3>4. QED
      BY <2>2, <3>3
  <2>4. CASE text[at] = Right
    <3>1. at \notin Plain(text, from, Left) /\ at \in Plain(text, from, Right)
      BY <1>6, <2>1, <2>4, TwoBraces
    <3>2. depth > 0
      BY <1>8, <2>4, TwoBraces
    <3>3. depth' = depth - 1
      BY <2>2, <2>4, TwoBraces
    <3>4. depth' \in Int /\ depth' >= 0 /\ depth' = o1 - c1
      BY <1>8, <1>9, <3>1, <3>2, <3>3
    <3>5. CASE depth' = 0
      BY <1>9, <2>2, <3>1, <3>4, <3>5
    <3>6. CASE depth' # 0
      BY <1>9, <2>2, <3>4, <3>6
    <3>7. QED
      BY <3>5, <3>6
  <2>5. QED
    BY <2>1, <2>3, <2>4
<1>12. CASE ~ScanBrace
  <2>1. step' = step /\ depth' = depth
    BY <1>12 DEF Scan, ScanEscaped, ScanBackslash, ScanQuote, ScanOther
  <2>2. Mode # "plain" \/ (text[at] # Left /\ text[at] # Right)
    <3>1. "quote" # Left /\ "quote" # Right
      BY Zenon DEF Left, Right
    <3>2. \/ escape \/ inString \/ text[at] = "quote"
          \/ text[at] # Left /\ text[at] # Right
      BY <1>12, BraceIs DEF Scan, ScanEscaped, ScanBackslash, ScanQuote, ScanOther
    <3>3. QED
      BY <3>1, <3>2 DEF Mode
  <2>3. at \notin Plain(text, from, Left) /\ at \notin Plain(text, from, Right)
    BY <1>6, <2>2
  <2>4. depth > 0
    BY <1>8, <2>2
  <2>5. depth = o1 - c1 /\ o1 > c1
    BY <1>8, <1>9, <2>3, <2>4
  <2>6. QED
    BY <2>1, <2>5
<1>13. QED
  BY <1>11, <1>12

\* A step of the scan keeps track, or it has found the first object and its end.
LEMMA ScanKeepsTrack ==
  ASSUME TextInv, ScanInv, step = "scanning", at <= Len(text), Scan
  PROVE  ScanInv'
<1>1. /\ text \in Seq(Letters) /\ Len(text) \in Nat /\ from \in 1..Len(text)
      /\ at \in from..Len(text) /\ Tracking
  <2>1. Tracking
    BY DEF ScanInv
  <2>2. text \in Seq(Letters) /\ from \in DOMAIN text /\ at \in from..(Len(text) + 1)
    BY <2>1 DEF Tracking, TextInv
  <2>3. QED
    BY <2>1, <2>2
<1>2. text' = text /\ from' = from /\ at' = at + 1
  BY DEF Scan, ScanEscaped, ScanBackslash, ScanQuote, ScanOther, ScanBrace, Advance
<1>3. /\ Mode' = ModeAfter(Mode, text[at])
      /\ inString' \in BOOLEAN /\ escape' \in BOOLEAN /\ (escape' => inString')
  BY <1>1, ModeFollows DEF ScanInv, Tracking
<1>4. /\ depth' = Count(text, from, Left, at) - Count(text, from, Right, at)
      /\ \/ step' = step /\ OpenAt(at)
         \/ /\ step' = "found" /\ at \in Plain(text, from, Right)
            /\ Count(text, from, Left, at) = Count(text, from, Right, at)
  BY <1>1, DepthFollows DEF ScanInv
<1>5. CASE step' = step /\ OpenAt(at)
  <2>1. \A e \in from..at : OpenAt(e)
    <3>1. \A e \in from..at : e \in from..(at - 1) \/ e = at
      BY <1>1
    <3>2. QED
      BY <1>1, <1>5, <3>1 DEF Tracking
  <2>2. (\A e \in from..(at - 1) : OpenAt(e))'
    <3>1. \A e : OpenAt(e)' <=> OpenAt(e)
      BY <1>2 DEF OpenAt
    <3>2. at' - 1 = at
      BY <1>1, <1>2
    <3>3. QED
      BY <1>2, <2>1, <3>1, <3>2
  <2>3. (Lexed(text, from)[at] = Mode)'
    <3>1. Lexed(text, from)[at + 1] = ModeAfter(Lexed(text, from)[at], text[at])
      BY <1>1, LexedFollows
    <3>2. Lexed(text, from)[at + 1] = ModeAfter(Mode, text[at])
      BY <1>1, <3>1 DEF Tracking
    <3>3. QED
      BY <1>2, <1>3, <3>2
  <2>4. (depth = Count(text, from, Left, at - 1) - Count(text, from, Right, at - 1))'
    <3>1. at' - 1 = at
      BY <1>1, <1>2
    <3>2. QED
      BY <1>2, <1>4, <3>1
  <2>5. (/\ from \in DOMAIN text /\ text[from] = Left
         /\ NoObjectUpTo(from - 1)
         /\ at \in from..(Len(text) + 1)
         /\ at # from)'
    BY <1>1, <1>2 DEF Tracking, NoObjectUpTo
  <2>6. Tracking'
    BY <1>3, <2>2, <2>3, <2>4, <2>5 DEF Tracking
  <2>7. step' = "scanning"
    BY <1>5
  <2>8. QED
    BY <1>3, <2>6, <2>7 DEF ScanInv
<1>6. CASE /\ step' = "found" /\ at \in Plain(text, from, Right)
           /\ Count(text, from, Left, at) = Count(text, from, Right, at)
  <2>1. at \in Balances(text, from)
    BY <1>6, BalancesAre
  <2>2. ASSUME NEW e \in Balances(text, from)
        PROVE  at <= e
    <3>1. e \in from..Len(text) /\ Count(text, from, Left, e) = Count(text, from, Right, e)
      BY <2>2, BalancesAre DEF Plain
    <3>2. ~OpenAt(e)
      <4>1. e \in (from - 1)..Len(text)
        BY <1>1, <3>1
      <4>2. Count(text, from, Left, e) \in Nat /\ Count(text, from, Right, e) \in Nat
        BY <1>1, <4>1, CountFollows
      <4>3. QED
        BY <3>1, <4>2 DEF OpenAt
    <3>3. e \notin from..(at - 1)
      BY <1>1, <3>2 DEF Tracking
    <3>4. QED
      BY <1>1, <3>1, <3>3
  <2>3. from \in Objects(text)
    BY <1>1, <2>1, ObjectsAre DEF Tracking
  <2>4. ASSUME NEW q \in Objects(text)
        PROVE  from <= q
    <3>1. q \in 1..Len(text) /\ q \notin 1..(from - 1)
      BY <1>1, <2>4, ObjectsAre DEF Tracking, NoObjectUpTo
    <3>2. QED
      BY <1>1, <3>1
  <2>5. IsLeast(from, Objects(text)) /\ IsLeast(at, Balances(text, from))
    BY <2>1, <2>2, <2>3, <2>4 DEF IsLeast
  <2>6. at' - 1 = at
    BY <1>1, <1>2
  <2>7. (IsLeast(from, Objects(text)) /\ IsLeast(at - 1, Balances(text, from)))'
    BY <1>2, <2>5, <2>6
  <2>8. QED
    BY <1>3, <1>6, <2>7 DEF ScanInv
<1>7. QED
  BY <1>4, <1>5, <1>6


\* A brace that is tried is the next one, and the lexer begins at it in plain text.
LEMMA TryBraceTracks ==
  ASSUME TextInv, ScanInv, TryBrace
  PROVE  ScanInv'
<1>1. text \in Seq(Letters) /\ Len(text) \in Nat /\ from \in 0..Len(text) /\ NoObjectUpTo(from)
  BY DEF TextInv, ScanInv, TryBrace
<1> DEFINE q == NextBrace
<1>2. /\ q \in (from + 1)..Len(text) /\ text[q] = Left
      /\ \A p \in (from + 1)..Len(text) : text[p] = Left => q <= p
  <2>1. q <= Len(text)
    BY DEF TryBrace
  <2>2. QED
    BY <1>1, <2>1, NextPositionIs, NextBraceIs
<1>3. /\ text' = text /\ from' = q /\ at' = q /\ depth' = 0 /\ step' = "scanning"
      /\ inString' = FALSE /\ escape' = FALSE
  BY DEF TryBrace, GoTo
<1> HIDE DEF q
<1>4. q \in 1..Len(text) /\ q \in Int
  BY <1>1, <1>2
<1>5. NoObjectUpTo(q - 1)
  <2> SUFFICES ASSUME NEW p \in 1..(q - 1), p \in Objects(text)
               PROVE  FALSE
    BY DEF NoObjectUpTo
  <2>1. p \in 1..from \/ p \in (from + 1)..Len(text)
    BY <1>1, <1>4
  <2>2. text[p] = Left
    BY ObjectsAre
  <2>3. ~(q <= p)
    BY <1>4
  <2>4. QED
    BY <1>1, <1>2, <2>1, <2>2, <2>3 DEF NoObjectUpTo
<1>6. Lexed(text, q)[q] = "plain"
  BY <1>1, <1>4, LexedFollows
<1>7. Count(text, q, Left, q - 1) = 0 /\ Count(text, q, Right, q - 1) = 0
  BY <1>1, <1>4, CountFollows
<1>8. (/\ from \in DOMAIN text /\ text[from] = Left
       /\ NoObjectUpTo(from - 1)
       /\ at \in from..(Len(text) + 1))'
  <2>1. q \in DOMAIN text /\ q \in q..(Len(text) + 1)
    BY <1>1, <1>4
  <2>2. NoObjectUpTo(from - 1)'
    BY <1>3, <1>5 DEF NoObjectUpTo
  <2>3. QED
    BY <1>2, <1>3, <2>1, <2>2
<1>9. (Lexed(text, from)[at] = Mode)' /\ (escape => inString)' /\ ~inString'
  <2>1. Mode' = "plain"
    BY <1>3 DEF Mode
  <2>2. QED
    BY <1>3, <1>6, <2>1
<1>10. (depth = Count(text, from, Left, at - 1) - Count(text, from, Right, at - 1))'
  BY <1>3, <1>7
<1>11. (\A e \in from..(at - 1) : OpenAt(e))'
  BY <1>3, <1>4
<1>12. Tracking'
  BY <1>8, <1>9, <1>10, <1>11 DEF Tracking
<1>13. QED
  BY <1>3, <1>12 DEF ScanInv

\* A brace that is still open at the end of the text opens no object.
LEMMA UnbalancedIsNone ==
  ASSUME TextInv, ScanInv, Unbalanced
  PROVE  ScanInv'
<1>1. Tracking /\ at > Len(text)
  BY DEF ScanInv, Unbalanced
<1>2. /\ text \in Seq(Letters) /\ Len(text) \in Nat /\ from \in 1..Len(text)
      /\ at = Len(text) + 1
  <2>1. text \in Seq(Letters) /\ from \in DOMAIN text /\ at \in from..(Len(text) + 1)
    BY <1>1 DEF Tracking, TextInv
  <2>2. QED
    BY <1>1, <2>1
<1>3. Balances(text, from) = {}
  <2> SUFFICES ASSUME NEW e \in Balances(text, from)
               PROVE  FALSE
    OBVIOUS
  <2>1. e \in from..Len(text) /\ Count(text, from, Left, e) = Count(text, from, Right, e)
    BY BalancesAre DEF Plain
  <2>2. e \in from..(at - 1) /\ e \in (from - 1)..Len(text)
    BY <1>2, <2>1
  <2>3. Count(text, from, Left, e) \in Nat /\ Count(text, from, Right, e) \in Nat
    BY <1>2, <2>2, CountFollows
  <2>4. OpenAt(e)
    BY <1>1, <2>2 DEF Tracking
  <2>5. QED
    BY <2>1, <2>3, <2>4 DEF OpenAt
<1>4. NoObjectUpTo(from)
  <2>1. \A p \in 1..from : p \in 1..(from - 1) \/ p = from
    BY <1>2
  <2>2. from \notin Objects(text)
    BY <1>3, ObjectsAre
  <2>3. QED
    BY <1>1, <2>1, <2>2 DEF Tracking, NoObjectUpTo
<1>5. /\ text' = text /\ from' = from /\ step' = "seeking"
      /\ inString' = inString /\ escape' = escape
  BY DEF Unbalanced, GoTo, scanner
<1>6. (from \in 0..Len(text) /\ NoObjectUpTo(from))'
  BY <1>2, <1>4, <1>5 DEF NoObjectUpTo
<1>7. QED
  BY <1>5, <1>6 DEF ScanInv

\* ScanInv holds in every reachable state.
LEMMA ScanCorrect == Spec => []ScanInv
<1>1. Init => ScanInv
  BY DEF Init, ScanInv
<1>2. TextInv /\ ScanInv /\ [Next]_vars => ScanInv'
  <2> SUFFICES ASSUME TextInv, ScanInv, [Next]_vars
               PROVE  ScanInv'
    OBVIOUS
  <2>0. inString \in BOOLEAN /\ escape \in BOOLEAN
    BY DEF ScanInv
  <2>1. CASE DetectRepetition \/ StripThought \/ StripFences
    <3>1. /\ step' \in {"thoughts", "whole"} /\ from' = from /\ from = 0
          /\ inString' = inString /\ escape' = escape
      BY <2>1 DEF DetectRepetition, StripThought, StripFences, GoTo, scanner, ScanInv
    <3>2. QED
      BY <2>0, <3>1 DEF ScanInv
  <2>2. CASE DecodeWhole \/ Retry
    <3>1. /\ step' \in {"done", "seeking"} /\ from' = 0
          /\ inString' = inString /\ escape' = escape
      BY <2>2 DEF DecodeWhole, Retry, Return, GoTo, scanner, ScanInv
    <3>2. text' \in Seq(Letters)
      BY <2>2, StrippedIsText DEF DecodeWhole, Retry, TextInv
    <3>3. Len(text') \in Nat
      BY <3>2
    <3>4. (from \in 0..Len(text) /\ NoObjectUpTo(from))'
      BY <3>1, <3>3 DEF NoObjectUpTo
    <3>5. QED
      BY <2>0, <3>1, <3>4 DEF ScanInv
  <2>3. CASE TryBrace
    BY <2>3, TryBraceTracks
  <2>4. CASE Scan
    <3>1. step = "scanning" /\ at <= Len(text)
      BY <2>4 DEF Scan, ScanEscaped, ScanBackslash, ScanQuote, ScanOther, ScanBrace, Scanning
    <3>2. QED
      BY <2>4, <3>1, ScanKeepsTrack
  <2>5. CASE Unbalanced
    BY <2>5, UnbalancedIsNone
  <2>6. CASE DecodeMatch \/ GiveUp
    <3>1. step' = "done" /\ inString' = inString /\ escape' = escape
      BY <2>6 DEF DecodeMatch, GiveUp, Return, GoTo, scanner
    <3>2. QED
      BY <2>0, <3>1 DEF ScanInv
  <2>7. CASE UNCHANGED vars
    <3>1. UNCHANGED <<text, step, from, at, depth, inString, escape>>
      BY <2>7 DEF vars, scanner
    <3>2. QED
      BY <3>1 DEF ScanInv, Tracking, NoObjectUpTo, OpenAt, Mode
  <2>8. QED
    BY <2>1, <2>2, <2>3, <2>4, <2>5, <2>6, <2>7 DEF Next
<1>3. QED
  BY <1>1, <1>2, TextCorrect, PTL DEF Spec

\* FirstObjectRead for every text: the scan takes the first object that a JSON lexer finds
\* in it, and all of that object, and gives up only where there is none.
THEOREM FirstObjectIsRead == Spec => []FirstObjectRead
<1>1. TextInv /\ ScanInv => FirstObjectRead
  <2> SUFFICES ASSUME TextInv, ScanInv
               PROVE  FirstObjectRead
    OBVIOUS
  <2>1. step = "found" => IsLeast(from, Objects(text)) /\ IsLeast(at - 1, Balances(text, from))
    BY DEF ScanInv
  <2>2. ASSUME step = "seeking", NextBrace > Len(text)
        PROVE  Objects(text) = {}
    <3> SUFFICES ASSUME NEW p \in Objects(text)
                 PROVE  FALSE
      OBVIOUS
    <3>1. text \in Seq(Letters) /\ from \in 0..Len(text) /\ NoObjectUpTo(from)
      BY <2>2 DEF TextInv, ScanInv
    <3>2. p \in 1..Len(text) /\ text[p] = Left
      BY <3>1, ObjectsAre
    <3>3. p \in (from + 1)..Len(text)
      BY <3>1, <3>2 DEF NoObjectUpTo
    <3>4. /\ NextBrace \in (from + 1)..(Len(text) + 1)
          /\ NextBrace <= p
      BY <3>1, <3>2, <3>3, NextPositionIs, NextBraceIs
    <3>5. QED
      BY <2>2, <3>1, <3>3, <3>4
  <2>3. QED
    BY <2>1, <2>2 DEF FirstObjectRead
<1>2. QED
  BY <1>1, TextCorrect, ScanCorrect, PTL


----------------------------------------------------------------------------
(* A review is an object, wherever it stands *)

\* A lexer that begins at p gets to e in a mode, with d braces open, and at least one was
\* open all the way.
Reaches(t, p, e, mode, d) ==
  /\ e \in p..(Len(t) + 1)
  /\ Lexed(t, p)[e] = mode
  /\ Count(t, p, Left, e - 1) = Count(t, p, Right, e - 1) + d
  /\ \A x \in p..(e - 1) : Count(t, p, Left, x) > Count(t, p, Right, x)

\* What one token more does to that.
LEMMA ReachesOneMore ==
  ASSUME NEW X, NEW t \in Seq(X), NEW p \in 1..Len(t), NEW e, NEW mode, NEW d \in Nat \ {0},
         Reaches(t, p, e, mode, d), e <= Len(t)
  PROVE  /\ mode # "plain" \/ (t[e] # Left /\ t[e] # Right)
              => Reaches(t, p, e + 1, ModeAfter(mode, t[e]), d)
         /\ mode = "plain" /\ t[e] = Left => Reaches(t, p, e + 1, "plain", d + 1)
         /\ mode = "plain" /\ t[e] = Right /\ d > 1 => Reaches(t, p, e + 1, "plain", d - 1)
<1> DEFINE O(x) == Count(t, p, Left, x)
           C(x) == Count(t, p, Right, x)
<1>1. e \in p..Len(t) /\ Len(t) \in Int /\ p \in Int /\ e \in Int /\ 1 <= p
  BY DEF Reaches
<1>2. Lexed(t, p)[e + 1] = ModeAfter(mode, t[e])
  BY <1>1, LexedFollows DEF Reaches
<1>3. O(e - 1) \in Nat /\ C(e - 1) \in Nat /\ O(e) \in Nat /\ C(e) \in Nat
  <2>1. e - 1 \in (p - 1)..Len(t) /\ e \in (p - 1)..Len(t)
    BY <1>1
  <2>2. QED
    BY <2>1, CountFollows
<1>4. /\ O(e) = O(e - 1) + (IF e \in Plain(t, p, Left) THEN 1 ELSE 0)
      /\ C(e) = C(e - 1) + (IF e \in Plain(t, p, Right) THEN 1 ELSE 0)
  BY <1>1, CountFollows
<1>5. /\ e \in Plain(t, p, Left) <=> t[e] = Left /\ mode = "plain"
      /\ e \in Plain(t, p, Right) <=> t[e] = Right /\ mode = "plain"
  BY <1>1 DEF Plain, Reaches
<1>6. O(e - 1) = C(e - 1) + d /\ \A x \in p..(e - 1) : O(x) > C(x)
  BY DEF Reaches
<1>7. ASSUME NEW m, NEW n \in Nat \ {0}, O(e) = C(e) + n, ModeAfter(mode, t[e]) = m
      PROVE  Reaches(t, p, e + 1, m, n)
  <2> HIDE DEF O, C
  <2>1. e + 1 \in p..(Len(t) + 1) /\ e + 1 - 1 = e
    BY <1>1
  <2>2. O(e) > C(e)
    BY <1>3, <1>7
  <2>3. \A x \in p..e : x \in p..(e - 1) \/ x = e
    BY <1>1
  <2>4. \A x \in p..e : O(x) > C(x)
    BY <1>6, <2>2, <2>3
  <2>5. QED
    BY <1>2, <1>7, <2>1, <2>4 DEF Reaches, O, C
<1> DEFINE o == O(e - 1)
           c == C(e - 1)
           o1 == O(e)
           c1 == C(e)
<1>8. /\ o \in Nat /\ c \in Nat /\ o1 \in Nat /\ c1 \in Nat /\ o = c + d
      /\ o1 = o + (IF e \in Plain(t, p, Left) THEN 1 ELSE 0)
      /\ c1 = c + (IF e \in Plain(t, p, Right) THEN 1 ELSE 0)
  BY <1>3, <1>4, <1>6
<1>9. ASSUME NEW m, NEW n \in Nat \ {0}, o1 = c1 + n, ModeAfter(mode, t[e]) = m
      PROVE  Reaches(t, p, e + 1, m, n)
  BY <1>7, <1>9
<1> HIDE DEF o, c, o1, c1
<1>10. ASSUME mode # "plain" \/ (t[e] # Left /\ t[e] # Right)
       PROVE  Reaches(t, p, e + 1, ModeAfter(mode, t[e]), d)
  <2>1. e \notin Plain(t, p, Left) /\ e \notin Plain(t, p, Right)
    BY <1>5, <1>10
  <2>2. o1 = c1 + d
    BY <1>8, <2>1
  <2>3. QED
    BY <1>9, <2>2
<1>11. ASSUME mode = "plain", t[e] = Left \/ t[e] = Right
       PROVE  ModeAfter(mode, t[e]) = "plain"
  <2>1. t[e] # "quote"
    BY <1>11, Zenon DEF Left, Right
  <2>2. QED
    BY <1>11, <2>1 DEF ModeAfter
<1>12. ASSUME mode = "plain", t[e] = Left
       PROVE  Reaches(t, p, e + 1, "plain", d + 1)
  <2>1. e \in Plain(t, p, Left) /\ e \notin Plain(t, p, Right)
    BY <1>5, <1>12, TwoBraces
  <2>2. o1 = c1 + (d + 1) /\ d + 1 \in Nat \ {0}
    BY <1>8, <2>1
  <2>3. QED
    BY <1>9, <1>11, <1>12, <2>2
<1>13. ASSUME mode = "plain", t[e] = Right, d > 1
       PROVE  Reaches(t, p, e + 1, "plain", d - 1)
  <2>1. e \notin Plain(t, p, Left) /\ e \in Plain(t, p, Right)
    BY <1>5, <1>13, TwoBraces
  <2>2. o1 = c1 + (d - 1) /\ d - 1 \in Nat \ {0}
    BY <1>8, <1>13, <2>1
  <2>3. QED
    BY <1>9, <1>11, <1>13, <2>2
<1>14. QED
  BY <1>10, <1>12, <1>13

\* A token that is neither a quote nor a brace leaves plain text as it was.
LEMMA ReachesWord ==
  ASSUME NEW X, NEW t \in Seq(X), NEW p \in 1..Len(t), NEW e, NEW d \in Nat \ {0},
         Reaches(t, p, e, "plain", d), e <= Len(t), t[e] \notin {Left, Right, "quote"}
  PROVE  Reaches(t, p, e + 1, "plain", d)
<1>1. ModeAfter("plain", t[e]) = "plain"
  BY DEF ModeAfter
<1>2. QED
  BY <1>1, ReachesOneMore

----------------------------------------------------------------------------
(* Texts within texts *)

\* s stands in t from e on.
Stands(t, s, e) ==
  /\ e + Len(s) - 1 <= Len(t)
  /\ \A i \in 1..Len(s) : t[e + i - 1] = s[i]

\* The parts of what stands there stand where they should.
LEMMA PartsStand ==
  ASSUME NEW X, NEW a \in Seq(X), NEW b \in Seq(X), NEW Y, NEW t \in Seq(Y), NEW e \in Nat,
         Stands(t, a \o b, e)
  PROVE  Stands(t, a, e) /\ Stands(t, b, e + Len(a))
<1>1. Len(a) \in Nat /\ Len(b) \in Nat /\ Len(t) \in Nat
  OBVIOUS
<1>2. /\ Len(a \o b) = Len(a) + Len(b)
      /\ \A i \in 1..Len(a) : i \in 1..Len(a \o b) /\ (a \o b)[i] = a[i]
      /\ \A i \in 1..Len(b) : Len(a) + i \in 1..Len(a \o b) /\ (a \o b)[Len(a) + i] = b[i]
  OBVIOUS
<1> DEFINE ab == a \o b
<1>3. /\ e + Len(ab) - 1 <= Len(t)
      /\ \A i \in 1..Len(ab) : t[e + i - 1] = ab[i]
  BY DEF Stands
<1>4. /\ Len(ab) = Len(a) + Len(b)
      /\ \A i \in 1..Len(a) : i \in 1..Len(ab) /\ ab[i] = a[i]
      /\ \A i \in 1..Len(b) : Len(a) + i \in 1..Len(ab) /\ ab[Len(a) + i] = b[i]
  BY <1>2
<1> HIDE DEF ab
<1>5. Stands(t, a, e)
  <2>1. e + Len(a) - 1 <= Len(t)
    BY <1>1, <1>3, <1>4
  <2>2. \A i \in 1..Len(a) : t[e + i - 1] = a[i]
    BY <1>3, <1>4
  <2>3. QED
    BY <2>1, <2>2 DEF Stands
<1>6. Stands(t, b, e + Len(a))
  <2>1. e + Len(a) + Len(b) - 1 <= Len(t)
    BY <1>1, <1>3, <1>4
  <2>2. ASSUME NEW i \in 1..Len(b)
        PROVE  t[e + Len(a) + i - 1] = b[i]
    <3>1. t[e + (Len(a) + i) - 1] = b[i]
      BY <1>3, <1>4
    <3>2. e + (Len(a) + i) - 1 = e + Len(a) + i - 1
      BY <1>1
    <3>3. QED
      BY <3>1, <3>2
  <2>3. QED
    BY <2>1, <2>2 DEF Stands
<1>7. QED
  BY <1>5, <1>6

\* The first n of a list of texts put together: f[i] is the text of the first i.
JoinsTo(f, X, lists, n) ==
  /\ f \in [1..n -> Seq(X)]
  /\ \A i \in 1..n : f[i] = IF i = 1 THEN lists[i] ELSE f[i - 1] \o lists[i]

LEMMA JoinsUpTo ==
  ASSUME NEW X, NEW lists \in Seq(Seq(X)), NEW n \in 1..Len(lists)
  PROVE  \E f : JoinsTo(f, X, lists, n)
<1> DEFINE T == {k \in 1..Len(lists) : ~\E f : JoinsTo(f, X, lists, k)}
<1>1. Len(lists) \in Nat /\ \A k \in 1..Len(lists) : lists[k] \in Seq(X)
  OBVIOUS
<1> SUFFICES ASSUME T # {}
             PROVE  FALSE
  OBVIOUS
<1>2. T \in SUBSET Nat
  BY <1>1
<1>3. Min(T) \in T /\ \A y \in T : Min(T) <= y
  BY <1>2, LeastExists
<1>4. PICK k \in T : \A j \in T : k <= j
  BY <1>3
<1>5. k \in 1..Len(lists) /\ ~\E f : JoinsTo(f, X, lists, k)
  OBVIOUS
<1>6. CASE k = 1
  <2> DEFINE f == [i \in 1..1 |-> lists[1]]
  <2>1. f \in [1..1 -> Seq(X)] /\ f[1] = lists[1]
    BY <1>1, <1>5, <1>6
  <2>2. JoinsTo(f, X, lists, 1)
    BY <2>1 DEF JoinsTo
  <2>3. QED
    BY <1>5, <1>6, <2>2
<1>7. CASE k # 1
  <2>1. k - 1 \in 1..Len(lists) /\ k \in Nat /\ ~(k <= k - 1)
    BY <1>1, <1>5, <1>7
  <2>2. k - 1 \notin T
    BY <1>4, <2>1
  <2>3. PICK g : JoinsTo(g, X, lists, k - 1)
    BY <2>1, <2>2
  <2>4. g[k - 1] \in Seq(X) /\ lists[k] \in Seq(X)
    BY <1>1, <1>5, <2>1, <2>3 DEF JoinsTo
  <2> DEFINE f == [i \in 1..k |-> IF i = k THEN g[k - 1] \o lists[k] ELSE g[i]]
  <2>5. \A i \in 1..k : i # k => i \in 1..(k - 1) /\ f[i] = g[i]
    BY <2>1
  <2>6. g[k - 1] \o lists[k] \in Seq(X)
    BY <2>4
  <2>7. f \in [1..k -> Seq(X)]
    BY <2>3, <2>5, <2>6 DEF JoinsTo
  <2>8. ASSUME NEW i \in 1..k
        PROVE  f[i] = IF i = 1 THEN lists[i] ELSE f[i - 1] \o lists[i]
    <3>1. CASE i = k
      <4>1. f[i - 1] = g[k - 1]
        BY <2>1, <3>1
      <4>2. QED
        BY <1>7, <3>1, <4>1
    <3>2. CASE i # k
      <4>1. i \in 1..(k - 1) /\ f[i] = g[i]
        BY <2>5, <3>2
      <4>2. i # 1 => f[i - 1] = g[i - 1]
        BY <2>1, <4>1
      <4>3. g[i] = IF i = 1 THEN lists[i] ELSE g[i - 1] \o lists[i]
        BY <2>3, <4>1 DEF JoinsTo
      <4>4. QED
        BY <4>1, <4>2, <4>3
    <3>3. QED
      BY <3>1, <3>2
  <2> HIDE DEF f
  <2>9. JoinsTo(f, X, lists, k)
    BY <2>7, <2>8 DEF JoinsTo
  <2>10. QED
    BY <1>5, <2>9
<1>8. QED
  BY <1>6, <1>7

\* FlattenSeq is the last of them.
LEMMA FlattenJoins ==
  ASSUME NEW X, NEW lists \in Seq(Seq(X)), Len(lists) # 0
  PROVE  \E f : JoinsTo(f, X, lists, Len(lists)) /\ FlattenSeq(lists) = f[Len(lists)]
<1> DEFINE N == Len(lists)
           Joined(f) == [i \in 1..N |-> IF i = 1 THEN lists[i] ELSE f[i - 1] \o lists[i]]
           flatten == CHOOSE f : f = Joined(f)
<1>1. N \in Nat /\ N \in 1..N
  OBVIOUS
<1>2. PICK f : JoinsTo(f, X, lists, N)
  BY <1>1, JoinsUpTo
<1>3. f = Joined(f)
  BY <1>2 DEF JoinsTo
<1>4. flatten = Joined(flatten)
  BY <1>3
<1>5. FlattenSeq(lists) = flatten[N]
  BY <1>1 DEF FlattenSeq
<1> HIDE DEF flatten
<1>6. \A i \in 1..N : flatten[i] = IF i = 1 THEN lists[i] ELSE flatten[i - 1] \o lists[i]
  BY <1>4
<1>7. DOMAIN flatten = 1..N
  BY <1>4
<1>8. \A i \in 1..N : flatten[i] \in Seq(X)
  <2> DEFINE T == {i \in 1..N : flatten[i] \notin Seq(X)}
  <2> SUFFICES ASSUME T # {}
               PROVE  FALSE
    OBVIOUS
  <2>1. T \in SUBSET Nat
    BY <1>1
  <2>2. Min(T) \in T /\ \A y \in T : Min(T) <= y
    BY <2>1, LeastExists
  <2>3. PICK k \in T : \A j \in T : k <= j
    BY <2>2
  <2>4. k \in 1..N /\ lists[k] \in Seq(X)
    BY <2>3
  <2>5. CASE k = 1
    BY <1>6, <2>3, <2>4, <2>5
  <2>6. CASE k # 1
    <3>1. k - 1 \in 1..N /\ ~(k <= k - 1)
      BY <2>4, <2>6
    <3>2. flatten[k - 1] \in Seq(X)
      BY <2>3, <3>1
    <3>3. flatten[k] = flatten[k - 1] \o lists[k]
      BY <1>6, <2>4, <2>6
    <3>4. flatten[k - 1] \o lists[k] \in Seq(X)
      BY <2>4, <3>2
    <3>5. QED
      BY <3>3, <3>4
  <2>7. QED
    BY <2>5, <2>6
<1>9. flatten \in [1..N -> Seq(X)]
  BY <1>4, <1>7, <1>8
<1>10. JoinsTo(flatten, X, lists, N)
  BY <1>6, <1>9 DEF JoinsTo
<1>11. QED
  BY <1>5, <1>10


----------------------------------------------------------------------------
(* The text of a review *)

\* What is put together is a text.
LEMMA FlattenIsText ==
  ASSUME NEW X, NEW lists \in Seq(Seq(X))
  PROVE  FlattenSeq(lists) \in Seq(X)
<1>1. CASE Len(lists) = 0
  <2>1. FlattenSeq(lists) = lists
    BY <1>1 DEF FlattenSeq
  <2>2. lists = << >>
    BY <1>1
  <2>3. QED
    BY <2>1, <2>2
<1>2. CASE Len(lists) # 0
  <2>1. PICK f : JoinsTo(f, X, lists, Len(lists)) /\ FlattenSeq(lists) = f[Len(lists)]
    BY <1>2, FlattenJoins
  <2>2. Len(lists) \in 1..Len(lists)
    BY <1>2
  <2>3. QED
    BY <2>1, <2>2 DEF JoinsTo
<1>3. QED
  BY <1>1, <1>2

\* The tokens a review is made of, besides those of its messages.
LEMMA ReviewTokens ==
  /\ {Left, Right, "quote", "[", "]", "pass", "warn", "block"} \cup Severities \subseteq Tokens
  /\ {"[", "]", "pass", "warn", "block"} \cap ({Left, Right, "quote"} \cup Severities) = {}
  /\ Severities \cap {Left, Right, "quote"} = {}
<1>1. {Left, Right} \subseteq Tokens
  BY Zenon DEF Left, Right, Tokens
<1>2. {"quote", "[", "]", "pass", "warn", "block", "error", "warning", "info"} \subseteq Tokens
  BY Zenon DEF Tokens
<1>3. Severities = {"error", "warning", "info"}
  BY DEF Severities
<1>4. \A c \in {"[", "]", "pass", "warn", "block", "error", "warning", "info"} :
        c # Left /\ c # Right
  BY Zenon DEF Left, Right
<1>5. QED
  BY <1>1, <1>2, <1>3, <1>4

\* In a message that is escaped, no quote ends the string.
LEMMA MessageReads ==
  ASSUME NEW X, NEW t \in Seq(X), NEW p \in 1..Len(t), NEW e \in Nat, NEW d \in Nat \ {0},
         NEW m \in Seq(Tokens), Escaped(m), Stands(t, m, e), Reaches(t, p, e, "string", d)
  PROVE  Reaches(t, p, e + Len(m), "string", d)
<1>1. Len(m) \in Nat /\ DOMAIN m = 1..Len(m) /\ Len(t) \in Nat
  OBVIOUS
<1>2. PICK escapes \in SUBSET DOMAIN m :
        /\ escapes = {q \in DOMAIN m : m[q] = "backslash" /\ q - 1 \notin escapes}
        /\ Len(m) \notin escapes
        /\ \A q \in DOMAIN m : m[q] = "quote" => q - 1 \in escapes
  BY DEF Escaped
<1> DEFINE After(k) == IF k \in escapes THEN "escaped" ELSE "string"
           T == {k \in 0..Len(m) : ~Reaches(t, p, e + k, After(k), d)}
<1>3. T = {}
  <2> SUFFICES ASSUME T # {}
               PROVE  FALSE
    OBVIOUS
  <2>1. T \in SUBSET Nat
    BY <1>1
  <2>2. Min(T) \in T /\ \A y \in T : Min(T) <= y
    BY <2>1, LeastExists
  <2>3. PICK k \in T : \A y \in T : k <= y
    BY <2>2
  <2>4. k \in 0..Len(m) /\ ~Reaches(t, p, e + k, After(k), d)
    BY <2>3
  <2>5. CASE k = 0
    <3>1. k \notin escapes /\ e + k = e
      BY <1>1, <1>2, <2>5
    <3>2. QED
      BY <2>4, <3>1
  <2>6. CASE k # 0
    <3>1. k - 1 \in 0..Len(m) /\ ~(k <= k - 1) /\ k \in DOMAIN m
      BY <1>1, <2>4, <2>6
    <3>2. Reaches(t, p, e + (k - 1), After(k - 1), d)
      BY <2>3, <3>1
    <3>3. t[e + (k - 1)] = m[k] /\ e + (k - 1) <= Len(t) /\ e + (k - 1) + 1 = e + k
      <4>1. t[e + k - 1] = m[k] /\ e + k - 1 = e + (k - 1)
        BY <1>1, <3>1 DEF Stands
      <4>2. e + Len(m) - 1 <= Len(t)
        BY DEF Stands
      <4>3. QED
        BY <1>1, <2>4, <4>1, <4>2
    <3>4. After(k - 1) # "plain"
      OBVIOUS
    <3>5. Reaches(t, p, e + k, ModeAfter(After(k - 1), m[k]), d)
      BY <3>2, <3>3, <3>4, ReachesOneMore
    <3>6. ModeAfter(After(k - 1), m[k]) = After(k)
      <4>1. k \in escapes <=> m[k] = "backslash" /\ k - 1 \notin escapes
        BY <1>2, <3>1
      <4>2. m[k] = "quote" => k - 1 \in escapes
        BY <1>2, <3>1
      <4>3. QED
        BY <4>1, <4>2 DEF ModeAfter
    <3>7. QED
      BY <2>4, <3>5, <3>6
  <2>7. QED
    BY <2>5, <2>6
<1>4. Reaches(t, p, e + Len(m), After(Len(m)), d)
  BY <1>1, <1>3
<1>5. QED
  BY <1>2, <1>4

ReviewIssues == [severity : Severities, message : Seq(Tokens)]

\* An issue is text, and its braces balance.
LEMMA IssueIsText ==
  ASSUME NEW issue \in ReviewIssues
  PROVE  /\ IssueText(issue) = <<Left, issue.severity, "quote">> \o issue.message \o <<"quote", Right>>
         /\ IssueText(issue) \in Seq(Tokens)
<1>1. IssueText(issue) = <<Left, issue.severity, "quote">> \o issue.message \o <<"quote", Right>>
  BY Zenon DEF IssueText, Left, Right
<1>2. issue.severity \in Tokens /\ Left \in Tokens /\ Right \in Tokens /\ "quote" \in Tokens
  BY ReviewTokens DEF ReviewIssues
<1>3. <<Left, issue.severity, "quote">> \in Seq(Tokens) /\ <<"quote", Right>> \in Seq(Tokens)
  BY <1>2
<1>4. issue.message \in Seq(Tokens)
  BY DEF ReviewIssues
<1>5. QED
  BY <1>1, <1>3, <1>4

LEMMA IssueReads ==
  ASSUME NEW X, NEW t \in Seq(X), NEW p \in 1..Len(t), NEW e \in Nat,
         NEW issue \in ReviewIssues, Escaped(issue.message),
         Stands(t, IssueText(issue), e), Reaches(t, p, e, "plain", 1)
  PROVE  Reaches(t, p, e + Len(IssueText(issue)), "plain", 1)
<1> DEFINE m == issue.message
           sev == issue.severity
           a == <<Left, sev, "quote">>
           b == <<"quote", Right>>
<1>1. m \in Seq(Tokens) /\ a \in Seq(Tokens) /\ b \in Seq(Tokens) /\ a \o m \in Seq(Tokens)
  <2>1. sev \in Tokens /\ Left \in Tokens /\ Right \in Tokens /\ "quote" \in Tokens
    BY ReviewTokens DEF ReviewIssues
  <2>2. m \in Seq(Tokens)
    BY DEF ReviewIssues
  <2>3. QED
    BY <2>1, <2>2
<1>2. IssueText(issue) = (a \o m) \o b
  BY IssueIsText
<1>3. Len(a) = 3 /\ Len(b) = 2 /\ Len(m) \in Nat /\ Len(a \o m) = 3 + Len(m)
  BY <1>1
<1>4. Stands(t, a \o m, e) /\ Stands(t, b, e + Len(a \o m))
  BY <1>1, <1>2, PartsStand
<1>5. Stands(t, a, e) /\ Stands(t, m, e + Len(a))
  BY <1>1, <1>4, PartsStand
<1>6. t[e] = Left /\ t[e + 1] = sev /\ t[e + 2] = "quote" /\ e + 2 <= Len(t)
  <2>1. \A i \in 1..3 : t[e + i - 1] = a[i]
    BY <1>3, <1>5 DEF Stands
  <2>2. t[e + 1 - 1] = a[1] /\ t[e + 2 - 1] = a[2] /\ t[e + 3 - 1] = a[3]
    BY <2>1
  <2>3. e + 1 - 1 = e /\ e + 2 - 1 = e + 1 /\ e + 3 - 1 = e + 2
    OBVIOUS
  <2>4. e + 3 - 1 <= Len(t)
    BY <1>3, <1>5 DEF Stands
  <2>5. QED
    BY <2>2, <2>3, <2>4
<1> DEFINE l == Len(m)
           n == e + (3 + l)
<1>7. l \in Nat /\ Stands(t, b, n) /\ Len(t) \in Nat /\ n \in Nat
  BY <1>3, <1>4
<1> HIDE DEF l
<1>8. n = e + 3 + l
  BY <1>7
<1> HIDE DEF n
<1>9. t[n] = "quote" /\ t[n + 1] = Right /\ n + 1 <= Len(t)
  <2>1. Len(b) = 2 /\ b[1] = "quote" /\ b[2] = Right
    OBVIOUS
  <2> HIDE DEF b
  <2>2. n + 2 - 1 <= Len(t) /\ \A i \in 1..2 : t[n + i - 1] = b[i]
    BY <1>7, <2>1 DEF Stands
  <2>3. t[n + 1 - 1] = b[1] /\ t[n + 2 - 1] = b[2]
    BY <2>2
  <2>4. n + 1 - 1 = n /\ n + 2 - 1 = n + 1
    BY <1>7
  <2>5. QED
    BY <2>1, <2>2, <2>3, <2>4
<1>10. e <= Len(t) /\ e + 1 <= Len(t) /\ n <= Len(t) /\ e + 1 + 1 = e + 2 /\ e + 2 + 1 = e + 3
  BY <1>6, <1>7, <1>9
<1>11. Reaches(t, p, e + 1, "plain", 2)
  <2>1. Reaches(t, p, e + 1, "plain", 1 + 1)
    BY <1>6, <1>10, ReachesOneMore
  <2>2. QED
    BY <2>1
<1>12. Reaches(t, p, e + 2, "plain", 2)
  <2>1. t[e + 1] \notin {Left, Right, "quote"}
    <3>1. sev \in Severities /\ t[e + 1] = sev
      BY <1>6 DEF ReviewIssues
    <3> HIDE DEF sev
    <3>2. QED
      BY <3>1, ReviewTokens
  <2>2. \A x : /\ Reaches(t, p, x, "plain", 2) /\ x <= Len(t)
               /\ t[x] \notin {Left, Right, "quote"}
               => Reaches(t, p, x + 1, "plain", 2)
    BY ReachesWord
  <2>3. Reaches(t, p, e + 1 + 1, "plain", 2)
    BY <1>10, <1>11, <2>1, <2>2
  <2>4. QED
    BY <1>10, <2>3
<1>13. "quote" # Left /\ "quote" # Right
  BY Zenon DEF Left, Right
<1>14. Reaches(t, p, e + 3, "string", 2)
  <2>1. Reaches(t, p, e + 2 + 1, ModeAfter("plain", t[e + 2]), 2)
    BY <1>6, <1>12, <1>13, ReachesOneMore
  <2>2. ModeAfter("plain", t[e + 2]) = "string"
    BY <1>6 DEF ModeAfter
  <2>3. QED
    BY <1>10, <2>1, <2>2
<1>15. Reaches(t, p, n, "string", 2)
  <2>1. Stands(t, m, e + 3) /\ e + 3 \in Nat /\ Escaped(m) /\ m \in Seq(Tokens)
    BY <1>1, <1>3, <1>5
  <2> HIDE DEF m
  <2>2. Reaches(t, p, e + 3 + Len(m), "string", 2)
    BY <1>14, <2>1, MessageReads
  <2>3. QED
    BY <1>8, <2>2 DEF l
<1>16. Reaches(t, p, n + 1, "plain", 2)
  <2>1. Reaches(t, p, n + 1, ModeAfter("string", t[n]), 2)
    BY <1>9, <1>10, <1>13, <1>15, ReachesOneMore
  <2>2. ModeAfter("string", t[n]) = "plain"
    BY <1>9 DEF ModeAfter
  <2>3. QED
    BY <2>1, <2>2
<1>17. Reaches(t, p, n + 1 + 1, "plain", 1)
  <2>1. Reaches(t, p, n + 1 + 1, "plain", 2 - 1)
    BY <1>9, <1>16, ReachesOneMore
  <2>2. QED
    BY <2>1
<1>18. n + 1 + 1 = e + Len(IssueText(issue))
  <2>1. Len(IssueText(issue)) = Len(a \o m) + Len(b)
    BY <1>1, <1>2
  <2>2. Len(a \o m) = 3 + l /\ Len(b) = 2
    BY <1>3 DEF l
  <2> HIDE DEF a, b, m
  <2>3. QED
    BY <1>7, <1>8, <2>1, <2>2
<1>19. QED
  BY <1>17, <1>18


\* The texts of a list of issues.
IssueTexts(issues) == [i \in DOMAIN issues |-> IssueText(issues[i])]

LEMMA IssueTextsAre ==
  ASSUME NEW issues \in Seq(ReviewIssues)
  PROVE  /\ IssueTexts(issues) \in Seq(Seq(Tokens)) /\ Len(IssueTexts(issues)) = Len(issues)
         /\ \A i \in 1..Len(issues) : /\ issues[i] \in ReviewIssues
                                      /\ IssueTexts(issues)[i] = IssueText(issues[i])
<1>1. Len(issues) \in Nat /\ DOMAIN issues = 1..Len(issues)
  OBVIOUS
<1>2. \A i \in 1..Len(issues) : issues[i] \in ReviewIssues
  OBVIOUS
<1>3. \A i \in 1..Len(issues) : IssueText(issues[i]) \in Seq(Tokens)
  BY <1>2, IssueIsText
<1>4. QED
  BY <1>1, <1>2, <1>3 DEF IssueTexts

LEMMA IssuesRead ==
  ASSUME NEW X, NEW t \in Seq(X), NEW p \in 1..Len(t), NEW e \in Nat,
         NEW issues \in Seq(ReviewIssues), \A i \in DOMAIN issues : Escaped(issues[i].message),
         Stands(t, FlattenSeq(IssueTexts(issues)), e), Reaches(t, p, e, "plain", 1)
  PROVE  Reaches(t, p, e + Len(FlattenSeq(IssueTexts(issues))), "plain", 1)
<1> DEFINE lists == IssueTexts(issues)
           N == Len(lists)
<1>1. /\ lists \in Seq(Seq(Tokens)) /\ N \in Nat
      /\ \A i \in 1..N : /\ lists[i] \in Seq(Tokens) /\ lists[i] = IssueText(issues[i])
                         /\ issues[i] \in ReviewIssues /\ Escaped(issues[i].message)
  BY IssueTextsAre
<1> HIDE DEF lists
<1>2. CASE N = 0
  <2>1. FlattenSeq(lists) = lists /\ e + N = e
    BY <1>2 DEF FlattenSeq
  <2>2. QED
    BY <2>1 DEF lists
<1>3. CASE N # 0
  <2>1. PICK f : JoinsTo(f, Tokens, lists, N) /\ FlattenSeq(lists) = f[N]
    BY <1>1, <1>3, FlattenJoins
  <2>2. /\ \A k \in 1..N : f[k] \in Seq(Tokens) /\ Len(f[k]) \in Nat
        /\ \A k \in 1..N : k # 1 => f[k] = f[k - 1] \o lists[k]
        /\ f[1] = lists[1]
    <3>1. 1 \in 1..N
      BY <1>1, <1>3
    <3>2. \A k \in 1..N : f[k] \in Seq(Tokens)
      BY <2>1 DEF JoinsTo
    <3>3. \A k \in 1..N : f[k] = IF k = 1 THEN lists[k] ELSE f[k - 1] \o lists[k]
      BY <2>1 DEF JoinsTo
    <3>4. \A k \in 1..N : k # 1 => f[k] = f[k - 1] \o lists[k]
      BY <3>3
    <3>5. f[1] = lists[1]
      BY <3>1, <3>3
    <3>6. \A k \in 1..N : Len(f[k]) \in Nat
      BY <3>2
    <3>7. QED
      BY <3>2, <3>4, <3>5, <3>6
  <2>3. \A k \in 1..N : Stands(t, f[k], e)
    <3> DEFINE T == {j \in 0..(N - 1) : ~Stands(t, f[N - j], e)}
    <3>1. T = {}
      <4> SUFFICES ASSUME T # {}
                   PROVE  FALSE
        OBVIOUS
      <4>1. T \in SUBSET Nat
        BY <1>1
      <4>2. Min(T) \in T /\ \A y \in T : Min(T) <= y
        BY <4>1, LeastExists
      <4>3. PICK j \in T : \A y \in T : j <= y
        BY <4>2
      <4>4. j \in 0..(N - 1) /\ ~Stands(t, f[N - j], e)
        BY <4>3
      <4>5. j # 0
        <5>1. N - 0 = N
          BY <1>1
        <5>2. QED
          BY <2>1, <4>4, <5>1 DEF lists
      <4>6. j - 1 \in 0..(N - 1) /\ ~(j <= j - 1)
        BY <1>1, <4>4, <4>5
      <4>7. Stands(t, f[N - (j - 1)], e)
        BY <4>3, <4>6
      <4> DEFINE k == N - (j - 1)
      <4>8. k \in 1..N /\ k # 1 /\ k - 1 = N - j /\ k - 1 \in 1..N
        BY <1>1, <4>4, <4>5
      <4> HIDE DEF k
      <4>9. f[k] = f[k - 1] \o lists[k] /\ f[k - 1] \in Seq(Tokens) /\ lists[k] \in Seq(Tokens)
        BY <1>1, <2>2, <4>8
      <4>10. Stands(t, f[k - 1], e)
        BY <4>7, <4>9, PartsStand DEF k
      <4>11. QED
        BY <4>4, <4>8, <4>10
    <3>2. ASSUME NEW k \in 1..N
          PROVE  Stands(t, f[k], e)
      <4>1. N - k \in 0..(N - 1) /\ N - (N - k) = k
        BY <1>1
      <4>2. QED
        BY <3>1, <4>1
    <3>3. QED
      BY <3>2
  <2>4. ASSUME NEW i \in 1..N, NEW x \in Nat, Stands(t, lists[i], x), Reaches(t, p, x, "plain", 1)
        PROVE  Reaches(t, p, x + Len(lists[i]), "plain", 1)
    BY <1>1, <2>4, IssueReads
  <2> DEFINE T == {k \in 1..N : ~Reaches(t, p, e + Len(f[k]), "plain", 1)}
  <2>5. T = {}
    <3> SUFFICES ASSUME T # {}
                 PROVE  FALSE
      OBVIOUS
    <3>1. T \in SUBSET Nat
      BY <1>1
    <3>2. Min(T) \in T /\ \A y \in T : Min(T) <= y
      BY <3>1, LeastExists
    <3>3. PICK k \in T : \A y \in T : k <= y
      BY <3>2
    <3>4. k \in 1..N /\ ~Reaches(t, p, e + Len(f[k]), "plain", 1)
      BY <3>3
    <3>5. CASE k = 1
      <4>1. Stands(t, lists[k], e) /\ f[k] = lists[k]
        BY <2>2, <2>3, <3>4, <3>5
      <4>2. QED
        BY <2>4, <3>4, <4>1
    <3>6. CASE k # 1
      <4>1. k - 1 \in 1..N /\ ~(k <= k - 1)
        BY <1>1, <3>4, <3>6
      <4>2. Reaches(t, p, e + Len(f[k - 1]), "plain", 1)
        BY <3>3, <4>1
      <4>3. /\ f[k] = f[k - 1] \o lists[k]
            /\ f[k - 1] \in Seq(Tokens) /\ lists[k] \in Seq(Tokens)
        BY <1>1, <2>2, <3>4, <3>6, <4>1
      <4>4. Stands(t, lists[k], e + Len(f[k - 1]))
        <5>1. Stands(t, f[k - 1] \o lists[k], e)
          BY <2>3, <3>4, <4>3
        <5>2. QED
          BY <4>3, <5>1, PartsStand
      <4>5. e + Len(f[k - 1]) \in Nat
        BY <2>2, <4>1
      <4>6. Reaches(t, p, e + Len(f[k - 1]) + Len(lists[k]), "plain", 1)
        BY <2>4, <3>4, <4>2, <4>4, <4>5
      <4>7. e + Len(f[k - 1]) + Len(lists[k]) = e + Len(f[k])
        <5> DEFINE a == f[k - 1]
                   b == lists[k]
                   ab == f[k]
        <5>1. a \in Seq(Tokens) /\ b \in Seq(Tokens) /\ ab = a \o b
          BY <4>3
        <5> HIDE DEF a, b, ab
        <5>2. Len(ab) = Len(a) + Len(b) /\ Len(a) \in Nat /\ Len(b) \in Nat
          BY <5>1
        <5>3. e + Len(a) + Len(b) = e + Len(ab)
          BY <5>2
        <5>4. QED
          BY <5>3 DEF a, b, ab
      <4>8. QED
        BY <3>4, <4>6, <4>7
    <3>7. QED
      BY <3>5, <3>6
  <2>6. N \in 1..N
    BY <1>1, <1>3
  <2>7. Reaches(t, p, e + Len(f[N]), "plain", 1)
    BY <2>5, <2>6
  <2>8. QED
    BY <2>1, <2>7 DEF lists
<1>4. QED
  BY <1>2, <1>3


VerdictText(review) == IF review.verdict = "" THEN << >> ELSE <<review.verdict>>

LEMMA ReviewTextIs ==
  ASSUME NEW review
  PROVE  ReviewText(review) =
           <<Left>> \o VerdictText(review) \o <<"[">> \o FlattenSeq(IssueTexts(review.issues))
             \o <<"]", Right>>
BY Zenon DEF ReviewText, VerdictText, IssueTexts, Left, Right

\* The reviews a model may mean.
LEMMA ReviewsAre ==
  ASSUME NEW review \in Reviews
  PROVE  /\ review.issues \in Seq(ReviewIssues)
         /\ \A i \in DOMAIN review.issues : Escaped(review.issues[i].message)
         /\ VerdictText(review) = << >> \/ \E v \in {"pass", "warn", "block"} : VerdictText(review) = <<v>>
<1>1. /\ review.verdict \in {"", "pass", "warn", "block"}
      /\ review.issues \in Seq([severity : Severities, message : Seq(Tokens)])
      /\ \A i \in DOMAIN review.issues : Escaped(review.issues[i].message)
  BY AnswerReadingAssumption, Zenon
<1>2. review.verdict = "" \/ review.verdict \in {"pass", "warn", "block"}
  BY <1>1, Zenon
<1>3. VerdictText(review) = << >> \/ \E v \in {"pass", "warn", "block"} : VerdictText(review) = <<v>>
  BY <1>2, Zenon DEF VerdictText
<1>4. QED
  BY <1>1, <1>3 DEF ReviewIssues

LEMMA JoinedText ==
  ASSUME NEW X, NEW s \in Seq(X), NEW t \in Seq(X)
  PROVE  /\ s \o t \in Seq(X)
         /\ Len(s) \in Nat /\ Len(t) \in Nat
         /\ Len(s \o t) = Len(s) + Len(t)
OBVIOUS

LEMMA JoinedParts ==
  ASSUME NEW X, NEW s \in Seq(X), NEW t \in Seq(X)
  PROVE  \A x \in 1..Len(s) : (s \o t)[x] = s[x]
OBVIOUS

\* Where the parts of a review are in a text that holds it: q is behind the verdict, r behind
\* the issues.
LEMMA ReviewStands ==
  ASSUME NEW X, NEW t \in Seq(X), NEW p \in Nat \ {0}, NEW review \in Reviews,
         Stands(t, ReviewText(review), p)
  PROVE  /\ ReviewText(review) \in Seq(Tokens)
         /\ t[p] = Left
         /\ \E q \in {p + 1, p + 2}, r \in Nat :
              /\ q = p + 2 => t[p + 1] \in {"pass", "warn", "block"}
              /\ t[q] = "["
              /\ Stands(t, FlattenSeq(IssueTexts(review.issues)), q + 1)
              /\ r = q + 1 + Len(FlattenSeq(IssueTexts(review.issues)))
              /\ t[r] = "]" /\ t[r + 1] = Right /\ r + 1 <= Len(t) /\ q + 1 <= r
              /\ p + Len(ReviewText(review)) - 1 = r + 1
<1> DEFINE a == <<Left>>
           v == VerdictText(review)
           c == <<"[">>
           fl == FlattenSeq(IssueTexts(review.issues))
           d == <<"]", Right>>
           a1 == a \o v
           a2 == a1 \o c
           a3 == a2 \o fl
<1>1. ReviewText(review) = a3 \o d
  BY ReviewTextIs
<1>2. /\ a \in Seq(Tokens) /\ c \in Seq(Tokens) /\ d \in Seq(Tokens)
      /\ Len(a) = 1 /\ Len(c) = 1 /\ Len(d) = 2
      /\ a[1] = Left /\ c[1] = "[" /\ d[1] = "]" /\ d[2] = Right
  <2>1. Left \in Tokens /\ Right \in Tokens /\ "[" \in Tokens /\ "]" \in Tokens
    BY ReviewTokens
  <2>2. QED
    BY <2>1
<1>3. v \in Seq(Tokens) /\ (Len(v) = 0 \/ (Len(v) = 1 /\ v[1] \in {"pass", "warn", "block"}))
  <2>1. v = << >> \/ \E w \in {"pass", "warn", "block"} : v = <<w>>
    BY ReviewsAre
  <2>2. {"pass", "warn", "block"} \subseteq Tokens
    BY ReviewTokens
  <2> HIDE DEF v
  <2>3. CASE v = << >>
    BY <2>3
  <2>4. CASE \E w \in {"pass", "warn", "block"} : v = <<w>>
    <3>1. PICK w \in {"pass", "warn", "block"} : v = <<w>>
      BY <2>4
    <3>2. w \in Tokens
      BY <2>2
    <3>3. <<w>> \in Seq(Tokens) /\ Len(<<w>>) = 1 /\ <<w>>[1] = w
      BY <3>2
    <3>4. QED
      BY <3>1, <3>3
  <2>5. QED
    BY <2>1, <2>3, <2>4
<1>4. fl \in Seq(Tokens) /\ Len(fl) \in Nat
  <2>1. fl \in Seq(Tokens)
    BY ReviewsAre, IssueTextsAre, FlattenIsText
  <2> HIDE DEF fl
  <2>2. QED
    BY <2>1
<1> HIDE DEF a, v, c, fl, d
<1>5. a1 \in Seq(Tokens) /\ Len(a1) = Len(a) + Len(v)
  BY <1>2, <1>3, JoinedText
<1> HIDE DEF a1
<1>6. a2 \in Seq(Tokens) /\ Len(a2) = Len(a1) + Len(c)
  BY <1>2, <1>5, JoinedText
<1> HIDE DEF a2
<1>7. a3 \in Seq(Tokens) /\ Len(a3) = Len(a2) + Len(fl)
  BY <1>4, <1>6, JoinedText
<1> HIDE DEF a3
<1>8. ReviewText(review) \in Seq(Tokens) /\ Len(ReviewText(review)) = Len(a3) + 2
  <2>1. a3 \o d \in Seq(Tokens) /\ Len(a3 \o d) = Len(a3) + Len(d)
    BY <1>2, <1>7, JoinedText
  <2>2. QED
    BY <1>1, <1>2, <2>1
<1>9. Stands(t, a3, p) /\ Stands(t, d, p + Len(a3))
  BY <1>1, <1>2, <1>7, PartsStand
<1>10. Stands(t, a2, p) /\ Stands(t, fl, p + Len(a2))
  BY <1>4, <1>6, <1>9, PartsStand DEF a3
<1>11. Stands(t, a1, p) /\ Stands(t, c, p + Len(a1))
  BY <1>2, <1>5, <1>10, PartsStand DEF a2
<1>12. Stands(t, a, p) /\ Stands(t, v, p + Len(a))
  BY <1>2, <1>3, <1>11, PartsStand DEF a1
<1>13. ASSUME NEW s, NEW e \in Nat, NEW i \in 1..Len(s), Stands(t, s, e)
       PROVE  t[e + i - 1] = s[i]
  BY <1>13 DEF Stands
<1>14. t[p] = Left
  <2>1. 1 \in 1..Len(a) /\ p + 1 - 1 = p
    BY <1>2
  <2>2. t[p + 1 - 1] = a[1]
    BY <1>12, <1>13, <2>1
  <2>3. QED
    BY <1>2, <2>1, <2>2
<1> DEFINE l == Len(v)
           m == Len(fl)
           q == p + 1 + l
           r == q + 1 + m
<1>15. l \in Nat /\ m \in Nat /\ q \in Nat /\ r \in Nat /\ (l = 0 \/ l = 1)
  BY <1>3, <1>4
<1>16. p + Len(a1) = q /\ p + Len(a2) = q + 1 /\ p + Len(a3) = r
  BY <1>2, <1>5, <1>6, <1>7, <1>15
<1>17. p + Len(ReviewText(review)) - 1 = r + 1
  BY <1>2, <1>5, <1>6, <1>7, <1>8, <1>15, <1>16
<1> HIDE DEF l, m
<1>18. q \in {p + 1, p + 2} /\ q + 1 <= r
  BY <1>15
<1>19. q = p + 2 => t[p + 1] \in {"pass", "warn", "block"}
  <2> SUFFICES ASSUME q = p + 2
               PROVE  t[p + 1] \in {"pass", "warn", "block"}
    OBVIOUS
  <2>1. l = 1
    BY <1>15
  <2>2. 1 \in 1..Len(v) /\ v[1] \in {"pass", "warn", "block"}
    BY <1>3, <2>1 DEF l
  <2>3. p + 1 + 1 - 1 = p + 1 /\ p + 1 \in Nat
    OBVIOUS
  <2>4. Stands(t, v, p + 1)
    BY <1>2, <1>12
  <2>5. t[p + 1 + 1 - 1] = v[1]
    BY <1>13, <2>2, <2>3, <2>4
  <2>6. QED
    BY <2>2, <2>3, <2>5
<1> HIDE DEF q
<1>20. t[q] = "["
  <2>1. 1 \in 1..Len(c) /\ q + 1 - 1 = q
    BY <1>2, <1>15
  <2>2. t[q + 1 - 1] = c[1]
    BY <1>11, <1>13, <1>15, <1>16, <2>1
  <2>3. QED
    BY <1>2, <2>1, <2>2
<1>21. Stands(t, fl, q + 1) /\ r = q + 1 + Len(fl)
  BY <1>10, <1>16 DEF m
<1> HIDE DEF r
<1>22. t[r] = "]" /\ t[r + 1] = Right /\ r + 1 <= Len(t)
  <2>1. Stands(t, d, r)
    BY <1>9, <1>16
  <2>2. 1 \in 1..Len(d) /\ 2 \in 1..Len(d) /\ r + 1 - 1 = r /\ r + 2 - 1 = r + 1
    BY <1>2, <1>15
  <2>3. t[r + 1 - 1] = d[1] /\ t[r + 2 - 1] = d[2]
    BY <1>13, <1>15, <2>1, <2>2
  <2>4. r + 2 - 1 <= Len(t)
    BY <1>2, <2>1 DEF Stands
  <2>5. QED
    BY <1>2, <2>2, <2>3, <2>4
<1>23. QED
  BY <1>8, <1>14, <1>15, <1>17, <1>18, <1>19, <1>20, <1>21, <1>22 DEF fl

\* A whole review is an object wherever it stands, and its last brace is the end of it.
LEMMA ReviewReads ==
  ASSUME NEW X, NEW t \in Seq(X), NEW p \in Nat \ {0}, NEW review \in Reviews,
         Stands(t, ReviewText(review), p)
  PROVE  /\ p \in Objects(t)
         /\ IsLeast(p + Len(ReviewText(review)) - 1, Balances(t, p))
<1> DEFINE fl == FlattenSeq(IssueTexts(review.issues))
<1>1. t[p] = Left
  BY ReviewStands
<1>2. PICK q \in {p + 1, p + 2}, r \in Nat :
        /\ q = p + 2 => t[p + 1] \in {"pass", "warn", "block"}
        /\ t[q] = "["
        /\ Stands(t, fl, q + 1)
        /\ r = q + 1 + Len(fl)
        /\ t[r] = "]" /\ t[r + 1] = Right /\ r + 1 <= Len(t) /\ q + 1 <= r
        /\ p + Len(ReviewText(review)) - 1 = r + 1
  BY ReviewStands
<1>3. /\ p \in 1..Len(t) /\ p + 1 \in p..(Len(t) + 1) /\ Len(t) \in Nat /\ q + 1 \in Nat
      /\ p + 1 <= Len(t) /\ q <= Len(t) /\ r <= Len(t)
  BY <1>2
<1>4. Reaches(t, p, p + 1, "plain", 1)
  <2>1. Count(t, p, Left, p - 1) = 0 /\ Count(t, p, Right, p - 1) = 0
    BY <1>3, CountFollows
  <2>2. p \in p..Len(t)
    BY <1>3
  <2>3. Lexed(t, p)[p] = "plain" /\ Lexed(t, p)[p + 1] = ModeAfter("plain", t[p])
    BY <1>3, <2>2, LexedFollows
  <2>4. ModeAfter("plain", t[p]) = "plain"
    <3>1. t[p] # "quote"
      BY <1>1, Zenon DEF Left
    <3>2. QED
      BY <3>1 DEF ModeAfter
  <2>5. p \in Plain(t, p, Left) /\ p \notin Plain(t, p, Right)
    BY <1>1, <2>2, <2>3, TwoBraces DEF Plain
  <2>6. /\ Count(t, p, Left, p) = Count(t, p, Left, p - 1) + 1
        /\ Count(t, p, Right, p) = Count(t, p, Right, p - 1) + 0
    BY <1>3, <2>2, <2>5, CountFollows
  <2>7. Count(t, p, Left, p) = 1 /\ Count(t, p, Right, p) = 0
    BY <2>1, <2>6
  <2>8. p + 1 - 1 = p /\ \A x \in p..p : x = p
    OBVIOUS
  <2>9. Count(t, p, Left, p) = Count(t, p, Right, p) + 1 /\ Count(t, p, Left, p) > Count(t, p, Right, p)
    BY <2>7
  <2>10. QED
    BY <1>3, <2>3, <2>4, <2>8, <2>9 DEF Reaches
<1>5. ASSUME NEW x, Reaches(t, p, x, "plain", 1), x <= Len(t),
             t[x] \in {"[", "]", "pass", "warn", "block"}
      PROVE  Reaches(t, p, x + 1, "plain", 1)
  <2>1. t[x] \notin {Left, Right, "quote"}
    BY <1>5, ReviewTokens
  <2>2. QED
    BY <1>3, <1>5, <2>1, ReachesWord
<1>6. Reaches(t, p, q, "plain", 1)
  <2>1. CASE q = p + 1
    BY <1>4, <2>1
  <2>2. CASE q = p + 2
    <3>1. Reaches(t, p, p + 1 + 1, "plain", 1)
      BY <1>2, <1>3, <1>4, <1>5, <2>2
    <3>2. p + 1 + 1 = q
      BY <2>2
    <3>3. QED
      BY <3>1, <3>2
  <2>3. QED
    BY <2>1, <2>2
<1>7. Reaches(t, p, q + 1, "plain", 1)
  BY <1>2, <1>3, <1>5, <1>6
<1>8. Reaches(t, p, r, "plain", 1)
  <2>1. Reaches(t, p, q + 1 + Len(fl), "plain", 1)
    BY <1>2, <1>3, <1>7, ReviewsAre, IssuesRead
  <2>2. QED
    BY <1>2, <2>1
<1>9. Reaches(t, p, r + 1, "plain", 1)
  BY <1>2, <1>3, <1>5, <1>8
<1> DEFINE e == r + 1
<1>10. e \in p..Len(t) /\ t[e] = Right
  BY <1>2, <1>3
<1> HIDE DEF e
<1>11. /\ Lexed(t, p)[e] = "plain"
       /\ Count(t, p, Left, e - 1) = Count(t, p, Right, e - 1) + 1
       /\ \A x \in p..(e - 1) : Count(t, p, Left, x) > Count(t, p, Right, x)
  BY <1>9 DEF Reaches, e
<1>12. e \in Plain(t, p, Right) /\ e \notin Plain(t, p, Left)
  BY <1>10, <1>11, TwoBraces DEF Plain
<1>13. Count(t, p, Left, e) = Count(t, p, Right, e)
  <2>1. e - 1 \in (p - 1)..Len(t)
    BY <1>3, <1>10
  <2>2. Count(t, p, Left, e - 1) \in Nat /\ Count(t, p, Right, e - 1) \in Nat
    BY <1>3, <2>1, CountFollows
  <2>3. /\ Count(t, p, Left, e) = Count(t, p, Left, e - 1) + 0
        /\ Count(t, p, Right, e) = Count(t, p, Right, e - 1) + 1
    BY <1>3, <1>10, <1>12, CountFollows
  <2>4. QED
    BY <1>11, <2>2, <2>3
<1>14. e \in Balances(t, p)
  BY <1>12, <1>13, BalancesAre
<1>15. ASSUME NEW x \in Balances(t, p)
       PROVE  e <= x
  <2>1. x \in p..Len(t) /\ Count(t, p, Left, x) = Count(t, p, Right, x)
    BY BalancesAre DEF Plain
  <2>2. Count(t, p, Left, x) \in Nat /\ Count(t, p, Right, x) \in Nat
    <3>1. x \in (p - 1)..Len(t)
      BY <1>3, <2>1
    <3>2. QED
      BY <1>3, <3>1, CountFollows
  <2>3. x \notin p..(e - 1)
    BY <1>11, <2>1, <2>2
  <2>4. QED
    BY <1>3, <1>10, <2>1, <2>3
<1>16. p \in Objects(t)
  <2>1. p \in DOMAIN t
    BY <1>3
  <2>2. QED
    BY <1>1, <1>14, <2>1, ObjectsAre
<1>17. p + Len(ReviewText(review)) - 1 = e
  BY <1>2 DEF e
<1>18. QED
  BY <1>14, <1>15, <1>16, <1>17 DEF IsLeast


----------------------------------------------------------------------------
(* What stripping leaves of the text around a review *)

\* b stands in t behind its first n positions, and no opening brace before it stands
\* outside of a thought: while thoughts are stripped, and when they are.
Held(t, b, n) ==
  /\ Stands(t, b, n + 1)
  /\ \A p \in 1..n : t[p] = Left => Hidden(t, p)
  /\ \A p \in (n + 1)..(n + Len(b)) : ~Hidden(t, p)
Bare(t, b, n) ==
  /\ Stands(t, b, n + 1)
  /\ \A p \in 1..n : t[p] # Left

\* The first thought that is closed.
LEMMA FirstThought ==
  ASSUME NEW X, NEW t \in Seq(X), Closed(t) <= Len(t)
  PROVE  /\ Opened(t) \in 1..Len(t) /\ Closed(t) \in (Opened(t) + 1)..Len(t)
         /\ t[Opened(t)] = "think" /\ t[Closed(t)] = "/think"
         /\ \A p \in 1..(Opened(t) - 1) : t[p] # "think"
         /\ \A p \in Opened(t)..(Closed(t) - 1) : t[p] # "/think"
<1>1. Len(t) \in Nat /\ 0 \in 0..Len(t)
  OBVIOUS
<1>2. Opened(t) \in 1..Len(t) /\ Closed(t) \in 1..Len(t) /\ Opened(t) < Closed(t)
  BY <1>1, TagsAre
<1>3. /\ t[Opened(t)] = "think"
      /\ \A p \in 1..Len(t) : t[p] = "think" => Opened(t) <= p
  <2>1. /\ NextPosition(t, "think", 0) <= Len(t) => t[NextPosition(t, "think", 0)] = "think"
        /\ \A p \in (0 + 1)..Len(t) : t[p] = "think" => NextPosition(t, "think", 0) <= p
    BY <1>1, NextPositionIs
  <2>2. QED
    BY <1>1, <1>2, <2>1 DEF Opened
<1>4. /\ t[Closed(t)] = "/think"
      /\ \A p \in (Opened(t) + 1)..Len(t) : t[p] = "/think" => Closed(t) <= p
  <2>1. Opened(t) \in 0..Len(t)
    BY <1>1, <1>2
  <2>2. /\ Closed(t) <= Len(t) => t[Closed(t)] = "/think"
        /\ \A p \in (Opened(t) + 1)..Len(t) : t[p] = "/think" => Closed(t) <= p
    BY <2>1, NextPositionIs DEF Closed
  <2>3. QED
    BY <2>2
<1> DEFINE o == Opened(t)
           c == Closed(t)
<1> HIDE DEF o, c
<1>5. /\ o \in 1..Len(t) /\ c \in 1..Len(t) /\ o < c /\ t[o] = "think" /\ t[c] = "/think"
      /\ \A p \in 1..Len(t) : t[p] = "think" => o <= p
      /\ \A p \in (o + 1)..Len(t) : t[p] = "/think" => c <= p
  BY <1>2, <1>3, <1>4 DEF o, c
<1>6. c \in (o + 1)..Len(t)
  BY <1>1, <1>5
<1>7. \A p \in 1..(o - 1) : t[p] # "think"
  BY <1>1, <1>5
<1>8. \A p \in o..(c - 1) : t[p] # "/think"
  <2> SUFFICES ASSUME NEW p \in o..(c - 1)
               PROVE  t[p] # "/think"
    OBVIOUS
  <2>1. CASE p = o
    <3>1. "think" # "/think"
      OBVIOUS
    <3>2. QED
      BY <1>5, <2>1, <3>1
  <2>2. CASE p # o
    BY <1>1, <1>5, <2>2
  <2>3. QED
    BY <2>1, <2>2
<1>9. QED
  BY <1>5, <1>6, <1>7, <1>8 DEF o, c

\* Cutting a part out of a text moves what is behind it.
LEMMA WithoutIs ==
  ASSUME NEW X, NEW t \in Seq(X), NEW o \in 1..Len(t), NEW c \in o..Len(t)
  PROVE  LET u == Without(t, o, c)
             w == c - o + 1
         IN  /\ u \in Seq(X)
             /\ Len(u) = Len(t) - w
             /\ \A i \in 1..(o - 1) : u[i] = t[i]
             /\ \A i \in o..Len(u) : u[i] = t[i + w]
<1> DEFINE a == SubSeq(t, 1, o - 1)
           b == SubSeq(t, c + 1, Len(t))
<1>1. Len(t) \in Nat /\ \A i \in 1..Len(t) : t[i] \in X
  OBVIOUS
<1>2. a \in Seq(X) /\ Len(a) = o - 1 /\ \A i \in 1..(o - 1) : a[i] = t[i]
  <2>1. \A i \in 1..(o - 1) : t[i] \in X
    BY <1>1
  <2>2. o - 1 \in Int
    OBVIOUS
  <2>3. a \in Seq(X) /\ Len(a) = o - 1
    BY <1>1, <2>1, <2>2, SubSeqProperties
  <2>4. \A i \in 1..(o - 1) : a[i] = t[i]
    BY <1>1
  <2>5. QED
    BY <2>3, <2>4
<1>3. b \in Seq(X) /\ Len(b) = Len(t) - c /\ \A i \in 1..(Len(t) - c) : b[i] = t[c + i]
  <2>1. \A i \in (c + 1)..Len(t) : t[i] \in X
    BY <1>1
  <2>2. c + 1 \in Int
    OBVIOUS
  <2>3. b \in Seq(X) /\ Len(b) = Len(t) - c
    BY <1>1, <2>1, <2>2, SubSeqProperties
  <2>4. \A i \in 1..(Len(t) - c) : b[i] = t[c + i]
    BY <1>1
  <2>5. QED
    BY <2>3, <2>4
<1> HIDE DEF a, b
<1> DEFINE u == a \o b
           w == c - o + 1
<1>4. u \in Seq(X) /\ Len(u) = Len(a) + Len(b)
  BY <1>2, <1>3, JoinedText
<1>5. /\ \A i \in 1..Len(a) : u[i] = a[i]
      /\ \A i \in 1..Len(b) : u[Len(a) + i] = b[i]
  BY <1>2, <1>3
<1>6. Without(t, o, c) = u
  BY DEF Without, a, b
<1> HIDE DEF u
<1>7. Len(u) = Len(t) - w
  BY <1>1, <1>2, <1>3, <1>4
<1>8. \A i \in 1..(o - 1) : u[i] = t[i]
  BY <1>2, <1>5
<1>9. ASSUME NEW i \in o..Len(u)
      PROVE  u[i] = t[i + w]
  <2>1. i - (o - 1) \in 1..(Len(t) - c)
    BY <1>1, <1>7
  <2>2. u[o - 1 + (i - (o - 1))] = t[c + (i - (o - 1))]
    BY <1>2, <1>3, <1>5, <2>1
  <2>3. o - 1 + (i - (o - 1)) = i /\ c + (i - (o - 1)) = i + w
    BY <1>7, <1>1
  <2>4. QED
    BY <2>2, <2>3
<1>10. QED
  BY <1>4, <1>6, <1>7, <1>8, <1>9


\* Stripping the first thought hides nothing that was not hidden, and uncovers nothing: before
\* it nothing is hidden, and behind it the same as before.
LEMMA StillHidden ==
  ASSUME NEW X, NEW t \in Seq(X), Closed(t) <= Len(t)
  PROVE  LET o == Opened(t)
             c == Closed(t)
             w == c - o + 1
             u == Without(t, o, c)
         IN  /\ \A p \in 1..(o - 1) : ~Hidden(t, p) /\ ~Hidden(u, p)
             /\ \A p \in o..c : Hidden(t, p)
             /\ \A p \in o..Len(u) : Hidden(u, p) <=> Hidden(t, p + w)
<1> DEFINE o == Opened(t)
           c == Closed(t)
           w == c - o + 1
           u == Without(t, o, c)
<1>1. /\ o \in 1..Len(t) /\ c \in (o + 1)..Len(t)
      /\ t[o] = "think" /\ t[c] = "/think"
      /\ \A p \in 1..(o - 1) : t[p] # "think"
      /\ \A p \in o..(c - 1) : t[p] # "/think"
  BY FirstThought
<1> HIDE DEF o, c
<1>2. /\ Len(u) = Len(t) - w
      /\ \A i \in 1..(o - 1) : u[i] = t[i]
      /\ \A i \in o..Len(u) : u[i] = t[i + w]
  <2>1. c \in o..Len(t)
    BY <1>1
  <2>2. QED
    BY <1>1, <2>1, WithoutIs
<1> HIDE DEF u
<1>3. Len(t) \in Nat /\ w \in Nat /\ w >= 1 /\ o + w = c + 1
  BY <1>1
<1>4. ASSUME NEW p \in 1..(o - 1)
      PROVE  ~Hidden(t, p) /\ ~Hidden(u, p)
  <2>1. \A q \in 1..p : q \in 1..(o - 1)
    BY <1>1
  <2>2. \A q \in 1..p : t[q] # "think" /\ u[q] # "think"
    BY <1>1, <1>2, <2>1
  <2>3. QED
    BY <2>2 DEF Hidden
<1>5. ASSUME NEW p \in o..c
      PROVE  Hidden(t, p)
  <2>1. o \in 1..p /\ c \in p..Len(t)
    BY <1>1
  <2>2. QED
    BY <1>1, <2>1 DEF Hidden
<1> HIDE DEF w
<1>6. ASSUME NEW p \in o..Len(u), Hidden(u, p)
      PROVE  Hidden(t, p + w)
  <2>1. PICK q \in 1..p : u[q] = "think" /\ \E r \in p..Len(u) : u[r] = "/think" /\ \A i \in q..(r - 1) : u[i] # "/think"
    BY <1>6 DEF Hidden
  <2>2. PICK r \in p..Len(u) : u[r] = "/think" /\ \A i \in q..(r - 1) : u[i] # "/think"
    BY <2>1
  <2>3. q \in o..Len(u)
    <3>1. CASE q < o
      <4>1. q \in 1..(o - 1)
        BY <1>1, <3>1
      <4>2. QED
        BY <1>1, <1>2, <2>1, <4>1
    <3>2. CASE q >= o
      BY <1>1, <1>2, <1>3, <3>2
    <3>3. QED
      BY <1>1, <3>1, <3>2
  <2>4. r \in o..Len(u)
    BY <1>1, <1>2, <1>3
  <2>5. t[q + w] = "think" /\ t[r + w] = "/think"
    BY <1>2, <2>1, <2>2, <2>3, <2>4
  <2>6. q + w \in 1..(p + w) /\ r + w \in (p + w)..Len(t)
    BY <1>1, <1>2, <1>3, <2>3, <2>4
  <2> DEFINE x == p + w
             y == q + w
             z == r + w
  <2>7. y \in 1..x /\ z \in x..Len(t) /\ t[y] = "think" /\ t[z] = "/think"
    BY <2>5, <2>6
  <2>8. ASSUME NEW i \in y..(z - 1)
        PROVE  t[i] # "/think"
    <3>1. i - w \in q..(r - 1) /\ i - w \in o..Len(u) /\ i - w + w = i
      BY <1>1, <1>2, <1>3, <2>3, <2>4
    <3>2. u[i - w] = t[i - w + w]
      BY <1>2, <3>1
    <3>3. QED
      BY <2>2, <3>1, <3>2
  <2> HIDE DEF x, y, z
  <2>9. Hidden(t, x)
    BY <2>7, <2>8 DEF Hidden
  <2>10. QED
    BY <2>9 DEF x
<1>7. ASSUME NEW p \in o..Len(u), Hidden(t, p + w)
      PROVE  Hidden(u, p)
  <2>1. PICK q \in 1..(p + w) : t[q] = "think" /\ \E r \in (p + w)..Len(t) : t[r] = "/think" /\ \A i \in q..(r - 1) : t[i] # "/think"
    BY <1>7 DEF Hidden
  <2>2. PICK r \in (p + w)..Len(t) : t[r] = "/think" /\ \A i \in q..(r - 1) : t[i] # "/think"
    BY <2>1
  <2>3. q > c
    <3>1. CASE q <= c
      <4>1. c \in q..(r - 1)
        BY <1>1, <1>3, <3>1
      <4>2. QED
        BY <1>1, <2>2, <4>1
    <3>2. QED
      BY <1>1, <1>3, <3>1
  <2>4. q - w \in o..Len(u) /\ r - w \in o..Len(u) /\ q - w + w = q /\ r - w + w = r
    BY <1>1, <1>2, <1>3, <2>3
  <2>5. u[q - w] = "think" /\ u[r - w] = "/think"
    BY <1>2, <2>1, <2>2, <2>4
  <2>6. q - w \in 1..p /\ r - w \in p..Len(u)
    BY <1>1, <1>2, <1>3, <2>4
  <2>7. ASSUME NEW i \in (q - w)..(r - w - 1)
        PROVE  u[i] # "/think"
    <3>1. i + w \in q..(r - 1) /\ i \in o..Len(u)
      BY <1>1, <1>2, <1>3, <2>4
    <3>2. QED
      BY <1>2, <2>2, <3>1
  <2>8. QED
    BY <2>5, <2>6, <2>7 DEF Hidden
<1>8. QED
  BY <1>4, <1>5, <1>6, <1>7 DEF o, c, u, w

\* Stripping a thought leaves a review where it is or moves it to the front.
LEMMA StripHeld ==
  ASSUME NEW X, NEW t \in Seq(X), NEW Y, NEW b \in Seq(Y), Len(b) # 0,
         NEW n \in 0..Len(t), Held(t, b, n), Closed(t) <= Len(t)
  PROVE  LET u == Without(t, Opened(t), Closed(t))
         IN  \E m \in 0..Len(u) : Held(u, b, m)
<1> DEFINE o == Opened(t)
           c == Closed(t)
           w == c - o + 1
           u == Without(t, o, c)
           l == Len(b)
<1>1. /\ o \in 1..Len(t) /\ c \in (o + 1)..Len(t)
  BY FirstThought
<1>2. /\ Len(u) = Len(t) - w
      /\ \A i \in 1..(o - 1) : u[i] = t[i]
      /\ \A i \in o..Len(u) : u[i] = t[i + w]
  <2>1. c \in o..Len(t)
    BY <1>1
  <2>2. QED
    BY <1>1, <2>1, WithoutIs
<1>3. /\ \A p \in 1..(o - 1) : ~Hidden(t, p) /\ ~Hidden(u, p)
      /\ \A p \in o..c : Hidden(t, p)
      /\ \A p \in o..Len(u) : Hidden(u, p) <=> Hidden(t, p + w)
  BY StillHidden
<1>4. /\ n + 1 + l - 1 <= Len(t)
      /\ \A i \in 1..l : t[n + 1 + i - 1] = b[i]
      /\ \A p \in 1..n : t[p] = Left => Hidden(t, p)
      /\ \A p \in (n + 1)..(n + l) : ~Hidden(t, p)
  BY DEF Held, Stands
<1>5. Len(t) \in Nat /\ l \in Nat /\ l >= 1
  OBVIOUS
<1> HIDE DEF o, c, u, l
<1>6. w \in Nat /\ w >= 1 /\ o + w = c + 1 /\ c = o + w - 1
  BY <1>1
<1> HIDE DEF w
<1>7. n + l < o \/ n >= c
  <2>1. \A p \in (n + 1)..(n + l) : p \notin o..c
    BY <1>3, <1>4
  <2>2. CASE n < o
    <3>1. CASE n + l >= o
      <4>1. o \in (n + 1)..(n + l) /\ o \in o..c
        BY <1>1, <1>5, <2>2, <3>1
      <4>2. QED
        BY <2>1, <4>1
    <3>2. QED
      BY <1>1, <1>5, <3>1
  <2>3. CASE n >= o /\ n < c
    <3>1. n + 1 \in (n + 1)..(n + l) /\ n + 1 \in o..c
      BY <1>1, <1>5, <2>3
    <3>2. QED
      BY <2>1, <3>1
  <2>4. QED
    BY <1>1, <2>2, <2>3
<1>8. CASE n + l < o
  <2>1. n \in 0..Len(u) /\ n + 1 + l - 1 <= Len(u)
    BY <1>1, <1>2, <1>5, <1>6, <1>8
  <2>2. ASSUME NEW i \in 1..l
        PROVE  u[n + 1 + i - 1] = b[i]
    <3>1. n + 1 + i - 1 \in 1..(o - 1)
      BY <1>1, <1>5, <1>8
    <3>2. QED
      BY <1>2, <1>4, <3>1
  <2>3. ASSUME NEW p \in 1..n
        PROVE  u[p] = Left => Hidden(u, p)
    <3>1. p \in 1..(o - 1)
      BY <1>1, <1>5, <1>8
    <3>2. QED
      BY <1>2, <1>3, <1>4, <3>1
  <2>4. ASSUME NEW p \in (n + 1)..(n + l)
        PROVE  ~Hidden(u, p)
    <3>1. p \in 1..(o - 1)
      BY <1>1, <1>5, <1>8
    <3>2. QED
      BY <1>3, <3>1
  <2>5. Held(u, b, n)
    BY <2>1, <2>2, <2>3, <2>4 DEF Held, Stands, l
  <2>6. QED
    BY <2>1, <2>5 DEF u, o, c
<1>9. CASE n >= c
  <2> DEFINE m == n - w
  <2>1. m \in 0..Len(u) /\ m + 1 + l - 1 <= Len(u) /\ m >= o - 1 /\ m + w = n /\ m \in Nat
    BY <1>1, <1>2, <1>4, <1>5, <1>6, <1>9
  <2> HIDE DEF m
  <2>2. ASSUME NEW i \in 1..l
        PROVE  u[m + 1 + i - 1] = b[i]
    <3>1. m + 1 + i - 1 \in o..Len(u) /\ m + 1 + i - 1 + w = n + 1 + i - 1
      BY <1>1, <1>2, <1>5, <1>6, <2>1
    <3>2. u[m + 1 + i - 1] = t[m + 1 + i - 1 + w]
      BY <1>2, <3>1
    <3>3. QED
      BY <1>4, <3>1, <3>2
  <2>3. ASSUME NEW p \in 1..m, u[p] = Left
        PROVE  Hidden(u, p)
    <3>1. CASE p < o
      <4>1. p \in 1..(o - 1) /\ p \in 1..n
        BY <1>1, <1>6, <2>1, <3>1
      <4>2. QED
        BY <1>2, <1>3, <1>4, <2>3, <4>1
    <3>2. CASE p >= o
      <4>1. p \in o..Len(u) /\ p + w \in 1..n
        BY <1>1, <1>2, <1>5, <1>6, <2>1, <3>2
      <4>2. t[p + w] = Left
        BY <1>2, <2>3, <4>1
      <4>3. QED
        BY <1>3, <1>4, <4>1, <4>2
    <3>3. QED
      BY <1>1, <3>1, <3>2
  <2>4. ASSUME NEW p \in (m + 1)..(m + l)
        PROVE  ~Hidden(u, p)
    <3>1. p \in o..Len(u) /\ p + w \in (n + 1)..(n + l)
      BY <1>1, <1>2, <1>5, <1>6, <2>1
    <3>2. QED
      BY <1>3, <1>4, <3>1
  <2>5. Held(u, b, m)
    BY <2>1, <2>2, <2>3, <2>4 DEF Held, Stands, l
  <2>6. QED
    BY <2>1, <2>5 DEF u, o, c
<1>10. QED
  BY <1>1, <1>5, <1>7, <1>8, <1>9

\* When no thought is left, nothing is hidden.
LEMMA NothingHidden ==
  ASSUME NEW X, NEW t \in Seq(X), Closed(t) > Len(t), NEW p \in Nat
  PROVE  ~Hidden(t, p)
<1> SUFFICES ASSUME Hidden(t, p)
             PROVE  FALSE
  OBVIOUS
<1>1. PICK q \in 1..p : t[q] = "think" /\ \E r \in p..Len(t) : t[r] = "/think"
  BY DEF Hidden
<1>2. PICK r \in p..Len(t) : t[r] = "/think"
  BY <1>1
<1>3. Len(t) \in Nat /\ 0 \in 0..Len(t) /\ q \in 1..Len(t) /\ r \in 1..Len(t) /\ q <= r
  OBVIOUS
<1>4. q # r
  <2>1. "think" # "/think"
    OBVIOUS
  <2>2. QED
    BY <1>1, <1>2, <2>1
<1>5. Opened(t) <= q /\ Opened(t) \in 1..(Len(t) + 1)
  <2>1. \A x \in (0 + 1)..Len(t) : t[x] = "think" => NextPosition(t, "think", 0) <= x
    BY <1>3, NextPositionIs
  <2>2. q \in (0 + 1)..Len(t)
    BY <1>3
  <2>3. Opened(t) \in 1..(Len(t) + 1)
    BY TagsAre
  <2>4. QED
    BY <1>1, <2>1, <2>2, <2>3 DEF Opened
<1>6. Opened(t) \in 0..Len(t) /\ r \in (Opened(t) + 1)..Len(t)
  BY <1>3, <1>4, <1>5
<1>7. /\ Closed(t) <= r
      /\ Closed(t) \in (Opened(t) + 1)..(Len(t) + 1)
  BY <1>2, <1>6, NextPositionIs DEF Closed
<1>8. QED
  BY <1>3, <1>6, <1>7

\* Stripping the fences leaves the review, and no opening brace before it.
LEMMA FencesLeave ==
  ASSUME NEW X, NEW t \in Seq(X), NEW Y, NEW b \in Seq(Y), Len(b) # 0,
         b[1] # "fence", b[Len(b)] # "fence", NEW n \in 0..Len(t), Bare(t, b, n)
  PROVE  \E m \in 0..Len(Unfenced(t)) : Bare(Unfenced(t), b, m)
<1>1. CASE ~(Len(t) > 1 /\ t[1] = "fence")
  BY <1>1 DEF Unfenced
<1>2. CASE Len(t) > 1 /\ t[1] = "fence"
  <2> DEFINE l == Len(b)
             S == {p \in DOMAIN t : t[p] # "fence"} \cup {1}
             last == Max(S)
             u == SubSeq(t, 2, last)
  <2>1. /\ n + 1 + l - 1 <= Len(t)
        /\ \A i \in 1..l : t[n + 1 + i - 1] = b[i]
        /\ \A p \in 1..n : t[p] # Left
    BY DEF Bare, Stands
  <2>2. l \in Nat /\ l >= 1 /\ Len(t) \in Nat /\ DOMAIN t = 1..Len(t)
    OBVIOUS
  <2>3. b[1] # "fence" /\ b[l] # "fence"
    OBVIOUS
  <2>4. S \in SUBSET (0..Len(t)) /\ S # {}
    BY <1>2, <2>2
  <2>5. last \in S /\ \A y \in S : y <= last
    BY <2>2, <2>4, GreatestExists
  <2>6. last \in 0..Len(t)
    BY <2>4, <2>5
  <2> HIDE DEF l
  <2>7. n # 0
    <3>1. CASE n = 0
      <4>1. 1 \in 1..l /\ n + 1 + 1 - 1 = 1
        BY <2>2, <3>1
      <4>2. t[1] = b[1]
        BY <2>1, <4>1
      <4>3. QED
        BY <1>2, <2>3, <4>2
    <3>2. QED
      BY <3>1
  <2>8. n + l <= last
    <3>1. l \in 1..l /\ n + 1 + l - 1 = n + l /\ n + l \in 1..Len(t)
      BY <2>1, <2>2
    <3>2. t[n + l] # "fence"
      BY <2>1, <2>3, <3>1
    <3>3. n + l \in S
      BY <2>2, <3>1, <3>2
    <3>4. QED
      BY <2>5, <3>3
  <2> HIDE DEF S, last
  <2>9. Unfenced(t) = u
    BY <1>2 DEF Unfenced, LastLine, last, S
  <2>10. Len(u) = last - 1 /\ \A i \in 1..(last - 1) : u[i] = t[i + 1]
    <3>1. \A i \in 2..last : t[i] \in X
      BY <2>2, <2>6
    <3>2. last \in Int /\ last >= 2
      BY <2>2, <2>6, <2>7, <2>8
    <3>3. QED
      BY <3>1, <3>2
  <2> HIDE DEF u
  <2> DEFINE m == n - 1
  <2>11. m \in 0..Len(u) /\ m \in Nat /\ m + 1 + l - 1 <= Len(u) /\ m + 1 = n
    BY <2>2, <2>6, <2>7, <2>8, <2>10
  <2> HIDE DEF m
  <2>12. ASSUME NEW i \in 1..l
         PROVE  u[m + 1 + i - 1] = b[i]
    <3>1. m + 1 + i - 1 \in 1..(last - 1) /\ m + 1 + i - 1 + 1 = n + 1 + i - 1
      BY <2>2, <2>6, <2>8, <2>11
    <3>2. u[m + 1 + i - 1] = t[m + 1 + i - 1 + 1]
      BY <2>10, <3>1
    <3>3. QED
      BY <2>1, <3>1, <3>2
  <2>13. ASSUME NEW p \in 1..m
         PROVE  u[p] # Left
    <3>1. p \in 1..(last - 1) /\ p + 1 \in 1..n
      BY <2>2, <2>6, <2>8, <2>11
    <3>2. QED
      BY <2>1, <2>10, <3>1
  <2>14. Bare(u, b, m)
    BY <2>11, <2>12, <2>13 DEF Bare, Stands, l
  <2>15. QED
    BY <2>9, <2>11, <2>14
<1>3. QED
  BY <1>1, <1>2


----------------------------------------------------------------------------
(* A whole review is what is reported *)

\* What WholeReviewRead asks of the text that was sent: the review is whole, no thought
\* covers it, and one covers every opening brace before it.
Readable ==
  /\ Whole
  /\ \A p \in LeadPositions : Raw[p] = Left => Hidden(Raw, p)
  /\ \A p \in BodyPositions : ~Hidden(Raw, p)

\* The review stays in the text from step to step, with nothing before it that opens an
\* object once the thoughts are gone.
WholeInv ==
  /\ said \in Reviews
  /\ Readable =>
       /\ step \in {"answered", "thoughts"} => \E n \in 0..Len(text) : Held(text, sent.body, n)
       /\ step \in {"whole", "seeking", "scanning", "found"} =>
            \E n \in 0..Len(text) : Bare(text, sent.body, n)
       /\ step = "done" => outcome = ResultOf(said)

\* How a whole review begins and ends.
LEMMA WholeBody ==
  ASSUME TextInv, said \in Reviews, Whole
  PROVE  /\ Len(sent.body) \in Nat /\ Len(sent.body) >= 4
         /\ sent.body[1] = Left /\ sent.body[Len(sent.body)] = Right
         /\ sent.body[2] \in {"[", "pass", "warn", "block"}
<1> DEFINE t == sent.body
<1>1. t \in Seq(Letters) /\ t = ReviewText(said)
  BY DEF TextInv, Whole
<1> HIDE DEF t
<1>2. Stands(t, ReviewText(said), 1)
  <2>1. 1 + Len(t) - 1 <= Len(t) /\ \A i \in 1..Len(t) : 1 + i - 1 = i
    BY <1>1
  <2>2. Stands(t, t, 1)
    BY <2>1 DEF Stands
  <2>3. QED
    BY <1>1, <2>2
<1>3. t[1] = Left
  BY <1>1, <1>2, ReviewStands
<1>4. PICK q \in {1 + 1, 1 + 2}, r \in Nat :
        /\ q = 1 + 2 => t[1 + 1] \in {"pass", "warn", "block"}
        /\ t[q] = "["
        /\ t[r + 1] = Right /\ q + 1 <= r
        /\ 1 + Len(ReviewText(said)) - 1 = r + 1
  BY <1>1, <1>2, ReviewStands
<1>5. Len(t) \in Nat /\ Len(t) = r + 1 /\ Len(t) >= 4
  BY <1>1, <1>4
<1>6. t[2] \in {"[", "pass", "warn", "block"}
  BY <1>4
<1>7. QED
  BY <1>3, <1>4, <1>5, <1>6 DEF t

\* No other text with the review in it is decoded whole: it is longer than an empty object,
\* and an issue would have to begin with the review's own brace.
LEMMA WholeDecodes ==
  ASSUME TextInv, said \in Reviews, Whole, NEW n \in 0..Len(text), Bare(text, sent.body, n)
  PROVE  Unmarshal(text) = ResultOf(said) \/ Unmarshal(text) = Unreadable
<1> DEFINE b == sent.body
           l == Len(b)
<1>1. /\ l \in Nat /\ l >= 4 /\ b[1] = Left
      /\ b[2] \in {"[", "pass", "warn", "block"}
  BY WholeBody
<1>2. text \in Seq(Letters) /\ Len(text) \in Nat
  BY DEF TextInv
<1>3. /\ n + 1 + l - 1 <= Len(text)
      /\ \A i \in 1..l : text[n + 1 + i - 1] = b[i]
      /\ \A p \in 1..n : text[p] # Left
  BY DEF Bare, Stands
<1> HIDE DEF b, l
<1>4. text # <<Left, Right>>
  <2> DEFINE u == <<Left, Right>>
             k == Len(text)
  <2>1. k \in Nat /\ k >= 4
    BY <1>1, <1>2, <1>3
  <2>2. Len(u) = 2
    OBVIOUS
  <2> HIDE DEF u, k
  <2>3. k # 2
    BY <2>1
  <2>4. text # u
    BY <2>2, <2>3, Zenon DEF k
  <2>5. QED
    BY <2>4 DEF u
<1>5. ASSUME NEW i \in DOMAIN said.issues
      PROVE  text # IssueText(said.issues[i])
  <2> SUFFICES ASSUME text = IssueText(said.issues[i])
               PROVE  FALSE
    OBVIOUS
  <2>1. said.issues \in Seq(ReviewIssues)
    BY ReviewsAre
  <2>2. PICK issue : issue = said.issues[i] /\ issue \in ReviewIssues
    BY <2>1
  <2> DEFINE a == <<Left, issue.severity, "quote">>
             m == issue.message
             c == <<"quote", Right>>
  <2>3. text = (a \o m) \o c
    BY <2>2, IssueIsText
  <2>4. issue.severity \in Severities /\ m \in Seq(Tokens)
    BY <2>2 DEF ReviewIssues
  <2>5. text[1] = Left /\ text[2] = issue.severity
    <3>1. issue.severity \in Tokens /\ Left \in Tokens /\ Right \in Tokens /\ "quote" \in Tokens
      BY <2>4, ReviewTokens
    <3>2. a \in Seq(Tokens) /\ c \in Seq(Tokens) /\ Len(a) = 3 /\ a[1] = Left /\ a[2] = issue.severity
      BY <3>1
    <3> HIDE DEF a, m, c
    <3>3. a \o m \in Seq(Tokens) /\ Len(a \o m) = 3 + Len(m) /\ Len(m) \in Nat
      BY <2>4, <3>2, JoinedText
    <3>4. (a \o m)[1] = Left /\ (a \o m)[2] = issue.severity
      <4>1. 1 \in 1..Len(a) /\ 2 \in 1..Len(a) /\ m \in Seq(Tokens)
        BY <2>4, <3>2 DEF m
      <4>2. \A x \in 1..Len(a) : (a \o m)[x] = a[x]
        BY <3>2, <4>1, JoinedParts
      <4>3. QED
        BY <3>2, <4>1, <4>2
    <3> DEFINE am == a \o m
    <3>5. am \in Seq(Tokens) /\ 1 \in 1..Len(am) /\ 2 \in 1..Len(am) /\ am[1] = Left /\ am[2] = issue.severity
      BY <3>3, <3>4
    <3> HIDE DEF am
    <3>6. (am \o c)[1] = am[1] /\ (am \o c)[2] = am[2]
      BY <3>2, <3>5
    <3>7. QED
      BY <2>3, <3>5, <3>6 DEF am
  <2>6. n = 0
    <3>1. CASE n # 0
      <4>1. 1 \in 1..n
        BY <3>1
      <4>2. QED
        BY <1>3, <2>5, <4>1
    <3>2. QED
      BY <3>1
  <2>7. text[2] = b[2]
    <3>1. 2 \in 1..l /\ n + 1 + 2 - 1 = 2
      BY <1>1, <2>6
    <3>2. QED
      BY <1>3, <3>1
  <2>8. QED
    BY <1>1, <2>4, <2>5, <2>7, ReviewTokens
<1>6. Unmarshal(text) =
        CASE text = ReviewText(said) -> ResultOf(said)
          [] text # ReviewText(said) /\ (\/ text = <<Left, Right>>
                                         \/ \E i \in DOMAIN said.issues : text = IssueText(said.issues[i]))
               -> ResultOf(Nothing)
          [] OTHER -> Unreadable
  BY Zenon DEF Unmarshal, Left, Right
<1>7. QED
  BY <1>4, <1>5, <1>6

\* The object that the scan finds is the review.
LEMMA MatchIsReview ==
  ASSUME TextInv, ScanInv, said \in Reviews, Whole, step = "found",
         NEW n \in 0..Len(text), Bare(text, sent.body, n)
  PROVE  Match = ReviewText(said)
<1> DEFINE b == sent.body
           l == Len(b)
           e == at - 1
<1>1. /\ l \in Nat /\ l >= 4 /\ b \in Seq(Letters)
      /\ b = ReviewText(said)
  BY WholeBody DEF TextInv, Whole
<1>2. text \in Seq(Letters) /\ Len(text) \in Nat
  BY DEF TextInv
<1>3. /\ n + 1 + l - 1 <= Len(text)
      /\ \A i \in 1..l : text[n + 1 + i - 1] = b[i]
      /\ \A p \in 1..n : text[p] # Left
      /\ Stands(text, b, n + 1)
  BY DEF Bare, Stands
<1>4. IsLeast(from, Objects(text)) /\ IsLeast(e, Balances(text, from))
  BY DEF ScanInv
<1> HIDE DEF b, l, e
<1>5. /\ n + 1 \in Objects(text)
      /\ IsLeast(n + 1 + l - 1, Balances(text, n + 1))
  <2>1. n + 1 \in Nat \ {0}
    OBVIOUS
  <2>2. Stands(text, ReviewText(said), n + 1)
    BY <1>1, <1>3
  <2>3. /\ n + 1 \in Objects(text)
        /\ IsLeast(n + 1 + Len(ReviewText(said)) - 1, Balances(text, n + 1))
    BY <1>2, <2>1, <2>2, ReviewReads
  <2>4. QED
    BY <1>1, <2>3 DEF l
<1>6. from = n + 1
  <2>1. from \in 1..Len(text) /\ text[from] = Left
    BY <1>2, <1>4, ObjectsAre DEF IsLeast
  <2>2. from <= n + 1
    BY <1>4, <1>5 DEF IsLeast
  <2>3. from \notin 1..n
    BY <1>3, <2>1
  <2>4. QED
    BY <2>1, <2>2, <2>3
<1>7. e = n + l
  <2>1. e \in Balances(text, n + 1) /\ n + 1 + l - 1 \in Balances(text, n + 1)
        /\ e <= n + 1 + l - 1 /\ n + 1 + l - 1 <= e
    BY <1>4, <1>5, <1>6 DEF IsLeast
  <2>2. e \in (n + 1)..Len(text)
    BY <2>1, BalancesAre DEF Plain
  <2>3. QED
    BY <1>1, <1>2, <2>1, <2>2
<1>8. Match = SubSeq(text, n + 1, n + l)
  BY <1>6, <1>7 DEF Match, e
<1>9. SubSeq(text, n + 1, n + l) = b
  <2> DEFINE u == SubSeq(text, n + 1, n + l)
  <2>1. \A i \in (n + 1)..(n + l) : text[i] \in Letters
    BY <1>1, <1>2, <1>3
  <2>2. u \in Seq(Letters) /\ Len(u) = l
    BY <1>1, <1>2, <2>1, SubSeqProperties
  <2>3. \A i \in 1..l : u[i] = text[n + 1 + i - 1]
    BY <1>1, <1>2, <1>3
  <2> HIDE DEF u
  <2>4. \A i \in 1..l : u[i] = b[i]
    BY <1>3, <2>3
  <2>5. u = b
    BY <1>1, <2>2, <2>4 DEF l
  <2>6. QED
    BY <2>5 DEF u
<1>10. QED
  BY <1>1, <1>8, <1>9


\* The review stands in the text that is sent.
LEMMA SentIsHeld ==
  ASSUME TextInv, Readable, text = Raw
  PROVE  \E n \in 0..Len(text) : Held(text, sent.body, n)
<1> DEFINE a == sent.lead
           b == sent.body
           c == sent.tail
<1>1. a \in Seq(Letters) /\ b \in Seq(Letters) /\ c \in Seq(Letters) /\ text \in Seq(Letters)
  <2>1. a \in Seq(Tokens) /\ c \in Seq(Tokens) /\ Tokens \subseteq Letters
    BY DEF TextInv, Letters
  <2>2. QED
    BY <2>1 DEF TextInv
<1>2. text = (a \o b) \o c
  BY DEF Raw
<1>3. Len(a) \in Nat /\ DOMAIN a = 1..Len(a)
  BY <1>1
<1> HIDE DEF a, b, c
<1>4. Stands(text, text, 1)
  <2>1. 1 + Len(text) - 1 <= Len(text) /\ \A i \in 1..Len(text) : 1 + i - 1 = i
    BY <1>1
  <2>2. QED
    BY <2>1 DEF Stands
<1>5. a \o b \in Seq(Letters)
  BY <1>1
<1>6. Stands(text, a \o b, 1)
  <2>1. Stands(text, (a \o b) \o c, 1)
    BY <1>2, <1>4
  <2>2. QED
    BY <1>1, <1>5, <2>1, PartsStand
<1>7. Stands(text, b, 1 + Len(a))
  BY <1>1, <1>6, PartsStand
<1>8. Len(a) \in 0..Len(text)
  <2>1. Stands(text, a, 1)
    BY <1>1, <1>6, PartsStand
  <2>2. 1 + Len(a) - 1 <= Len(text) /\ Len(text) \in Nat
    BY <1>1, <2>1 DEF Stands
  <2>3. QED
    BY <1>3, <2>2
<1>9. 1 + Len(a) = Len(a) + 1
  BY <1>3
<1>10. /\ \A p \in 1..Len(a) : text[p] = Left => Hidden(text, p)
       /\ \A p \in (Len(a) + 1)..(Len(a) + Len(b)) : ~Hidden(text, p)
  <2>1. LeadPositions = 1..Len(a)
    BY <1>3 DEF LeadPositions, a
  <2>2. BodyPositions = (Len(a) + 1)..(Len(a) + Len(b))
    BY DEF BodyPositions, a, b
  <2>3. QED
    BY <2>1, <2>2 DEF Readable
<1>11. Held(text, b, Len(a))
  BY <1>7, <1>9, <1>10 DEF Held
<1>12. QED
  BY <1>8, <1>11 DEF b

\* While the review is in a text that is scanned, a brace is left to try.
LEMMA SomethingToTry ==
  ASSUME TextInv, ScanInv, said \in Reviews, Whole, step = "seeking",
         NEW n \in 0..Len(text), Bare(text, sent.body, n)
  PROVE  NextBrace <= Len(text)
<1>1. text \in Seq(Letters) /\ Len(text) \in Nat
  BY DEF TextInv
<1>2. Stands(text, ReviewText(said), n + 1)
  BY DEF Bare, Whole
<1>3. n + 1 \in Objects(text)
  <2>1. n + 1 \in Nat \ {0}
    OBVIOUS
  <2>2. QED
    BY <1>1, <1>2, <2>1, ReviewReads
<1>4. n + 1 \in 1..Len(text) /\ text[n + 1] = Left
  BY <1>1, <1>3, ObjectsAre
<1>5. from \in 0..Len(text) /\ NoObjectUpTo(from)
  BY DEF ScanInv
<1>6. n + 1 \in (from + 1)..Len(text)
  BY <1>1, <1>3, <1>4, <1>5 DEF NoObjectUpTo
<1>7. NextBrace \in (from + 1)..(Len(text) + 1) /\ NextBrace <= n + 1
  BY <1>1, <1>4, <1>5, <1>6, NextPositionIs, NextBraceIs
<1>8. QED
  BY <1>1, <1>4, <1>5, <1>7

\* A result is none but a result.
LEMMA ResultsRead ==
  /\ \A body : ResultOf(body).kind = "result"
  /\ Unreadable.kind # "result"
BY DEF ResultOf, Unreadable

\* WholeInv holds in every reachable state.
LEMMA WholeCorrect == Spec => []WholeInv
<1>1. Init /\ TextInv => WholeInv
  <2> SUFFICES ASSUME Init, TextInv
               PROVE  WholeInv
    OBVIOUS
  <2>1. said \in Reviews /\ text = Raw /\ step = "answered"
    BY DEF Init
  <2>2. QED
    BY <2>1, SentIsHeld DEF WholeInv
<1>2. TextInv /\ ScanInv /\ WholeInv /\ [Next]_vars => WholeInv'
  <2> SUFFICES ASSUME TextInv, ScanInv, WholeInv, [Next]_vars
               PROVE  WholeInv'
    OBVIOUS
  <2>1. said' = said /\ sent' = sent
    BY DEF Next, DetectRepetition, StripThought, StripFences, DecodeWhole, TryBrace, Scan,
           ScanEscaped, ScanBackslash, ScanQuote, ScanOther, ScanBrace, Advance, Unbalanced,
           DecodeMatch, Retry, GiveUp, vars
  <2>2. Readable' = Readable
    BY <2>1 DEF Readable, Whole, Raw, LeadPositions, BodyPositions
  <2>3. said \in Reviews
    BY DEF WholeInv
  <2> SUFFICES ASSUME Readable
               PROVE  /\ step' \in {"answered", "thoughts"} =>
                           \E n \in 0..Len(text') : Held(text', sent.body, n)
                      /\ step' \in {"whole", "seeking", "scanning", "found"} =>
                           \E n \in 0..Len(text') : Bare(text', sent.body, n)
                      /\ step' = "done" => outcome' = ResultOf(said)
    BY <2>1, <2>2, <2>3 DEF WholeInv
  <2>4. Whole
    BY DEF Readable
  <2>5. /\ sent.body \in Seq(Letters) /\ Len(sent.body) \in Nat /\ Len(sent.body) >= 4
        /\ sent.body[1] = Left /\ sent.body[Len(sent.body)] = Right
    BY <2>3, <2>4, WholeBody DEF TextInv
  <2>6. text \in Seq(Letters) /\ Len(text) \in Nat
    BY DEF TextInv
  <2>7. CASE DetectRepetition
    <3>1. step = "answered" /\ step' = "thoughts" /\ text' = text
      BY <2>7 DEF DetectRepetition, GoTo
    <3>2. QED
      BY <3>1 DEF WholeInv
  <2>8. CASE StripThought
    <3>1. /\ step = "thoughts" /\ step' = "thoughts" /\ Closed(text) <= Len(text)
          /\ text' = Without(text, Opened(text), Closed(text))
      BY <2>8 DEF StripThought
    <3>2. PICK n \in 0..Len(text) : Held(text, sent.body, n)
      BY <3>1 DEF WholeInv
    <3>3. Len(sent.body) # 0
      BY <2>5
    <3>4. \E m \in 0..Len(text') : Held(text', sent.body, m)
      BY <2>5, <2>6, <3>1, <3>2, <3>3, StripHeld
    <3>5. QED
      BY <3>1, <3>4
  <2>9. CASE StripFences
    <3>1. /\ step = "thoughts" /\ step' = "whole" /\ Closed(text) > Len(text)
          /\ text' = Unfenced(text)
      BY <2>9 DEF StripFences, GoTo
    <3>2. PICK n \in 0..Len(text) : Held(text, sent.body, n)
      BY <3>1 DEF WholeInv
    <3>3. \A p \in 1..n : text[p] # Left
      <4>1. \A p \in 1..n : ~Hidden(text, p)
        BY <2>6, <3>1, NothingHidden
      <4>2. QED
        BY <3>2, <4>1 DEF Held
    <3>4. Bare(text, sent.body, n)
      BY <3>2, <3>3 DEF Held, Bare
    <3>5. Len(sent.body) # 0
      BY <2>5
    <3>6. Left # "fence" /\ Right # "fence"
      BY Zenon DEF Left, Right
    <3>7. sent.body[1] # "fence" /\ sent.body[Len(sent.body)] # "fence"
      BY <2>5, <3>6
    <3>8. \E m \in 0..Len(text') : Bare(text', sent.body, m)
      BY <2>5, <2>6, <3>1, <3>4, <3>5, <3>7, FencesLeave
    <3>9. QED
      BY <3>1, <3>8
  <2>10. CASE DecodeWhole
    <3>1. step = "whole" /\ text' = text
      BY <2>10 DEF DecodeWhole
    <3>2. PICK n \in 0..Len(text) : Bare(text, sent.body, n)
      BY <3>1 DEF WholeInv
    <3>3. Unmarshal(text) = ResultOf(said) \/ Unmarshal(text) = Unreadable
      BY <2>3, <2>4, <3>2, WholeDecodes
    <3>4. CASE Unmarshal(text) = ResultOf(said)
      <4>1. outcome' = ResultOf(said) /\ step' = "done"
        BY <2>10, <3>4, ResultsRead DEF DecodeWhole, Return, GoTo
      <4>2. QED
        BY <4>1
    <3>5. CASE Unmarshal(text) = Unreadable
      <4>1. step' = "seeking"
        BY <2>10, <3>5, ResultsRead DEF DecodeWhole, GoTo
      <4>2. QED
        BY <3>1, <3>2, <4>1
    <3>6. QED
      BY <3>3, <3>4, <3>5
  <2>11. CASE TryBrace \/ Scan \/ Unbalanced
    <3>1. /\ step \in {"seeking", "scanning"} /\ text' = text
          /\ step' \in {"seeking", "scanning", "found"}
      BY <2>11 DEF TryBrace, Scan, ScanEscaped, ScanBackslash, ScanQuote, ScanOther, ScanBrace,
                   Scanning, Advance, Unbalanced, GoTo
    <3>2. QED
      BY <3>1 DEF WholeInv
  <2>12. CASE DecodeMatch
    <3>1. step = "found" /\ step' = "done"
      BY <2>12 DEF DecodeMatch, Return, GoTo
    <3>2. PICK n \in 0..Len(text) : Bare(text, sent.body, n)
      BY <3>1 DEF WholeInv
    <3>3. Match = ReviewText(said)
      BY <2>3, <2>4, <3>1, <3>2, MatchIsReview
    <3>4. Unmarshal(ReviewText(said)) = ResultOf(said)
      BY Zenon DEF Unmarshal
    <3>5. outcome' = ResultOf(said)
      BY <2>12, <3>3, <3>4, ResultsRead DEF DecodeMatch, Return
    <3>6. QED
      BY <3>1, <3>5
  <2>13. CASE Retry \/ GiveUp
    <3>1. step = "seeking" /\ NextBrace > Len(text)
      BY <2>13 DEF Retry, GiveUp
    <3>2. PICK n \in 0..Len(text) : Bare(text, sent.body, n)
      BY <3>1 DEF WholeInv
    <3>3. NextBrace <= Len(text)
      BY <2>3, <2>4, <3>1, <3>2, SomethingToTry
    <3>4. NextBrace \in Int
      <4>1. from \in 0..Len(text)
        BY <3>1 DEF ScanInv
      <4>2. NextBrace \in (from + 1)..(Len(text) + 1)
        BY <2>6, <4>1, NextPositionIs, NextBraceIs
      <4>3. QED
        BY <4>1, <4>2
    <3>5. QED
      BY <2>6, <3>1, <3>3, <3>4
  <2>14. CASE UNCHANGED vars
    <3>1. step' = step /\ text' = text /\ outcome' = outcome
      BY <2>14 DEF vars
    <3>2. QED
      BY <3>1 DEF WholeInv
  <2>15. QED
    BY <2>7, <2>8, <2>9, <2>10, <2>11, <2>12, <2>13, <2>14 DEF Next
<1>3. QED
  BY <1>1, <1>2, TextCorrect, ScanCorrect, PTL DEF Spec

\* WholeReviewRead for every review and whatever stands around it: a review the model wrote
\* to its end is the review that Parse returns, unless a thought covers it or an opening brace
\* outside of the thoughts stands before it.
THEOREM WholeReviewIsRead == Spec => []WholeReviewRead
<1>1. WholeInv => WholeReviewRead
  <2>1. ASSUME WholeInv, step = "done", Readable
        PROVE  outcome = ResultOf(said)
    BY <2>1 DEF WholeInv
  <2>2. Readable <=> /\ Whole
                     /\ \A p \in LeadPositions : Raw[p] = "{" => Hidden(Raw, p)
                     /\ \A p \in BodyPositions : ~Hidden(Raw, p)
    BY Zenon DEF Readable, Left
  <2>3. QED
    BY <2>1, <2>2, Zenon DEF WholeReviewRead
<1>2. QED
  BY <1>1, WholeCorrect, PTL


----------------------------------------------------------------------------
(* Types *)

\* A review is text.
LEMMA ReviewIsText ==
  ASSUME NEW review \in Reviews
  PROVE  ReviewText(review) \in Seq(Tokens)
<1> DEFINE v == VerdictText(review)
           fl == FlattenSeq(IssueTexts(review.issues))
<1>1. /\ <<Left>> \in Seq(Tokens) /\ <<"[">> \in Seq(Tokens) /\ <<"]", Right>> \in Seq(Tokens)
      /\ {"pass", "warn", "block"} \subseteq Tokens
  <2>1. Left \in Tokens /\ Right \in Tokens /\ "[" \in Tokens /\ "]" \in Tokens
    BY ReviewTokens
  <2>2. {"pass", "warn", "block"} \subseteq Tokens
    BY ReviewTokens
  <2>3. QED
    BY <2>1, <2>2
<1>2. v \in Seq(Tokens)
  <2>1. v = << >> \/ \E w \in {"pass", "warn", "block"} : v = <<w>>
    BY ReviewsAre
  <2> HIDE DEF v
  <2>2. ASSUME NEW w \in {"pass", "warn", "block"}
        PROVE  <<w>> \in Seq(Tokens)
    <3>1. w \in Tokens
      BY <1>1
    <3>2. QED
      BY <3>1
  <2>3. CASE v = << >>
    BY <2>3
  <2>4. CASE \E w \in {"pass", "warn", "block"} : v = <<w>>
    BY <2>2, <2>4, Zenon
  <2>5. QED
    BY <2>1, <2>3, <2>4
<1>3. fl \in Seq(Tokens)
  BY ReviewsAre, IssueTextsAre, FlattenIsText
<1>4. ReviewText(review) = <<Left>> \o v \o <<"[">> \o fl \o <<"]", Right>>
  BY ReviewTextIs
<1> HIDE DEF v, fl
<1> DEFINE a1 == <<Left>> \o v
           a2 == a1 \o <<"[">>
           a3 == a2 \o fl
<1>5. a1 \in Seq(Tokens)
  BY <1>1, <1>2, JoinedText
<1> HIDE DEF a1
<1>6. a2 \in Seq(Tokens)
  BY <1>1, <1>5, JoinedText
<1> HIDE DEF a2
<1>7. a3 \in Seq(Tokens)
  BY <1>3, <1>6, JoinedText
<1> HIDE DEF a3
<1>8. a3 \o <<"]", Right>> \in Seq(Tokens)
  BY <1>1, <1>7, JoinedText
<1>9. QED
  BY <1>4, <1>8 DEF a1, a2, a3

\* Whatever form a model gives it, and wherever it stops.
LEMMA FormsAreText ==
  ASSUME NEW review \in Reviews, NEW form \in Forms(review), NEW cut \in 0..Len(form)
  PROVE  SubSeq(form, 1, cut) \in Seq(Tokens)
<1> DEFINE t == ReviewText(review)
           list == IF review.verdict = "" THEN 2 ELSE 3
<1>1. t \in Seq(Tokens)
  BY ReviewIsText
<1>2. list \in {2, 3}
  OBVIOUS
<1>3. form \in {t, Tail(t), SubSeq(t, list, Len(t) - 1)}
  BY Zenon DEF Forms
<1> HIDE DEF t, list
<1>4. ASSUME NEW s \in Seq(Tokens), NEW i \in Nat \ {0}, NEW j \in Int, j <= Len(s)
      PROVE  SubSeq(s, i, j) \in Seq(Tokens)
  <2>1. \A k \in i..j : s[k] \in Tokens
    BY <1>4
  <2>2. QED
    BY <2>1, SubSeqProperties
<1>5. t # << >>
  <2>1. Stands(t, t, 1)
    <3>1. 1 + Len(t) - 1 <= Len(t) /\ \A i \in 1..Len(t) : 1 + i - 1 = i
      BY <1>1
    <3>2. QED
      BY <3>1 DEF Stands
  <2>2. PICK q \in {1 + 1, 1 + 2}, r \in Nat : r + 1 <= Len(t)
    <3>1. Stands(t, ReviewText(review), 1)
      BY <2>1 DEF t
    <3>2. QED
      BY <1>1, <3>1, ReviewStands
  <2>3. QED
    BY <1>1, <2>2
<1>6. form \in Seq(Tokens)
  <2>1. Tail(t) \in Seq(Tokens)
    BY <1>1, <1>5
  <2>2. SubSeq(t, list, Len(t) - 1) \in Seq(Tokens)
    <3>1. list \in Nat \ {0} /\ Len(t) - 1 \in Int /\ Len(t) - 1 <= Len(t)
      BY <1>1, <1>2
    <3>2. QED
      BY <1>1, <1>4, <3>1
  <2>3. QED
    BY <1>1, <1>3, <2>1, <2>2
<1>7. QED
  <2>1. 1 \in Nat \ {0} /\ cut \in Int /\ cut <= Len(form)
    BY <1>6
  <2>2. QED
    BY <1>4, <1>6, <2>1

\* What is decoded.
LEMMA Decoded ==
  ASSUME NEW t
  PROVE  Unmarshal(t) \in {ResultOf(said), ResultOf(Nothing), Unreadable}
<1>1. \/ Unmarshal(t) = ResultOf(said)
      \/ Unmarshal(t) = ResultOf(Nothing)
      \/ Unmarshal(t) = Unreadable
  BY Zenon DEF Unmarshal
<1>2. QED
  BY <1>1

LEMMA OutcomesDiffer ==
  NoOutcome # Unreadable /\ \A body : ResultOf(body) # NoOutcome
<1>1. NoOutcome.kind # Unreadable.kind /\ \A body : ResultOf(body).kind # NoOutcome.kind
  BY DEF NoOutcome, Unreadable, ResultOf
<1>2. QED
  BY <1>1

\* TypeOK holds in every reachable state: what is stripped and scanned stays text, and an answer
\* gives the review that was meant, one with nothing in it, or an error, once it is read.
THEOREM TypeCorrect == Spec => []TypeOK
<1>1. Init => TypeOK
  <2> SUFFICES ASSUME Init
               PROVE  TypeOK
    OBVIOUS
  <2>1. said \in Reviews /\ text = Raw
    BY DEF Init
  <2>2. PICK lead \in Leads, tail \in Tails, form \in Forms(said) :
          \E cut \in 0..Len(form) :
            sent = [lead |-> lead, body |-> SubSeq(form, 1, cut), tail |-> tail]
    BY DEF Init
  <2>3. PICK cut \in 0..Len(form) :
          sent = [lead |-> lead, body |-> SubSeq(form, 1, cut), tail |-> tail]
    BY <2>2
  <2>4. sent.lead \in Seq(Tokens) /\ sent.tail \in Seq(Tokens)
    BY <2>3, AnswerReadingAssumption
  <2>5. sent.body \in Seq(Tokens)
    <3>1. SubSeq(form, 1, cut) \in Seq(Tokens)
      BY <2>1, FormsAreText
    <3>2. sent.body = SubSeq(form, 1, cut)
      BY <2>3
    <3>3. QED
      BY <3>1, <3>2
  <2>6. text \in Seq(Tokens)
    BY <2>1, <2>4, <2>5 DEF Raw
  <2>7. /\ step = "answered" /\ from = 0 /\ at = 0 /\ depth = 0
        /\ flagged = FALSE /\ inString = FALSE /\ escape = FALSE /\ retried = FALSE
        /\ outcome = NoOutcome
    BY DEF Init
  <2>8. {sent.lead, sent.body, sent.tail, text} \subseteq Seq(Tokens)
    BY <2>4, <2>5, <2>6
  <2>9. {flagged, inString, escape, retried} \subseteq BOOLEAN
    BY <2>7, Zenon
  <2>10. from \in Nat /\ at \in Nat /\ depth \in Int
    BY <2>7
  <2>11. /\ step \in {"answered", "thoughts", "whole", "seeking", "scanning", "found", "done"}
         /\ outcome \in {NoOutcome, Unreadable, ResultOf(said), ResultOf(Nothing)}
         /\ outcome # NoOutcome <=> step = "done"
    BY <2>7, Zenon
  <2>12. QED
    BY <2>1, <2>8, <2>9, <2>10, <2>11, Zenon DEF TypeOK
<1>2. TextInv /\ ScanInv /\ TypeOK /\ [Next]_vars => TypeOK'
  <2> SUFFICES ASSUME TextInv, ScanInv, TypeOK, [Next]_vars
               PROVE  TypeOK'
    OBVIOUS
  <2>1. /\ said \in Reviews
        /\ sent.lead \in Seq(Tokens) /\ sent.body \in Seq(Tokens) /\ sent.tail \in Seq(Tokens)
        /\ text \in Seq(Tokens)
        /\ step \in {"answered", "thoughts", "whole", "seeking", "scanning", "found", "done"}
        /\ from \in Nat /\ at \in Nat /\ depth \in Int
        /\ flagged \in BOOLEAN /\ inString \in BOOLEAN /\ escape \in BOOLEAN
        /\ retried \in BOOLEAN
        /\ outcome \in {NoOutcome, Unreadable, ResultOf(said), ResultOf(Nothing)}
        /\ outcome # NoOutcome <=> step = "done"
    BY DEF TypeOK
  <2>2. said' = said /\ sent' = sent
    BY DEF Next, DetectRepetition, StripThought, StripFences, DecodeWhole, TryBrace, Scan,
           ScanEscaped, ScanBackslash, ScanQuote, ScanOther, ScanBrace, Advance, Unbalanced,
           DecodeMatch, Retry, GiveUp, vars
  <2> SUFFICES /\ text' \in Seq(Tokens)
               /\ step' \in {"answered", "thoughts", "whole", "seeking", "scanning", "found", "done"}
               /\ from' \in Nat /\ at' \in Nat /\ depth' \in Int
               /\ flagged' \in BOOLEAN /\ inString' \in BOOLEAN /\ escape' \in BOOLEAN
               /\ retried' \in BOOLEAN
               /\ outcome' \in {NoOutcome, Unreadable, ResultOf(said), ResultOf(Nothing)}
               /\ outcome' # NoOutcome <=> step' = "done"
    BY <2>1, <2>2 DEF TypeOK
  <2>3. CASE DetectRepetition
    <3>1. flagged' = Looped(text) /\ Looped(text) \in BOOLEAN
      BY <2>3 DEF DetectRepetition, Looped
    <3>2. /\ step = "answered" /\ step' = "thoughts"
          /\ UNCHANGED <<text, from, at, depth, inString, escape, retried, outcome>>
      BY <2>3 DEF DetectRepetition, GoTo, scanner
    <3>3. QED
      BY <2>1, <3>1, <3>2
  <2>4. CASE StripThought \/ StripFences
    <3>1. text' \in Seq(Tokens)
      BY <2>1, <2>4, StrippedIsText DEF StripThought, StripFences
    <3>2. /\ step = "thoughts" /\ step' \in {"thoughts", "whole"}
          /\ UNCHANGED <<from, at, depth, inString, escape, flagged, retried, outcome>>
      BY <2>4 DEF StripThought, StripFences, GoTo, scanner
    <3>3. QED
      BY <2>1, <3>1, <3>2
  <2>5. CASE DecodeWhole \/ DecodeMatch
    <3>1. /\ step \in {"whole", "found"}
          /\ UNCHANGED <<text, from, at, depth, inString, escape, flagged, retried>>
      BY <2>5 DEF DecodeWhole, DecodeMatch, scanner
    <3>2. \/ /\ step' = "done"
             /\ outcome' \in {ResultOf(said), ResultOf(Nothing), Unreadable}
          \/ step' = "seeking" /\ outcome' = outcome
      <4>1. Unmarshal(text) \in {ResultOf(said), ResultOf(Nothing), Unreadable}
        BY Decoded
      <4>2. Unmarshal(Match) \in {ResultOf(said), ResultOf(Nothing), Unreadable}
        BY Decoded
      <4>3. QED
        BY <2>5, <4>1, <4>2 DEF DecodeWhole, DecodeMatch, Return, GoTo
    <3>3. QED
      BY <2>1, <3>1, <3>2, OutcomesDiffer
  <2>6. CASE TryBrace
    <3>1. from \in 0..Len(text) /\ step = "seeking"
      BY <2>6 DEF TryBrace, ScanInv
    <3>2. NextBrace \in (from + 1)..(Len(text) + 1)
      BY <2>1, <3>1, NextPositionIs, NextBraceIs
    <3>3. NextBrace \in Nat
      BY <3>1, <3>2
    <3>4. /\ from' = NextBrace /\ at' = NextBrace /\ depth' = 0 /\ step' = "scanning"
          /\ inString' = FALSE /\ escape' = FALSE
          /\ UNCHANGED <<text, flagged, retried, outcome>>
      BY <2>6 DEF TryBrace, GoTo
    <3>5. inString' \in BOOLEAN /\ escape' \in BOOLEAN
      BY <3>4, Zenon
    <3>6. /\ text' \in Seq(Tokens) /\ flagged' \in BOOLEAN /\ retried' \in BOOLEAN
          /\ outcome' \in {NoOutcome, Unreadable, ResultOf(said), ResultOf(Nothing)}
          /\ outcome' = NoOutcome
      BY <2>1, <3>1, <3>4
    <3>7. from' \in Nat /\ at' \in Nat /\ depth' \in Int
      BY <3>3, <3>4
    <3>8. QED
      BY <3>4, <3>5, <3>6, <3>7
  <2>7. CASE Scan
    <3>1. /\ step = "scanning" /\ at' = at + 1
          /\ UNCHANGED <<text, flagged, from, retried, outcome>>
      BY <2>7 DEF Scan, ScanEscaped, ScanBackslash, ScanQuote, ScanOther, ScanBrace, Scanning,
                  Advance
    <3>2. inString' \in BOOLEAN /\ escape' \in BOOLEAN
      BY <2>1, <2>7 DEF Scan, ScanEscaped, ScanBackslash, ScanQuote, ScanOther, ScanBrace
    <3>3. depth' \in Int /\ step' \in {"scanning", "found"}
      <4>1. CASE ScanBrace
        <5>1. depth' = depth + 1 \/ depth' = depth - 1
          BY <4>1, BraceStep
        <5>2. step' = "found" \/ step' = step
          BY <4>1, BraceStep
        <5>3. QED
          BY <2>1, <3>1, <5>1, <5>2
      <4>2. CASE ScanEscaped \/ ScanBackslash \/ ScanQuote \/ ScanOther
        BY <2>1, <3>1, <4>2 DEF ScanEscaped, ScanBackslash, ScanQuote, ScanOther
      <4>3. QED
        BY <2>7, <4>1, <4>2 DEF Scan
    <3>4. at' \in Nat
      BY <2>1, <3>1
    <3>5. QED
      BY <2>1, <3>1, <3>2, <3>3, <3>4
  <2>8. CASE Unbalanced
    <3>1. /\ step = "scanning" /\ step' = "seeking"
          /\ UNCHANGED <<text, from, at, depth, inString, escape, flagged, retried, outcome>>
      BY <2>8 DEF Unbalanced, GoTo, scanner
    <3>2. QED
      BY <2>1, <3>1
  <2>9. CASE Retry
    <3>1. text' \in Seq(Tokens)
      BY <2>1, <2>9, StrippedIsText DEF Retry
    <3>2. /\ step' = step /\ from' = 0 /\ retried' = TRUE
          /\ UNCHANGED <<at, depth, inString, escape, flagged, outcome>>
      BY <2>9 DEF Retry
    <3>3. QED
      BY <2>1, <3>1, <3>2
  <2>10. CASE GiveUp
    <3>1. /\ step' = "done" /\ outcome' = Unreadable
          /\ UNCHANGED <<text, from, at, depth, inString, escape, flagged, retried>>
      BY <2>10 DEF GiveUp, Return, GoTo, scanner
    <3>2. QED
      BY <2>1, <3>1, OutcomesDiffer
  <2>11. CASE UNCHANGED vars
    <3>1. UNCHANGED <<text, step, from, at, depth, inString, escape, flagged, retried, outcome>>
      BY <2>11 DEF vars, scanner
    <3>2. QED
      BY <2>1, <3>1
  <2>12. QED
    BY <2>3, <2>4, <2>5, <2>6, <2>7, <2>8, <2>9, <2>10, <2>11 DEF Next
<1>3. QED
  BY <1>1, <1>2, TextCorrect, ScanCorrect, PTL DEF Spec

=============================================================================
