-------------------------- MODULE InputSplitProofs --------------------------
(***************************************************************************)
(* Proofs about InputSplit for every input, configuration and prompt.      *)
(***************************************************************************)
EXTENDS InputSplit, WellFoundedInduction, SequenceTheorems, TLAPS

\* Min of a set of natural numbers is its least element.
LEMMA LeastExists ==
  ASSUME NEW S \in SUBSET Nat, S # {}
  PROVE  Min(S) \in S /\ \A y \in S : Min(S) <= y
<1>1. PICK x \in S : \A y \in S : ~(<<y, x>> \in OpToRel(<, Nat))
  BY NatLessThanWellFounded, WFMin
<1>2. \A y \in S : x <= y
  <2> SUFFICES ASSUME NEW y \in S, y < x
               PROVE  FALSE
    OBVIOUS
  <2>1. <<y, x>> \in OpToRel(<, Nat)
    BY DEF OpToRel
  <2>2. QED
    BY <2>1, <1>1
<1>3. QED
  BY <1>2 DEF Min

\* Max of a bounded set of natural numbers is its greatest element: the distance from the
\* bound has a least value.
LEMMA GreatestExists ==
  ASSUME NEW n \in Nat, NEW S \in SUBSET (0..n), S # {}
  PROVE  Max(S) \in S /\ \A y \in S : y <= Max(S)
<1> DEFINE T == {n - y : y \in S}
<1>1. T \in SUBSET Nat /\ T # {}
  <2>1. \A y \in S : n - y \in Nat
    OBVIOUS
  <2>2. QED
    BY <2>1
<1>2. Min(T) \in T /\ \A d \in T : Min(T) <= d
  BY <1>1, LeastExists
<1>3. PICK x \in S : Min(T) = n - x
  BY <1>2
<1>4. \A y \in S : x >= y
  <2> SUFFICES ASSUME NEW y \in S
               PROVE  x >= y
    OBVIOUS
  <2>1. n - x <= n - y
    BY <1>2, <1>3
  <2>2. QED
    BY <2>1
<1>5. \A y \in S : Max(S) >= y
  BY <1>4 DEF Max
<1>6. Max(S) \in S
  BY <1>4 DEF Max
<1>7. QED
  BY <1>5, <1>6

\* The smaller and the larger of two numbers.
LEMMA MinPair ==
  ASSUME NEW a \in Int, NEW b \in Int
  PROVE  Min({a, b}) = IF a <= b THEN a ELSE b
BY DEF Min

LEMMA MaxPair ==
  ASSUME NEW a \in Int, NEW b \in Int
  PROVE  Max({a, b}) = IF a >= b THEN a ELSE b
BY DEF Max

\* While input is left, the part that begins at `at' ends later and within the input.
LEMMA PartAhead ==
  ASSUME TypeOK, at < length
  PROVE  PartEnd \in (at + 1)..length
<1> DEFINE S == {e \in PartEnds : e > at}
<1>1. S \in SUBSET Nat /\ length \in S
  <2>1. length \in Nat
    BY InputSplitAssumption DEF TypeOK
  <2>2. markers \in SUBSET Nat
    BY <2>1 DEF TypeOK
  <2>3. PartEnds \subseteq markers \cup {length} /\ length \in PartEnds
    BY DEF PartEnds
  <2>4. QED
    BY <2>1, <2>2, <2>3
<1>2. Min(S) \in S
  BY <1>1, LeastExists
<1>3. \A e \in S : e \in (at + 1)..length
  BY DEF TypeOK, PartEnds
<1>4. QED
  BY <1>2, <1>3 DEF PartEnd

\* A chunk can always hold something.
LEMMA ChunkBytesPositive ==
  ASSUME NEW c \in Configs, NEW prompt \in Nat
  PROVE  /\ ChunkTokenBudget(c, prompt) \in Nat
         /\ ChunkBytes(c, prompt) \in Nat \ {0}
<1> USE InputSplitAssumption
<1>1. /\ c.context \in Nat /\ c.response \in Nat /\ c.bytes \in Nat
      /\ Reserve \in Nat /\ MinTokens \in Nat /\ MinBytes \in Nat \ {0} /\ TokenBytes \in Nat
  OBVIOUS
<1>2. ChunkTokenBudget(c, prompt) \in Nat
  BY <1>1, MaxPair DEF ChunkTokenBudget
<1>3. BytesForTokens(ChunkTokenBudget(c, prompt)) \in Nat
  BY <1>1, <1>2 DEF BytesForTokens
<1>4. Min({c.bytes, BytesForTokens(ChunkTokenBudget(c, prompt))}) \in Nat
  BY <1>1, <1>3, MinPair
<1>5. ChunkBytes(c, prompt) \in Nat \ {0}
  <2> DEFINE least == Min({c.bytes, BytesForTokens(ChunkTokenBudget(c, prompt))})
  <2>1. ChunkBytes(c, prompt) = Max({least, MinBytes})
    BY DEF ChunkBytes
  <2>2. least \in Nat
    BY <1>4
  <2> HIDE DEF least
  <2>3. QED
    BY <1>1, <2>1, <2>2, MaxPair
<1>6. QED
  BY <1>2, <1>5

\* The first state is of its type.
LEMMA TypeAtStart == Init => TypeOK
<1> SUFFICES ASSUME Init
             PROVE  TypeOK
  OBVIOUS
<1>1. maxBytes \in Nat \ {0}
  BY ChunkBytesPositive, InputSplitAssumption DEF Init
<1>2. length \in Nat /\ length >= 1
  BY InputSplitAssumption DEF Init
<1>3. chunks \in Seq((0..length) \X (0..length))
  BY DEF Init
<1>4. current \in (0..length) \X (0..length) /\ at \in 0..length
  BY <1>2 DEF Init
<1>5. QED
  BY <1>1, <1>3, <1>4 DEF Init, TypeOK

\* A step keeps it: no piece is taken from beyond the part it belongs to.
LEMMA TypeStep == TypeOK /\ [Next]_vars => TypeOK'
<1> SUFFICES ASSUME TypeOK, [Next]_vars
             PROVE  TypeOK'
  OBVIOUS
<1> USE DEF TypeOK, Input
<1>1. Flushed \in Seq((0..length) \X (0..length))
  BY AppendProperties DEF Flushed
<1>2. CASE Whole
  <2>1. <<0, length>> \in (0..length) \X (0..length)
    OBVIOUS
  <2>2. chunks' \in Seq((0..length) \X (0..length))
    BY <1>2, <2>1 DEF Whole
  <2>3. QED
    BY <1>2, <2>2 DEF Whole
<1>3. CASE TakeTooLarge
  <2>1. PartEnd \in (at + 1)..length
    BY <1>3, PartAhead DEF TakeTooLarge, InParts
  <2>2. QED
    BY <1>1, <1>3, <2>1 DEF TakeTooLarge
<1>4. CASE HardSplit
  <2> DEFINE to == Min({at + maxBytes, hardEnd})
  <2>1. hardEnd \in (at + 1)..length
    BY <1>4 DEF HardSplit
  <2>2. to \in (at + 1)..hardEnd
    <3>1. at \in Int /\ hardEnd \in Int /\ maxBytes \in Int /\ maxBytes >= 1 /\ hardEnd >= at + 1
      BY <2>1
    <3>2. at + maxBytes \in Int
      BY <3>1
    <3>3. to = IF at + maxBytes <= hardEnd THEN at + maxBytes ELSE hardEnd
      BY <3>1, <3>2, MinPair
    <3> HIDE DEF to
    <3>4. QED
      BY <3>1, <3>3
  <2>3. chunks' \in Seq((0..length) \X (0..length))
    BY <1>4, <2>1, <2>2, AppendProperties DEF HardSplit, Cut
  <2>4. hardEnd' = NoPart \/ hardEnd' \in (at' + 1)..length
    BY <1>4, <2>1, <2>2 DEF HardSplit, Cut
  <2>5. QED
    BY <1>4, <2>1, <2>2, <2>3, <2>4 DEF HardSplit, Cut
<1>5. CASE TakePart
  <2>1. PartEnd \in (at + 1)..length
    BY <1>5, PartAhead DEF TakePart, InParts
  <2>2. hardEnd' = NoPart
    BY <1>5 DEF TakePart, InParts
  <2>3. current' \in (0..length) \X (0..length)
    BY <1>5, <2>1 DEF TakePart
  <2>4. QED
    BY <1>1, <1>5, <2>1, <2>2, <2>3 DEF TakePart
<1>6. CASE Finish
  BY <1>1, <1>6 DEF Finish
<1>7. CASE UNCHANGED vars
  BY <1>7 DEF vars
<1>8. QED
  BY <1>2, <1>3, <1>4, <1>5, <1>6, <1>7 DEF Next

\* No piece is taken from beyond the part it belongs to, nor put beyond the input.
THEOREM TypeCorrect == Spec => []TypeOK
BY TypeAtStart, TypeStep, PTL DEF Spec

----------------------------------------------------------------------------
(* Limits *)

\* The chunk that is being filled ends where the input is dealt with up to, and it is
\* itself within the limit: what makes ChunksFit inductive, as it becomes a chunk.
FitInv ==
  /\ TypeOK
  /\ current[2] = at
  /\ Size(current) \in 0..maxBytes
  /\ ChunksFit

\* A piece within the limit can be added.
LEMMA AppendFits ==
  ASSUME NEW X, NEW s \in Seq(X), NEW p, NEW limit,
         \A i \in DOMAIN s : Size(s[i]) \in 1..limit,
         Size(p) \in 1..limit
  PROVE  \A i \in DOMAIN Append(s, p) : Size(Append(s, p)[i]) \in 1..limit
<1> SUFFICES ASSUME NEW i \in DOMAIN Append(s, p)
             PROVE  Size(Append(s, p)[i]) \in 1..limit
  OBVIOUS
<1>1. CASE i = Len(s) + 1
  <2>1. Append(s, p)[i] = p
    BY <1>1
  <2>2. QED
    BY <2>1
<1>2. CASE i # Len(s) + 1
  <2>1. i \in DOMAIN s /\ Append(s, p)[i] = s[i]
    BY <1>2
  <2>2. QED
    BY <2>1
<1>3. QED
  BY <1>1, <1>2

\* The inductive invariant behind ChunksFit: hardSplit and the filling of a chunk stop at
\* the limit, and neither leaves an empty chunk.
THEOREM FitInvariant == Spec => []FitInv
<1>1. Init => FitInv
  <2> SUFFICES ASSUME Init, TypeOK
               PROVE  FitInv
    BY TypeAtStart
  <2>1. Size(current) = 0 /\ current[2] = at /\ chunks = << >>
    BY DEF Init, Size
  <2>2. QED
    BY <2>1 DEF FitInv, TypeOK, ChunksFit
<1>2. FitInv /\ [Next]_vars => FitInv'
  <2> SUFFICES ASSUME FitInv, [Next]_vars, TypeOK'
               PROVE  FitInv'
    BY TypeStep DEF FitInv
  <2>1. /\ TypeOK /\ ChunksFit /\ current[2] = at /\ Size(current) \in 0..maxBytes
        /\ length \in Nat /\ length >= 1 /\ at \in Nat /\ maxBytes \in Nat /\ maxBytes >= 1
        /\ current[1] \in Nat /\ Size(current) = at - current[1]
    BY InputSplitAssumption DEF FitInv, TypeOK, Size
  <2> SUFFICES /\ current'[2] = at'
               /\ Size(current)' \in 0..maxBytes'
               /\ ChunksFit'
    BY DEF FitInv
  <2>2. \A i \in DOMAIN Flushed : Size(Flushed[i]) \in 1..maxBytes
    <3>1. CASE Size(current) > 0
      <4>1. Size(current) \in 1..maxBytes
        BY <2>1, <3>1
      <4>2. chunks \in Seq((0..length) \X (0..length))
        BY <2>1 DEF TypeOK
      <4>3. \A i \in DOMAIN Append(chunks, current) :
              Size(Append(chunks, current)[i]) \in 1..maxBytes
        BY <2>1, <4>1, <4>2, AppendFits DEF ChunksFit
      <4>4. QED
        BY <3>1, <4>3 DEF Flushed
    <3>2. QED
      BY <2>1, <3>1 DEF Flushed, ChunksFit
  <2>3. CASE Whole
    <3>1. /\ maxBytes' = maxBytes /\ chunks' = << <<0, length>> >>
          /\ current' = current /\ at' = at
      BY <2>3 DEF Whole, Input
    <3>2. DOMAIN chunks' = {1} /\ Size(chunks'[1]) \in 1..maxBytes
      BY <2>1, <2>3, <3>1 DEF Whole, Size
    <3>3. QED
      BY <2>1, <3>1, <3>2 DEF ChunksFit, Size
  <2>4. CASE TakeTooLarge
    <3>1. /\ maxBytes' = maxBytes /\ chunks' = Flushed
          /\ current' = <<at, at>> /\ at' = at
      BY <2>4 DEF TakeTooLarge, Input
    <3>2. Size(current)' = 0 /\ current'[2] = at'
      BY <2>1, <3>1 DEF Size
    <3>3. QED
      BY <2>1, <2>2, <3>1, <3>2 DEF ChunksFit, Size
  <2>5. CASE HardSplit
    <3> DEFINE to == Min({at + maxBytes, hardEnd})
    <3>1. hardEnd \in (at + 1)..length
      BY <2>1, <2>5 DEF HardSplit, TypeOK
    <3>2. to \in (at + 1)..(at + maxBytes)
      <4>1. /\ at + maxBytes \in Int /\ hardEnd \in Int /\ at + maxBytes >= at + 1
            /\ hardEnd >= at + 1
        BY <2>1, <3>1
      <4>2. to = IF at + maxBytes <= hardEnd THEN at + maxBytes ELSE hardEnd
        BY <4>1, MinPair
      <4> HIDE DEF to
      <4>3. QED
        BY <2>1, <4>1, <4>2
    <3>3. /\ maxBytes' = maxBytes /\ chunks' = Append(chunks, <<at, to>>)
          /\ current' = <<to, to>> /\ at' = to
      BY <2>5 DEF HardSplit, Cut, Input
    <3> HIDE DEF to
    <3>4. Size(<<at, to>>) \in 1..maxBytes
      BY <2>1, <3>2 DEF Size
    <3>5. chunks \in Seq((0..length) \X (0..length))
      BY <2>1 DEF TypeOK
    <3>6. \A i \in DOMAIN chunks' : Size(chunks'[i]) \in 1..maxBytes
      BY <2>1, <3>3, <3>4, <3>5, AppendFits DEF ChunksFit
    <3>7. Size(current)' = 0 /\ current'[2] = at'
      BY <2>1, <3>2, <3>3 DEF Size
    <3>8. QED
      BY <2>1, <3>3, <3>6, <3>7 DEF ChunksFit, Size
  <2>6. CASE TakePart
    <3>1. PartEnd \in (at + 1)..length
      BY <2>1, <2>6, PartAhead DEF TakePart, InParts
    <3>2. maxBytes' = maxBytes /\ at' = PartEnd /\ PartEnd - at <= maxBytes
      BY <2>6 DEF TakePart, Input
    <3>3. CASE Fits /\ current' = <<current[1], PartEnd>> /\ UNCHANGED chunks
      <4>1. Size(current)' = Size(current) + PartEnd - at /\ current'[2] = at'
        BY <2>1, <3>1, <3>2, <3>3 DEF Size
      <4>2. Size(current)' \in 0..maxBytes'
        BY <2>1, <3>1, <3>2, <3>3, <4>1 DEF Fits
      <4>3. QED
        BY <2>1, <3>2, <3>3, <4>1, <4>2 DEF ChunksFit, Size
    <3>4. CASE ~Fits /\ chunks' = Flushed /\ current' = <<at, PartEnd>>
      <4>1. Size(current)' = PartEnd - at /\ current'[2] = at'
        BY <3>1, <3>2, <3>4 DEF Size
      <4>2. Size(current)' \in 0..maxBytes'
        BY <2>1, <3>1, <3>2, <4>1
      <4>3. QED
        BY <2>2, <3>2, <3>4, <4>1, <4>2 DEF ChunksFit, Size
    <3>5. QED
      BY <2>6, <3>3, <3>4 DEF TakePart
  <2>7. CASE Finish
    <3>1. /\ maxBytes' = maxBytes /\ chunks' = Flushed
          /\ current' = <<length, length>> /\ at' = at /\ at = length
      BY <2>7 DEF Finish, Input
    <3>2. Size(current)' = 0 /\ current'[2] = at'
      BY <2>1, <3>1 DEF Size
    <3>3. QED
      BY <2>1, <2>2, <3>1, <3>2 DEF ChunksFit, Size
  <2>8. CASE UNCHANGED vars
    BY <2>1, <2>8 DEF vars, Input, ChunksFit, Size
  <2>9. QED
    BY <2>3, <2>4, <2>5, <2>6, <2>7, <2>8 DEF Next
<1>3. QED
  BY <1>1, <1>2, PTL DEF Spec

\* No chunk is larger than the limit or empty, for every input, every place a file may
\* begin and every configuration.
THEOREM EveryChunkFits == Spec => []ChunksFit
<1>1. FitInv => ChunksFit
  BY DEF FitInv
<1>2. QED
  BY <1>1, FitInvariant, PTL

----------------------------------------------------------------------------
(* The model's context *)

\* A rounded-up estimate stays within a budget that the bytes stay within.
LEMMA EstimateWithin ==
  ASSUME NEW bytes \in Nat, NEW tokens \in Nat, bytes <= BytesForTokens(tokens)
  PROVE  EstimateTokens(bytes) \in Nat /\ EstimateTokens(bytes) <= tokens
<1> DEFINE n == bytes + TokenBytes - 1
<1>1. TokenBytes \in Nat /\ TokenBytes > 0
  BY InputSplitAssumption
<1>2. n \in Nat /\ n < tokens * TokenBytes + TokenBytes
  BY <1>1 DEF BytesForTokens
<1>3. n < (tokens + 1) * TokenBytes
  BY <1>1, <1>2, SMTT(30)
<1>4. n \div TokenBytes \in Nat /\ (n \div TokenBytes) * TokenBytes <= n
  BY <1>1, <1>2, SMTT(30)
<1>5. QED
  BY <1>1, <1>2, <1>3, <1>4, SMTT(30) DEF EstimateTokens

\* Where the context has room for the least chunk, a chunk's tokens and the prompt's fill
\* at most what the response and the reserve leave: the least size, which could exceed
\* the budget, is no more than the least budget.
LEMMA ChunkBytesWithin ==
  ASSUME NEW c \in Configs, NEW prompt \in Nat,
         c.context - c.response - Reserve - prompt >= MinTokens
  PROVE  /\ c.context - c.response - Reserve - prompt \in Nat
         /\ ChunkBytes(c, prompt) <= BytesForTokens(c.context - c.response - Reserve - prompt)
<1> DEFINE room == c.context - c.response - Reserve - prompt
<1>1. /\ c.context \in Nat /\ c.response \in Nat /\ c.bytes \in Nat
      /\ Reserve \in Nat /\ MinTokens \in Nat /\ MinBytes \in Nat \ {0} /\ TokenBytes \in Nat
      /\ MinBytes <= MinTokens * TokenBytes
  BY InputSplitAssumption
<1>2. room \in Nat /\ room >= MinTokens
  BY <1>1
<1>3. Max({c.context - c.response - Reserve, MinTokens}) = c.context - c.response - Reserve
  BY <1>1, <1>2, MaxPair
<1>4. Max({room, MinTokens}) = room
  BY <1>1, <1>2, MaxPair
<1>5. ChunkTokenBudget(c, prompt) = room
  BY <1>3, <1>4 DEF ChunkTokenBudget
<1>6. BytesForTokens(room) \in Nat /\ MinBytes <= BytesForTokens(room)
  <2> HIDE DEF room
  <2>1. MinTokens * TokenBytes <= room * TokenBytes /\ room * TokenBytes \in Nat
    BY <1>1, <1>2, SMTT(30)
  <2>2. MinTokens * TokenBytes \in Nat
    BY <1>1
  <2>3. QED
    BY <1>1, <2>1, <2>2 DEF BytesForTokens
<1>7. Min({c.bytes, BytesForTokens(room)}) \in Nat
      /\ Min({c.bytes, BytesForTokens(room)}) <= BytesForTokens(room)
  BY <1>1, <1>6, MinPair
<1>8. Max({Min({c.bytes, BytesForTokens(room)}), MinBytes}) <= BytesForTokens(room)
  <2> DEFINE least == Min({c.bytes, BytesForTokens(room)})
             bound == BytesForTokens(room)
  <2>1. least \in Nat /\ bound \in Nat /\ least <= bound /\ MinBytes <= bound
    BY <1>6, <1>7
  <2> HIDE DEF least, bound
  <2>2. Max({least, MinBytes}) <= bound
    BY <1>1, <2>1, MaxPair
  <2>3. QED
    BY <2>2 DEF least, bound
<1>9. ChunkBytes(c, prompt) <= BytesForTokens(room)
  BY <1>5, <1>8 DEF ChunkBytes
<1>10. QED
  BY <1>2, <1>9

\* The plan is made once, before the input is split.
LEMMA PlanKept == Spec => [](maxBytes = ChunkBytes(config, overhead))
<1>1. Init => maxBytes = ChunkBytes(config, overhead)
  BY DEF Init
<1>2. maxBytes = ChunkBytes(config, overhead) /\ [Next]_vars
        => (maxBytes = ChunkBytes(config, overhead))'
  <2> SUFFICES ASSUME maxBytes = ChunkBytes(config, overhead), [Next]_vars
               PROVE  (maxBytes = ChunkBytes(config, overhead))'
    OBVIOUS
  <2>1. UNCHANGED <<config, overhead, maxBytes>>
    BY DEF Next, vars, Whole, TakeTooLarge, HardSplit, Cut, TakePart, Finish, Input
  <2>2. QED
    BY <2>1 DEF ChunkBytes, ChunkTokenBudget, BytesForTokens
<1>3. QED
  BY <1>1, <1>2, PTL DEF Spec

\* A request for a chunk fits the context, for every configuration and length of prompt
\* that leave room for the least chunk.
THEOREM EveryRequestFits == Spec => []RequestFitsContext
<1>1. FitInv /\ maxBytes = ChunkBytes(config, overhead) => RequestFitsContext
  <2> SUFFICES ASSUME FitInv, maxBytes = ChunkBytes(config, overhead),
                      config.context - config.response - Reserve - overhead >= MinTokens,
                      NEW i \in DOMAIN chunks
               PROVE  EstimateTokens(Size(chunks[i])) + overhead + config.response + Reserve
                        <= config.context
    BY DEF RequestFitsContext
  <2> DEFINE room == config.context - config.response - Reserve - overhead
  <2>1. /\ config \in Configs /\ overhead \in Nat /\ Reserve \in Nat
        /\ config.context \in Nat /\ config.response \in Nat
        /\ maxBytes \in Nat
    BY InputSplitAssumption DEF FitInv, TypeOK
  <2>2. room \in Nat /\ maxBytes <= BytesForTokens(room)
    BY <2>1, ChunkBytesWithin
  <2>3. Size(chunks[i]) \in Nat /\ Size(chunks[i]) <= maxBytes
    BY <2>1 DEF FitInv, ChunksFit
  <2>4. BytesForTokens(room) \in Int
    BY <2>2, InputSplitAssumption DEF BytesForTokens
  <2>5. EstimateTokens(Size(chunks[i])) \in Nat /\ EstimateTokens(Size(chunks[i])) <= room
    <3> HIDE DEF room
    <3>1. Size(chunks[i]) <= BytesForTokens(room)
      BY <2>1, <2>2, <2>3, <2>4
    <3>2. QED
      BY <2>2, <2>3, <3>1, EstimateWithin
  <2>6. QED
    BY <2>1, <2>5
<1>2. QED
  BY <1>1, FitInvariant, PlanKept, PTL

----------------------------------------------------------------------------
(* Completeness *)

\* The finished chunks reach to where the one that is being filled begins, which is
\* empty while a file is being cut up and after the end.
CoverInv ==
  /\ TypeOK
  /\ Covers(chunks, IF done THEN length ELSE current[1])
  /\ current[2] = at /\ current[1] <= at
  /\ done => hardEnd = NoPart /\ current[1] = at
  /\ hardEnd # NoPart => current[1] = at /\ length > maxBytes

\* A piece that begins where the pieces end continues them.
LEMMA AppendCovers ==
  ASSUME NEW X, NEW s \in Seq(X), NEW from, NEW to, Covers(s, from)
  PROVE  Covers(Append(s, <<from, to>>), to)
<1> DEFINE t == Append(s, <<from, to>>)
<1>1. /\ Len(s) \in Nat /\ Len(t) = Len(s) + 1 /\ t # << >>
      /\ t[Len(s) + 1] = <<from, to>>
      /\ \A i \in 1..Len(s) : t[i] = s[i]
  OBVIOUS
<1> HIDE DEF t
<1>2. t[Len(t)][2] = to
  BY <1>1
<1>3. t[1][1] = 0
  <2>1. CASE s = << >>
    BY <1>1, <2>1 DEF Covers
  <2>2. CASE s # << >>
    <3>1. Len(s) >= 1
      BY <2>2
    <3>2. QED
      BY <1>1, <2>2, <3>1 DEF Covers
  <2>3. QED
    BY <2>1, <2>2
<1>4. \A i \in 2..Len(t) : t[i][1] = t[i - 1][2]
  <2> SUFFICES ASSUME NEW i \in 2..Len(t)
               PROVE  t[i][1] = t[i - 1][2]
    OBVIOUS
  <2>1. CASE i <= Len(s)
    <3>1. i \in 2..Len(s) /\ i \in 1..Len(s) /\ i - 1 \in 1..Len(s)
      BY <1>1, <2>1
    <3>2. QED
      BY <1>1, <3>1 DEF Covers
  <2>2. CASE i = Len(s) + 1
    <3>1. s # << >> /\ Len(s) \in 1..Len(s) /\ i - 1 = Len(s)
      BY <1>1, <2>2
    <3>2. s[Len(s)][2] = from
      BY <3>1 DEF Covers
    <3>3. QED
      BY <1>1, <2>2, <3>1, <3>2
  <2>3. QED
    BY <1>1, <2>1, <2>2
<1>5. Covers(t, to)
  BY <1>1, <1>2, <1>3, <1>4 DEF Covers
<1>6. QED
  BY <1>5 DEF t

\* Ending the chunk that is being filled loses nothing and adds no gap.
LEMMA FlushCovers ==
  ASSUME CoverInv
  PROVE  Covers(Flushed, IF done THEN length ELSE at)
<1>1. /\ chunks \in Seq((0..length) \X (0..length))
      /\ current = <<current[1], at>> /\ current[1] \in Int /\ at \in Int
      /\ current[1] <= at
  BY InputSplitAssumption DEF CoverInv, TypeOK
<1>2. CASE Size(current) > 0
  <2>1. ~done
    BY <1>1, <1>2 DEF CoverInv, Size
  <2>2. Covers(chunks, current[1])
    BY <2>1 DEF CoverInv
  <2>3. Covers(Append(chunks, <<current[1], at>>), at)
    BY <1>1, <2>2, AppendCovers
  <2>4. QED
    BY <1>1, <1>2, <2>1, <2>3 DEF Flushed
<1>3. CASE ~(Size(current) > 0)
  <2>1. current[1] = at
    BY <1>1, <1>3 DEF Size, CoverInv
  <2>2. QED
    BY <1>3, <2>1 DEF Flushed, CoverInv
<1>4. QED
  BY <1>2, <1>3

\* The inductive invariant behind NothingLost.
THEOREM CoverInvariant == Spec => []CoverInv
<1>1. Init => CoverInv
  <2> SUFFICES ASSUME Init, TypeOK
               PROVE  CoverInv
    BY TypeAtStart
  <2>1. Covers(chunks, 0)
    BY DEF Init, Covers
  <2>2. /\ current[1] = 0 /\ current[2] = 0 /\ at = 0 /\ ~done /\ hardEnd = NoPart
    BY DEF Init
  <2>3. QED
    BY <2>1, <2>2 DEF CoverInv
<1>2. CoverInv /\ [Next]_vars => CoverInv'
  <2> SUFFICES ASSUME CoverInv, [Next]_vars, TypeOK'
               PROVE  CoverInv'
    BY TypeStep DEF CoverInv
  <2>1. /\ TypeOK /\ length \in Nat /\ length >= 1 /\ at \in Nat /\ maxBytes \in Nat
        /\ current[2] = at /\ current[1] <= at /\ current[1] \in Nat
        /\ done \in BOOLEAN
        /\ done => hardEnd = NoPart /\ current[1] = at
        /\ hardEnd # NoPart => current[1] = at /\ length > maxBytes
    BY InputSplitAssumption DEF CoverInv, TypeOK
  <2>2. Covers(Flushed, IF done THEN length ELSE at)
    BY FlushCovers
  <2>3. CASE Whole
    <3>1. /\ chunks' = << <<0, length>> >> /\ done' = TRUE /\ length' = length
          /\ maxBytes' = maxBytes /\ current' = current /\ at' = at /\ hardEnd' = hardEnd
          /\ ~done /\ at = 0 /\ length <= maxBytes
      BY <2>3 DEF Whole, Input
    <3>2. Covers(chunks', length)
      BY <2>1, <3>1 DEF Covers
    <3>3. hardEnd = NoPart /\ current[1] = at
      BY <2>1, <3>1
    <3>4. QED
      BY <2>1, <3>1, <3>2, <3>3 DEF CoverInv, Covers
  <2>4. CASE TakeTooLarge
    <3>1. /\ chunks' = Flushed /\ done' = done /\ length' = length /\ maxBytes' = maxBytes
          /\ current' = <<at, at>> /\ at' = at
          /\ ~done /\ length > maxBytes
      BY <2>4 DEF TakeTooLarge, InParts, Input
    <3>2. Covers(chunks', at)
      BY <2>2, <3>1
    <3>3. QED
      BY <2>1, <3>1, <3>2 DEF CoverInv, Covers
  <2>5. CASE HardSplit
    <3> DEFINE to == Min({at + maxBytes, hardEnd})
    <3>1. /\ chunks' = Append(chunks, <<at, to>>) /\ done' = done /\ length' = length
          /\ maxBytes' = maxBytes /\ current' = <<to, to>> /\ at' = to
          /\ hardEnd # NoPart
          /\ hardEnd' # NoPart => hardEnd' = hardEnd
      BY <2>5 DEF HardSplit, Cut, Input
    <3>2. to \in Int
      BY <3>1 DEF TypeOK
    <3> HIDE DEF to
    <3>3. ~done /\ current[1] = at /\ length > maxBytes
      BY <2>1, <3>1
    <3>4. Covers(chunks, at) /\ chunks \in Seq((0..length) \X (0..length))
      BY <3>3 DEF CoverInv, TypeOK
    <3>5. Covers(chunks', to)
      BY <3>1, <3>4, AppendCovers
    <3>6. QED
      BY <3>1, <3>2, <3>3, <3>5 DEF CoverInv, Covers
  <2>6. CASE TakePart
    <3>1. PartEnd \in (at + 1)..length
      BY <2>1, <2>6, PartAhead DEF TakePart, InParts
    <3>2. /\ done' = done /\ length' = length /\ maxBytes' = maxBytes /\ at' = PartEnd
          /\ ~done /\ hardEnd = NoPart /\ hardEnd' = hardEnd
      BY <2>6 DEF TakePart, InParts, Input
    <3>3. CASE current' = <<current[1], PartEnd>> /\ UNCHANGED chunks
      <4>1. Covers(chunks, current[1])
        BY <3>2 DEF CoverInv
      <4>2. QED
        BY <2>1, <3>1, <3>2, <3>3, <4>1 DEF CoverInv, Covers
    <3>4. CASE chunks' = Flushed /\ current' = <<at, PartEnd>>
      <4>1. Covers(chunks', at)
        BY <2>2, <3>2, <3>4
      <4>2. QED
        BY <2>1, <3>1, <3>2, <3>4, <4>1 DEF CoverInv, Covers
    <3>5. QED
      BY <2>6, <3>3, <3>4 DEF TakePart
  <2>7. CASE Finish
    <3>1. /\ chunks' = Flushed /\ done' = TRUE /\ length' = length /\ maxBytes' = maxBytes
          /\ current' = <<length, length>> /\ at' = at /\ hardEnd' = hardEnd
          /\ ~done /\ at = length /\ hardEnd = NoPart
      BY <2>7 DEF Finish, Input
    <3>2. Covers(chunks', length)
      BY <2>2, <3>1
    <3>3. QED
      BY <2>1, <3>1, <3>2 DEF CoverInv, Covers
  <2>8. CASE UNCHANGED vars
    BY <2>8 DEF vars, CoverInv, Covers
  <2>9. QED
    BY <2>3, <2>4, <2>5, <2>6, <2>7, <2>8 DEF Next
<1>3. QED
  BY <1>1, <1>2, PTL DEF Spec

\* No byte of the input is lost, repeated or moved, for every input.
THEOREM InputComplete == Spec => []NothingLost
<1>1. CoverInv => NothingLost
  BY FlushCovers DEF NothingLost
<1>2. QED
  BY <1>1, CoverInvariant, PTL

----------------------------------------------------------------------------
(* Where chunks end *)

\* The greatest and the least element of a set of integers, when one is known.
LEMMA MaxIs ==
  ASSUME NEW S \in SUBSET Int, NEW m \in S, \A y \in S : y <= m
  PROVE  Max(S) = m
<1> DEFINE g == Max(S)
<1>1. \A y \in S : m >= y
  OBVIOUS
<1>2. g \in S /\ \A y \in S : g >= y
  BY <1>1 DEF Max
<1> HIDE DEF g
<1>3. g \in Int /\ m \in Int /\ g >= m /\ g <= m
  BY <1>2
<1>4. g = m
  BY <1>3
<1>5. QED
  BY <1>4 DEF g

LEMMA MinIs ==
  ASSUME NEW S \in SUBSET Int, NEW m \in S, \A y \in S : m <= y
  PROVE  Min(S) = m
<1> DEFINE l == Min(S)
<1>1. l \in S /\ \A y \in S : l <= y
  BY DEF Min
<1> HIDE DEF l
<1>2. l \in Int /\ m \in Int /\ l <= m /\ m <= l
  BY <1>1
<1>3. l = m
  BY <1>2
<1>4. QED
  BY <1>3 DEF l

\* The offsets where parts begin and end.
Edges == PartEnds \cup {0}

\* What lies between two offsets is one part of the input.
IsPart(begin, end) ==
  /\ begin \in Edges /\ end \in PartEnds /\ begin < end
  /\ \A e \in PartEnds : e > begin => e >= end

\* A part no chunk could hold.
IsTooLarge(begin, end) == IsPart(begin, end) /\ end - begin > maxBytes

\* An offset where a chunk may end: the end of a part, or inside of one that no chunk
\* could hold.
MayEnd(offset) ==
  \/ offset \in PartEnds
  \/ \E begin \in 0..(offset - 1), end \in (offset + 1)..length : IsTooLarge(begin, end)

\* What makes FilesStayWhole inductive: input is dealt with up to the edge of a part, or
\* the part that is being cut up is one that no chunk could hold.
WholeInv ==
  /\ TypeOK
  /\ current[2] = at
  /\ hardEnd = NoPart => at \in Edges
  /\ hardEnd # NoPart => \E begin \in 0..at : IsTooLarge(begin, hardEnd)
  /\ \A i \in DOMAIN chunks : MayEnd(chunks[i][2])

\* Parts end within the input, after its beginning.
LEMMA EdgesInInput ==
  ASSUME TypeOK
  PROVE  /\ length \in Nat /\ length >= 1 /\ length \in PartEnds
         /\ PartEnds \subseteq 1..length
         /\ Edges \subseteq 0..length
<1>1. length \in Nat /\ length >= 1
  BY InputSplitAssumption DEF TypeOK
<1>2. markers \subseteq 0..(length - 1)
  BY DEF TypeOK
<1>3. PartEnds \subseteq 1..length
  <2> SUFFICES ASSUME NEW e \in PartEnds
               PROVE  e \in 1..length
    OBVIOUS
  <2>1. CASE e = length
    BY <1>1, <2>1
  <2>2. CASE e # length
    <3>1. e \in markers /\ \E first \in markers : first < e
      BY <2>2 DEF PartEnds
    <3>2. QED
      BY <1>1, <1>2, <3>1
  <2>3. QED
    BY <2>1, <2>2
<1>4. length \in PartEnds
  BY DEF PartEnds
<1>5. QED
  BY <1>1, <1>3, <1>4 DEF Edges

\* What the code takes next, from the edge of a part, is one part.
LEMMA NextPart ==
  ASSUME TypeOK, at < length, at \in Edges
  PROVE  PartEnd \in (at + 1)..length /\ IsPart(at, PartEnd)
<1> DEFINE S == {e \in PartEnds : e > at}
<1>1. PartEnd \in (at + 1)..length
  BY PartAhead
<1>2. /\ PartEnds \subseteq 1..length /\ length \in PartEnds /\ length \in Nat
      /\ at \in Nat
  BY EdgesInInput DEF TypeOK
<1>3. S \in SUBSET Nat /\ length \in S
  <2>1. \A e \in PartEnds : e \in Nat
    BY <1>2
  <2>2. length > at
    BY <1>2
  <2>3. QED
    BY <1>2, <2>1, <2>2
<1>4. Min(S) \in S /\ \A e \in S : Min(S) <= e
  BY <1>3, LeastExists
<1>5. PartEnd \in PartEnds /\ \A e \in PartEnds : e > at => PartEnd <= e
  BY <1>4 DEF PartEnd
<1>6. \A e \in PartEnds : e > at => e >= PartEnd
  BY <1>1, <1>2, <1>5
<1>7. QED
  BY <1>1, <1>2, <1>5, <1>6 DEF IsPart

\* Nothing of the input changes while it is split.
LEMMA InputKept ==
  ASSUME [Next]_vars
  PROVE  /\ length' = length /\ markers' = markers /\ maxBytes' = maxBytes
         /\ PartEnds' = PartEnds /\ Edges' = Edges
         /\ \A b, e : (IsPart(b, e)' <=> IsPart(b, e)) /\ (IsTooLarge(b, e)' <=> IsTooLarge(b, e))
         /\ \A o : MayEnd(o)' <=> MayEnd(o)
<1>1. UNCHANGED <<length, markers, maxBytes>>
  BY DEF Next, vars, Whole, TakeTooLarge, HardSplit, Cut, TakePart, Finish, Input
<1>2. PartEnds' = PartEnds /\ Edges' = Edges
  BY <1>1 DEF PartEnds, Edges
<1>3. \A b, e : (IsPart(b, e)' <=> IsPart(b, e)) /\ (IsTooLarge(b, e)' <=> IsTooLarge(b, e))
  BY <1>1, <1>2 DEF IsPart, IsTooLarge
<1>4. \A o : MayEnd(o)' <=> MayEnd(o)
  BY <1>1, <1>2 DEF MayEnd, IsTooLarge, IsPart
<1>5. QED
  BY <1>1, <1>2, <1>3, <1>4

\* A chunk that may end where it does can be added.
LEMMA AppendMayEnd ==
  ASSUME NEW X, NEW s \in Seq(X), NEW p,
         \A i \in DOMAIN s : MayEnd(s[i][2]), MayEnd(p[2])
  PROVE  \A i \in DOMAIN Append(s, p) : MayEnd(Append(s, p)[i][2])
<1> SUFFICES ASSUME NEW i \in DOMAIN Append(s, p)
             PROVE  MayEnd(Append(s, p)[i][2])
  OBVIOUS
<1>1. CASE i = Len(s) + 1
  <2>1. Append(s, p)[i] = p
    BY <1>1
  <2>2. QED
    BY <2>1
<1>2. CASE i # Len(s) + 1
  <2>1. i \in DOMAIN s /\ Append(s, p)[i] = s[i]
    BY <1>2
  <2>2. QED
    BY <2>1
<1>3. QED
  BY <1>1, <1>2

\* The chunk that is being filled ends at the end of a part, when no part is being cut
\* up and there is anything in it.
LEMMA FlushMayEnd ==
  ASSUME WholeInv, hardEnd = NoPart
  PROVE  \A i \in DOMAIN Flushed : MayEnd(Flushed[i][2])
<1>1. CASE Size(current) > 0
  <2>1. current[1] \in Nat /\ at \in Nat /\ at > 0
    BY <1>1, EdgesInInput DEF WholeInv, TypeOK, Size
  <2>2. at \in PartEnds
    BY <2>1 DEF WholeInv, Edges
  <2>3. MayEnd(current[2])
    BY <2>2 DEF WholeInv, MayEnd
  <2>4. chunks \in Seq((0..length) \X (0..length))
    BY DEF WholeInv, TypeOK
  <2>5. \A i \in DOMAIN chunks : MayEnd(chunks[i][2])
    BY DEF WholeInv
  <2>6. \A i \in DOMAIN Append(chunks, current) : MayEnd(Append(chunks, current)[i][2])
    BY <2>3, <2>4, <2>5, AppendMayEnd
  <2>7. QED
    BY <1>1, <2>6 DEF Flushed
<1>2. CASE ~(Size(current) > 0)
  BY <1>2 DEF Flushed, WholeInv
<1>3. QED
  BY <1>1, <1>2

\* A piece that hardSplit takes ends inside of the part or at its end.
LEMMA CutWithin ==
  ASSUME TypeOK, hardEnd # NoPart
  PROVE  Min({at + maxBytes, hardEnd}) \in (at + 1)..hardEnd
<1>1. /\ at \in Nat /\ maxBytes \in Nat /\ maxBytes >= 1 /\ hardEnd \in Int
      /\ hardEnd >= at + 1
  BY EdgesInInput DEF TypeOK
<1>2. Min({at + maxBytes, hardEnd}) =
        IF at + maxBytes <= hardEnd THEN at + maxBytes ELSE hardEnd
  BY <1>1, MinPair
<1>3. QED
  BY <1>1, <1>2

\* A step leaves it so, and the chunks it adds end where they may.
LEMMA WholeStep == WholeInv /\ [Next]_vars => WholeInv'
<1> SUFFICES ASSUME WholeInv, [Next]_vars, TypeOK'
             PROVE  WholeInv'
  BY TypeStep DEF WholeInv
<1>1. /\ TypeOK /\ current[2] = at /\ at \in Nat /\ maxBytes \in Nat /\ maxBytes >= 1
      /\ length \in Nat /\ length >= 1 /\ length \in PartEnds
      /\ PartEnds \subseteq 1..length
  BY EdgesInInput DEF WholeInv, TypeOK
<1>2. /\ length' = length /\ maxBytes' = maxBytes
      /\ PartEnds' = PartEnds /\ Edges' = Edges
      /\ \A b, e : IsTooLarge(b, e)' <=> IsTooLarge(b, e)
      /\ \A o : MayEnd(o)' <=> MayEnd(o)
  BY InputKept
<1> SUFFICES /\ current'[2] = at'
             /\ hardEnd' = NoPart => at' \in Edges
             /\ hardEnd' # NoPart => \E begin \in 0..at' : IsTooLarge(begin, hardEnd')
             /\ \A i \in DOMAIN chunks' : MayEnd(chunks'[i][2])
  BY <1>2 DEF WholeInv
<1>3. CASE Whole
  <2>1. /\ chunks' = << <<0, length>> >> /\ current' = current /\ at' = at
        /\ hardEnd' = hardEnd
    BY <1>3 DEF Whole
  <2>2. \A i \in DOMAIN chunks' : MayEnd(chunks'[i][2])
    BY <1>1, <2>1 DEF MayEnd
  <2>3. QED
    BY <1>1, <2>1, <2>2 DEF WholeInv
<1>4. CASE TakeTooLarge
  <2>1. /\ chunks' = Flushed /\ current' = <<at, at>> /\ at' = at /\ hardEnd' = PartEnd
        /\ hardEnd = NoPart /\ at < length /\ PartEnd - at > maxBytes
    BY <1>4 DEF TakeTooLarge, InParts
  <2>2. at \in Edges
    BY <2>1 DEF WholeInv
  <2>3. IsTooLarge(at, PartEnd) /\ PartEnd # NoPart
    BY <1>1, <2>1, <2>2, NextPart DEF IsTooLarge, NoPart
  <2>4. at \in 0..at'
    BY <1>1, <2>1
  <2>5. \A i \in DOMAIN chunks' : MayEnd(chunks'[i][2])
    BY <2>1, FlushMayEnd
  <2>6. QED
    BY <2>1, <2>3, <2>4, <2>5
<1>5. CASE HardSplit
  <2> DEFINE to == Min({at + maxBytes, hardEnd})
  <2>1. /\ hardEnd # NoPart
        /\ chunks' = Append(chunks, <<at, to>>) /\ current' = <<to, to>> /\ at' = to
        /\ hardEnd' = IF to >= hardEnd THEN NoPart ELSE hardEnd
    BY <1>5 DEF HardSplit, Cut
  <2>2. to \in (at + 1)..hardEnd /\ hardEnd \in (at + 1)..length
    BY <1>1, <2>1, CutWithin DEF TypeOK
  <2> HIDE DEF to
  <2>3. PICK begin \in 0..at : IsTooLarge(begin, hardEnd)
    BY <2>1 DEF WholeInv
  <2>4. hardEnd \in PartEnds
    BY <2>3 DEF IsTooLarge, IsPart
  <2>5. MayEnd(to)
    <3>1. CASE to = hardEnd
      BY <2>4, <3>1 DEF MayEnd
    <3>2. CASE to # hardEnd
      <4>1. begin \in 0..(to - 1) /\ hardEnd \in (to + 1)..length
        BY <1>1, <2>2, <3>2
      <4>2. QED
        BY <2>3, <4>1 DEF MayEnd
    <3>3. QED
      BY <3>1, <3>2
  <2>6. \A i \in DOMAIN chunks' : MayEnd(chunks'[i][2])
    <3>1. chunks \in Seq((0..length) \X (0..length))
      BY <1>1 DEF TypeOK
    <3>2. \A i \in DOMAIN chunks : MayEnd(chunks[i][2])
      BY DEF WholeInv
    <3>3. <<at, to>>[2] = to
      OBVIOUS
    <3>4. QED
      BY <2>1, <2>5, <3>1, <3>2, <3>3, AppendMayEnd
  <2>7. hardEnd' = NoPart => at' \in Edges
    <3>1. hardEnd' = NoPart => to = hardEnd
      BY <1>1, <2>1, <2>2
    <3>2. QED
      BY <2>1, <2>4, <3>1 DEF Edges
  <2>8. hardEnd' # NoPart => \E b \in 0..at' : IsTooLarge(b, hardEnd')
    <3>1. begin \in 0..at'
      BY <1>1, <2>1, <2>2
    <3>2. hardEnd' # NoPart => hardEnd' = hardEnd
      BY <2>1
    <3>3. QED
      BY <2>3, <3>1, <3>2
  <2>9. QED
    BY <2>1, <2>6, <2>7, <2>8
<1>6. CASE TakePart
  <2>1. /\ hardEnd = NoPart /\ at < length /\ at' = PartEnd /\ hardEnd' = hardEnd
        /\ chunks' = chunks \/ chunks' = Flushed
        /\ current'[2] = PartEnd
    BY <1>6 DEF TakePart, InParts
  <2>2. at \in Edges
    BY <2>1 DEF WholeInv
  <2>3. PartEnd \in Edges
    BY <1>1, <2>1, <2>2, NextPart DEF IsPart, Edges
  <2>4. \A i \in DOMAIN chunks' : MayEnd(chunks'[i][2])
    BY <2>1, FlushMayEnd DEF WholeInv
  <2>5. QED
    BY <2>1, <2>3, <2>4
<1>7. CASE Finish
  <2>1. /\ hardEnd = NoPart /\ at = length /\ at' = at /\ hardEnd' = hardEnd
        /\ chunks' = Flushed /\ current' = <<length, length>>
    BY <1>7 DEF Finish
  <2>2. \A i \in DOMAIN chunks' : MayEnd(chunks'[i][2])
    BY <2>1, FlushMayEnd
  <2>3. QED
    BY <1>1, <2>1, <2>2 DEF Edges
<1>8. CASE UNCHANGED vars
  <2>1. chunks' = chunks /\ current' = current /\ at' = at /\ hardEnd' = hardEnd
    BY <1>8 DEF vars
  <2>2. QED
    BY <1>1, <2>1 DEF WholeInv
<1>9. QED
  BY <1>3, <1>4, <1>5, <1>6, <1>7, <1>8 DEF Next

\* The inductive invariant behind FilesStayWhole.
THEOREM WholeInvariant == Spec => []WholeInv
<1>1. Init => WholeInv
  <2> SUFFICES ASSUME Init, TypeOK
               PROVE  WholeInv
    BY TypeAtStart
  <2>1. chunks = << >> /\ current[2] = at /\ at = 0 /\ hardEnd = NoPart
    BY DEF Init
  <2>2. QED
    BY <2>1 DEF WholeInv, Edges
<1>2. QED
  BY <1>1, WholeStep, PTL DEF Spec

\* The part around an offset is the one between two edges on both sides of it.
LEMMA PartAroundIs ==
  ASSUME TypeOK, NEW begin, NEW end, NEW offset \in Int,
         IsPart(begin, end), begin < offset, offset < end
  PROVE  PartAround(offset) = <<begin, end>>
<1>1. /\ PartEnds \subseteq Int /\ Edges \subseteq Int
      /\ \A e \in Edges : e \in PartEnds \/ e = 0
      /\ \A e \in Edges : e >= 0
  BY EdgesInInput DEF Edges
<1>2. /\ begin \in Edges /\ end \in PartEnds /\ begin \in Int /\ end \in Int
      /\ \A e \in PartEnds : e > begin => e >= end
  BY <1>1 DEF IsPart
<1>3. Max({e \in Edges : e < offset}) = begin
  <2> DEFINE S == {e \in Edges : e < offset}
  <2>1. S \in SUBSET Int /\ begin \in S
    BY <1>1, <1>2
  <2>2. \A e \in S : e <= begin
    BY <1>1, <1>2
  <2>3. Max(S) = begin
    BY <2>1, <2>2, MaxIs
  <2>4. QED
    BY <2>3
<1>4. Min({e \in PartEnds : e > offset}) = end
  <2> DEFINE S == {e \in PartEnds : e > offset}
  <2>1. S \in SUBSET Int /\ end \in S
    BY <1>1, <1>2
  <2>2. \A e \in S : end <= e
    BY <1>1, <1>2
  <2>3. Min(S) = end
    BY <2>1, <2>2, MinIs
  <2>4. QED
    BY <2>3
<1>5. QED
  BY <1>3, <1>4 DEF PartAround, Edges

\* A file is cut only if no chunk could hold it, for every input and every limit: neither
\* the filling of a chunk nor hardSplit ends one inside of a part that would have fit.
THEOREM EveryFileWhole == Spec => []FilesStayWhole
<1>1. WholeInv => FilesStayWhole
  <2> SUFFICES ASSUME WholeInv, NEW i \in DOMAIN chunks, chunks[i][2] \notin PartEnds
               PROVE  Size(PartAround(chunks[i][2])) > maxBytes
    BY DEF FilesStayWhole
  <2>1. TypeOK /\ MayEnd(chunks[i][2])
    BY DEF WholeInv
  <2>2. chunks[i][2] \in Int
    <3>1. chunks \in Seq((0..length) \X (0..length)) /\ length \in Nat
      BY <2>1, EdgesInInput DEF TypeOK
    <3>2. chunks[i] \in (0..length) \X (0..length)
      BY <3>1
    <3>3. QED
      BY <3>1, <3>2
  <2>3. PICK begin \in 0..(chunks[i][2] - 1), end \in (chunks[i][2] + 1)..length :
           IsTooLarge(begin, end)
    BY <2>1 DEF MayEnd
  <2>4. PartAround(chunks[i][2]) = <<begin, end>>
    <3>1. length \in Int
      BY <2>1, EdgesInInput
    <3>2. begin < chunks[i][2] /\ chunks[i][2] < end
      BY <2>2, <3>1
    <3>3. IsPart(begin, end)
      BY <2>3 DEF IsTooLarge
    <3>4. QED
      BY <2>1, <2>2, <3>2, <3>3, PartAroundIs
  <2>5. QED
    BY <2>3, <2>4 DEF Size, IsTooLarge
<1>2. QED
  BY <1>1, WholeInvariant, PTL

----------------------------------------------------------------------------
(* How full chunks are *)

\* The part that comes after a chunk would not have fit into it, unless the chunk ends in
\* a part no chunk could hold.
IsNeeded(chunk) ==
  \A begin \in Edges, end \in PartEnds :
    IsPart(begin, chunk[2]) /\ IsPart(chunk[2], end) /\ chunk[2] - begin <= maxBytes
      => Size(chunk) + end - chunk[2] > maxBytes

\* What makes NoNeedlessChunk inductive: where chunks end, and that the chunk that is being
\* filled is no less than empty.
NeedInv ==
  /\ WholeInv
  /\ FitInv
  /\ \A i \in DOMAIN chunks : IsNeeded(chunks[i])

\* A part is known by where it begins, and by where it ends.
LEMMA OnePart ==
  ASSUME TypeOK, NEW b, NEW c, NEW d, NEW e
  PROVE  /\ IsPart(b, c) /\ IsPart(b, d) => c = d
         /\ IsPart(b, c) /\ IsPart(d, c) => b = d
<1>1. /\ PartEnds \subseteq Int /\ Edges \subseteq Int
      /\ \A x \in Edges : x \in PartEnds \/ x = 0
      /\ \A x \in Edges : x >= 0
  BY EdgesInInput DEF Edges
<1>2. IsPart(b, c) /\ IsPart(b, d) => c = d
  <2> SUFFICES ASSUME IsPart(b, c), IsPart(b, d)
               PROVE  c = d
    OBVIOUS
  <2>1. c \in Int /\ d \in Int /\ c >= d /\ d >= c
    BY <1>1 DEF IsPart
  <2>2. QED
    BY <2>1
<1>3. IsPart(b, c) /\ IsPart(d, c) => b = d
  <2> SUFFICES ASSUME IsPart(b, c), IsPart(d, c)
               PROVE  b = d
    OBVIOUS
  <2>1. b \in Int /\ d \in Int /\ c \in Int /\ b < c /\ d < c
    BY <1>1 DEF IsPart
  <2>2. ~(b < d)
    BY <1>1, <2>1 DEF IsPart
  <2>3. ~(d < b)
    BY <1>1, <2>1 DEF IsPart
  <2>4. QED
    BY <2>1, <2>2, <2>3
<1>4. QED
  BY <1>2, <1>3

\* A chunk that is needed can be added.
LEMMA AppendNeeded ==
  ASSUME NEW X, NEW s \in Seq(X), NEW p,
         \A i \in DOMAIN s : IsNeeded(s[i]), IsNeeded(p)
  PROVE  \A i \in DOMAIN Append(s, p) : IsNeeded(Append(s, p)[i])
<1> SUFFICES ASSUME NEW i \in DOMAIN Append(s, p)
             PROVE  IsNeeded(Append(s, p)[i])
  OBVIOUS
<1>1. CASE i = Len(s) + 1
  <2>1. Append(s, p)[i] = p
    BY <1>1
  <2>2. QED
    BY <2>1
<1>2. CASE i # Len(s) + 1
  <2>1. i \in DOMAIN s /\ Append(s, p)[i] = s[i]
    BY <1>2
  <2>2. QED
    BY <2>1
<1>3. QED
  BY <1>1, <1>2

\* The chunk that is being filled may end where the input does, or where the next part
\* would be too much for it.
LEMMA FlushNeeded ==
  ASSUME NeedInv, at < length => hardEnd = NoPart /\ Size(current) + PartEnd - at > maxBytes
  PROVE  \A i \in DOMAIN Flushed : IsNeeded(Flushed[i])
<1>1. /\ TypeOK /\ current[2] = at /\ at \in Nat /\ length \in Nat
      /\ PartEnds \subseteq 1..length
      /\ chunks \in Seq((0..length) \X (0..length))
      /\ \A i \in DOMAIN chunks : IsNeeded(chunks[i])
  BY EdgesInInput DEF NeedInv, WholeInv, TypeOK
<1>2. IsNeeded(current)
  <2> SUFFICES ASSUME NEW begin \in Edges, NEW end \in PartEnds, IsPart(at, end)
               PROVE  Size(current) + end - at > maxBytes
    BY <1>1 DEF IsNeeded
  <2>1. end \in 1..length /\ at < end
    BY <1>1 DEF IsPart
  <2>2. at < length /\ at \in Edges
    BY <1>1, <2>1 DEF IsPart
  <2>3. end = PartEnd
    BY <1>1, <2>2, NextPart, OnePart
  <2>4. QED
    BY <2>2, <2>3
<1>3. \A i \in DOMAIN Append(chunks, current) : IsNeeded(Append(chunks, current)[i])
  BY <1>1, <1>2, AppendNeeded
<1>4. QED
  BY <1>1, <1>3 DEF Flushed

\* A step leaves it so, and the chunks it adds are needed.
LEMMA NeedStep == NeedInv /\ [Next]_vars /\ WholeInv' /\ FitInv' => NeedInv'
<1> SUFFICES ASSUME NeedInv, [Next]_vars
             PROVE  (\A i \in DOMAIN chunks : IsNeeded(chunks[i]))'
  BY DEF NeedInv
<1>1. /\ TypeOK /\ current[2] = at /\ at \in Nat /\ maxBytes \in Nat /\ maxBytes >= 1
      /\ length \in Nat /\ length >= 1 /\ length \in PartEnds
      /\ PartEnds \subseteq 1..length /\ Edges \subseteq 0..length
      /\ Size(current) \in Int /\ Size(current) >= 0
      /\ \A i \in DOMAIN chunks : IsNeeded(chunks[i])
  BY EdgesInInput DEF NeedInv, FitInv, WholeInv, TypeOK
<1>2. \A chunk : IsNeeded(chunk)' <=> IsNeeded(chunk)
  BY InputKept DEF IsNeeded, Size
<1> SUFFICES \A i \in DOMAIN chunks' : IsNeeded(chunks'[i])
  BY <1>2
<1>3. CASE Whole
  <2>1. chunks' = << <<0, length>> >>
    BY <1>3 DEF Whole
  <2>2. \A end \in PartEnds : ~IsPart(length, end)
    BY <1>1 DEF IsPart
  <2>3. IsNeeded(<<0, length>>)
    BY <2>2 DEF IsNeeded
  <2>4. QED
    BY <2>1, <2>3
<1>4. CASE TakeTooLarge
  <2>1. /\ chunks' = Flushed /\ hardEnd = NoPart /\ at < length /\ PartEnd - at > maxBytes
    BY <1>4 DEF TakeTooLarge, InParts
  <2>2. PartEnd \in Int
    BY <1>1, <2>1, PartAhead
  <2>3. Size(current) + PartEnd - at > maxBytes
    BY <1>1, <2>1, <2>2
  <2>4. QED
    BY <2>1, <2>3, FlushNeeded
<1>5. CASE HardSplit
  <2> DEFINE to == Min({at + maxBytes, hardEnd})
  <2>1. hardEnd # NoPart /\ chunks' = Append(chunks, <<at, to>>)
    BY <1>5 DEF HardSplit, Cut
  <2>2. to \in (at + 1)..hardEnd /\ hardEnd \in (at + 1)..length
    BY <1>1, <2>1, CutWithin DEF TypeOK
  <2> HIDE DEF to
  <2>3. PICK from \in 0..at : IsTooLarge(from, hardEnd)
    BY <2>1 DEF NeedInv, WholeInv
  <2>4. IsPart(from, hardEnd) /\ hardEnd - from > maxBytes
    BY <2>3 DEF IsTooLarge
  <2>5. IsNeeded(<<at, to>>)
    <3> SUFFICES ASSUME NEW begin \in Edges, IsPart(begin, to), to - begin <= maxBytes
                 PROVE  FALSE
      BY DEF IsNeeded
    <3>1. to \in PartEnds /\ to > from
      BY <1>1, <2>2 DEF IsPart
    <3>2. to >= hardEnd
      BY <2>4, <3>1 DEF IsPart
    <3>3. to = hardEnd
      BY <1>1, <2>2, <3>2
    <3>4. begin = from
      BY <1>1, <2>4, <3>3, OnePart
    <3>5. QED
      BY <1>1, <2>2, <2>4, <3>3, <3>4
  <2>6. chunks \in Seq((0..length) \X (0..length))
    BY <1>1 DEF TypeOK
  <2>7. QED
    BY <1>1, <2>1, <2>5, <2>6, AppendNeeded
<1>6. CASE TakePart
  <2>1. hardEnd = NoPart /\ at < length
    BY <1>6 DEF TakePart, InParts
  <2>2. CASE chunks' = chunks
    BY <1>1, <2>2
  <2>3. CASE ~Fits /\ chunks' = Flushed
    <3>1. PartEnd \in Int
      BY <1>1, <2>1, PartAhead
    <3>2. Size(current) + PartEnd - at > maxBytes
      BY <1>1, <2>3, <3>1 DEF Fits
    <3>3. QED
      BY <2>1, <2>3, <3>2, FlushNeeded
  <2>4. QED
    BY <1>6, <2>2, <2>3 DEF TakePart
<1>7. CASE Finish
  <2>1. chunks' = Flushed /\ at = length
    BY <1>7 DEF Finish
  <2>2. ~(at < length)
    BY <1>1, <2>1
  <2>3. QED
    BY <2>1, <2>2, FlushNeeded
<1>8. CASE UNCHANGED vars
  BY <1>1, <1>8 DEF vars
<1>9. QED
  BY <1>3, <1>4, <1>5, <1>6, <1>7, <1>8 DEF Next

\* The inductive invariant behind NoNeedlessChunk.
THEOREM NeedInvariant == Spec => []NeedInv
<1>1. Init /\ WholeInv /\ FitInv => NeedInv
  <2>1. Init => chunks = << >>
    BY DEF Init
  <2>2. QED
    BY <2>1 DEF NeedInv
<1>2. QED
  BY <1>1, NeedStep, WholeInvariant, FitInvariant, PTL DEF Spec

\* No chunk ends before it has to, for every input and every limit: the next file would
\* have been too much for it, or it is what was left of a file that had to be cut.
THEOREM NoChunkNeedless == Spec => []NoNeedlessChunk
<1>1. NeedInv => NoNeedlessChunk
  <2> SUFFICES ASSUME NeedInv, NEW i \in DOMAIN chunks
               PROVE  LET end  == chunks[i][2]
                          last == end - Max({e \in PartEnds \cup {0} : e < end})
                          next == Min({e \in PartEnds : e > end}) - end
                      IN  end \in PartEnds /\ end < length /\ last <= maxBytes
                            => Size(chunks[i]) + next > maxBytes
    BY DEF NoNeedlessChunk
  <2> DEFINE end == chunks[i][2]
             before == {e \in Edges : e < end}
             after == {e \in PartEnds : e > end}
             begin == Max(before)
             next == Min(after)
  <2> SUFFICES ASSUME end \in PartEnds, end < length, end - begin <= maxBytes
               PROVE  Size(chunks[i]) + (next - end) > maxBytes
    BY DEF Edges
  <2>1. /\ TypeOK /\ IsNeeded(chunks[i]) /\ maxBytes \in Int
        /\ length \in Nat /\ length \in PartEnds
        /\ PartEnds \subseteq 1..length /\ Edges \subseteq 0..length
        /\ \A e \in Edges : e \in PartEnds \/ e = 0
        /\ 0 \in Edges /\ PartEnds \subseteq Edges
        /\ Size(chunks[i]) \in Int
    <3>1. TypeOK /\ IsNeeded(chunks[i]) /\ ChunksFit
      BY DEF NeedInv, FitInv
    <3>2. maxBytes \in Int /\ Size(chunks[i]) \in Int
      BY <3>1 DEF TypeOK, ChunksFit
    <3>3. QED
      BY <3>1, <3>2, EdgesInInput DEF Edges
  <2>2. end \in 1..length
    BY <2>1
  <2>3. begin \in before /\ \A e \in before : e <= begin
    <3>1. 0 \in before
      BY <2>1, <2>2
    <3>2. before \in SUBSET (0..length)
      BY <2>1
    <3>3. QED
      BY <2>1, <3>1, <3>2, GreatestExists
  <2>4. next \in after /\ \A e \in after : next <= e
    <3>1. length \in after
      BY <2>1
    <3>2. \A e \in PartEnds : e \in Nat
      BY <2>1
    <3>3. after \in SUBSET Nat
      BY <3>2
    <3>4. QED
      BY <3>1, <3>3, LeastExists
  <2> HIDE DEF begin, next
  <2>5. IsPart(begin, end)
    <3>1. begin \in Edges /\ begin \in Int /\ begin < end
      BY <2>1, <2>3
    <3>2. \A e \in PartEnds : e > begin => e >= end
      BY <2>1, <2>2, <2>3, <3>1
    <3>3. QED
      BY <3>1, <3>2 DEF IsPart
  <2>6. IsPart(end, next)
    <3>1. next \in PartEnds /\ next > end /\ end \in Edges
      BY <2>1, <2>4
    <3>2. \A e \in PartEnds : e > end => e >= next
      BY <2>1, <2>2, <2>4, <3>1
    <3>3. QED
      BY <2>2, <3>1, <3>2 DEF IsPart
  <2>7. begin \in Edges /\ next \in PartEnds
    BY <2>3, <2>4
  <2>8. Size(chunks[i]) + next - end > maxBytes
    BY <2>1, <2>5, <2>6, <2>7 DEF IsNeeded
  <2>9. next \in 1..length
    BY <2>1, <2>7
  <2>10. QED
    BY <2>1, <2>2, <2>8, <2>9
<1>2. QED
  BY <1>1, NeedInvariant, PTL

=============================================================================
