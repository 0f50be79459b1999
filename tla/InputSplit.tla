----------------------------- MODULE InputSplit -----------------------------
(***************************************************************************)
(* How input is cut into chunks: buildReviewChunkPlan of                   *)
(* internal/daemon/server.go chooses the size of a chunk from the model's  *)
(* context, splitIntoChunks and hardSplit of internal/review/chunked.go    *)
(* fill chunks with whole files as long as they fit and cut a file only    *)
(* when it is too large for any chunk.                                     *)
(*                                                                         *)
(* Text is abstracted to byte offsets: a piece <<from, to>> of the input   *)
(* is its bytes after the first `from' and up to `to', and what matters of *)
(* its content is where the marker of a file begins.                       *)
(***************************************************************************)
EXTENDS Integers, Sequences, FiniteSets, FiniteSetsExt

CONSTANTS
  MaxLength,       \* bound on the bytes of an input
  Configs,         \* context length, response length and byte limit of a configuration
  MaxOverhead,     \* bound on the tokens of the prompt around the input
  Reserve,         \* tokens set aside besides the response, 256
  MinTokens,       \* the least budget of tokens for a chunk, 256
  MinBytes,        \* the least size of a chunk, 1024
  TokenBytes       \* bytes of a token by the code's estimate, 4

ASSUME InputSplitAssumption ==
  /\ MaxLength \in Nat
  /\ Configs \subseteq [context : Nat, response : Nat, bytes : Nat]
  /\ MaxOverhead \in Nat
  /\ {Reserve, MinTokens} \subseteq Nat
  /\ {MinBytes, TokenBytes} \subseteq Nat \ {0}
  /\ MinBytes <= MinTokens * TokenBytes

VARIABLES
  config,     \* the daemon's configuration
  overhead,   \* the tokens of the prompt without input
  maxBytes,   \* the size of a chunk
  length,     \* the bytes of the input
  markers,    \* the offsets where a marker begins
  chunks,     \* the chunks so far
  current,    \* the chunk that is being filled
  at,         \* the bytes of the input that are dealt with
  hardEnd,    \* the end of the part that is being cut up, or NoPart
  done

vars == <<config, overhead, maxBytes, length, markers, chunks, current, at, hardEnd, done>>

NoPart == -1
Size(piece) == piece[2] - piece[1]

----------------------------------------------------------------------------
(* The plan *)

\* EstimateTokens: a token that is begun counts.
EstimateTokens(bytes) == (bytes + TokenBytes - 1) \div TokenBytes

BytesForTokens(tokens) == tokens * TokenBytes

\* The tokens left for a chunk beside the response and the prompt.
ChunkTokenBudget(c, prompt) ==
  LET available == Max({c.context - c.response - Reserve, MinTokens})
  IN  Max({available - prompt, MinTokens})

\* Mutation of ChunkBytes: the prompt around a chunk is forgotten.
MutChunkBytes(c, prompt) ==
  Max({Min({c.bytes, BytesForTokens(ChunkTokenBudget(c, 0))}), MinBytes})

ChunkBytes(c, prompt) ==
  Max({Min({c.bytes, BytesForTokens(ChunkTokenBudget(c, prompt))}), MinBytes})

----------------------------------------------------------------------------
(* Splitting *)

\* splitOnMarker: a part begins at every marker but the first, so that what precedes
\* the first file belongs to it.
PartEnds == {m \in markers : \E first \in markers : first < m} \cup {length}

\* The end of the part that begins at `at'.
PartEnd == Min({e \in PartEnds : e > at})

Init ==
  /\ config \in Configs
  /\ overhead \in 0..MaxOverhead
  /\ maxBytes = ChunkBytes(config, overhead)
  /\ length \in 1..MaxLength
  /\ markers \in SUBSET (0..(length - 1))
  /\ chunks = << >>
  /\ current = <<0, 0>>
  /\ at = 0
  /\ hardEnd = NoPart
  /\ done = FALSE

Input == <<config, overhead, maxBytes, length, markers>>

\* Input that fits is not split.  The limit is never below MinBytes, so that the code's
\* case of a limit that is not positive does not arise.
Whole ==
  /\ ~done /\ at = 0
  /\ length <= maxBytes
  /\ chunks' = << <<0, length>> >>
  /\ done' = TRUE
  /\ UNCHANGED <<Input, current, at, hardEnd>>

InParts == ~done /\ length > maxBytes /\ hardEnd = NoPart /\ at < length

\* The chunks with the one that was being filled, if it holds anything.
Flushed == IF Size(current) > 0 THEN Append(chunks, current) ELSE chunks

\* Mutation of TakeTooLarge: the chunk that was being filled is left out.
MutTakeTooLarge ==
  /\ InParts
  /\ PartEnd - at > maxBytes
  /\ current' = <<at, at>>
  /\ hardEnd' = PartEnd
  /\ UNCHANGED <<Input, chunks, at, done>>

\* A part too large for a chunk: the chunk that was being filled ends, and the part is
\* cut up.
TakeTooLarge ==
  /\ InParts
  /\ PartEnd - at > maxBytes
  /\ chunks' = Flushed
  /\ current' = <<at, at>>
  /\ hardEnd' = PartEnd
  /\ UNCHANGED <<Input, at, done>>

\* Takes the next piece of the part that is being cut up.
Cut(to) ==
  /\ chunks' = Append(chunks, <<at, to>>)
  /\ at' = to
  /\ current' = <<to, to>>
  /\ hardEnd' = IF to >= hardEnd THEN NoPart ELSE hardEnd
  /\ UNCHANGED <<Input, done>>

\* Mutation of HardSplit: off by one.
MutHardSplitOneMore == hardEnd # NoPart /\ Cut(Min({at + maxBytes + 1, hardEnd}))

\* hardSplit: a piece of exactly the limit, or what is left, which is never nothing.
HardSplit == hardEnd # NoPart /\ Cut(Min({at + maxBytes, hardEnd}))

Fits == Size(current) + PartEnd - at <= maxBytes

\* Mutation of TakePart: every part begins a chunk.
MutTakePartAlone ==
  /\ InParts
  /\ PartEnd - at <= maxBytes
  /\ chunks' = Flushed /\ current' = <<at, PartEnd>> /\ at' = PartEnd
  /\ UNCHANGED <<Input, hardEnd, done>>

\* Mutation of TakePart: the chunk is filled up to the limit, wherever files end.
MutTakePartFill ==
  /\ InParts
  /\ PartEnd - at <= maxBytes
  /\ LET to == Min({PartEnd, current[1] + maxBytes})
     IN  IF to > at
           THEN current' = <<current[1], to>> /\ at' = to /\ UNCHANGED chunks
           ELSE chunks' = Flushed /\ current' = <<at, PartEnd>> /\ at' = PartEnd
  /\ UNCHANGED <<Input, hardEnd, done>>

\* The part goes into the chunk that is being filled, or begins the next one.
TakePart ==
  /\ InParts
  /\ PartEnd - at <= maxBytes
  /\ \/ /\ Fits
        /\ current' = <<current[1], PartEnd>>
        /\ UNCHANGED chunks
     \/ /\ ~Fits
        /\ chunks' = Flushed
        /\ current' = <<at, PartEnd>>
  /\ at' = PartEnd
  /\ UNCHANGED <<Input, hardEnd, done>>

\* After the last part the chunk that is being filled ends too.
Finish ==
  /\ ~done /\ at = length /\ hardEnd = NoPart
  /\ chunks' = Flushed
  /\ current' = <<length, length>>
  /\ done' = TRUE
  /\ UNCHANGED <<Input, at, hardEnd>>

Next == Whole \/ TakeTooLarge \/ HardSplit \/ TakePart \/ Finish

Spec == Init /\ [][Next]_vars

----------------------------------------------------------------------------
\* Every variable has its type; a part is cut up only from where the input is dealt
\* with, and a chunk can always hold something.
TypeOK ==
  /\ config \in Configs /\ overhead \in 0..MaxOverhead
  /\ maxBytes \in Nat \ {0}
  /\ length \in 1..MaxLength /\ markers \in SUBSET (0..(length - 1))
  /\ chunks \in Seq((0..length) \X (0..length))
  /\ current \in (0..length) \X (0..length)
  /\ at \in 0..length
  /\ hardEnd = NoPart \/ hardEnd \in (at + 1)..length
  /\ done \in BOOLEAN

\* The pieces follow each other and are the first `to' bytes of the input.
Covers(pieces, to) ==
  /\ pieces = << >> => to = 0
  /\ pieces # << >> => pieces[1][1] = 0 /\ pieces[Len(pieces)][2] = to
  /\ \A i \in 2..Len(pieces) : pieces[i][1] = pieces[i - 1][2]

\* No byte of the input is lost, repeated or moved: at every moment the chunks and the
\* one that is being filled are the input so far, and in the end the whole input.
NothingLost == Covers(Flushed, IF done THEN length ELSE at)

\* No chunk is larger than the limit, and none is empty: no call asks for nothing.
ChunksFit == \A i \in DOMAIN chunks : Size(chunks[i]) \in 1..maxBytes

\* A request for a chunk fits the model's context beside the response, whenever the
\* context has room for the least chunk at all.
RequestFitsContext ==
  config.context - config.response - Reserve - overhead >= MinTokens =>
    \A i \in DOMAIN chunks :
      EstimateTokens(Size(chunks[i])) + overhead + config.response + Reserve <= config.context

\* The part that holds the bytes on both sides of an offset that is no part's end.
PartAround(offset) ==
  <<Max({e \in PartEnds \cup {0} : e < offset}), Min({e \in PartEnds : e > offset})>>

\* A file is cut only if no chunk could hold it.
FilesStayWhole ==
  \A i \in DOMAIN chunks :
    chunks[i][2] \notin PartEnds => Size(PartAround(chunks[i][2])) > maxBytes

\* No chunk ends before it has to: the file that comes next would not have fit, unless
\* the chunk is the rest of a file that was cut.
NoNeedlessChunk ==
  \A i \in DOMAIN chunks :
    LET end  == chunks[i][2]
        last == end - Max({e \in PartEnds \cup {0} : e < end})
        next == Min({e \in PartEnds : e > end}) - end
    IN  end \in PartEnds /\ end < length /\ last <= maxBytes
          => Size(chunks[i]) + next > maxBytes

=============================================================================
