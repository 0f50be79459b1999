---------------------------- MODULE AnswerReading ----------------------------
(***************************************************************************)
(* How the text of a model becomes a review: detectRepetition of           *)
(* internal/lmstudio/client.go looks whether the generation ran into a     *)
(* loop, Parse of internal/review/result.go strips what the model thought  *)
(* aloud and the fences around its answer, tries to decode what is left,   *)
(* and when that fails scans it for the first balanced JSON object.        *)
(*                                                                         *)
(* Text is a sequence of tokens.  What the code tells apart is a token of  *)
(* its own: braces, quotes, backslashes, the tags of a thought, a line     *)
(* that is a fence.  Anything else is a word; a member of a JSON object    *)
(* that holds no free text (a verdict, a severity) is one too, and since   *)
(* its quotes come in pairs it leaves the scanner as it was.  A generation *)
(* may stop anywhere, at the limit of response tokens; nobody reads the    *)
(* finish reason.                                                          *)
(***************************************************************************)
EXTENDS ReviewResult

CONSTANTS
  Reviews,     \* the reviews a model may mean: a verdict, or "" for none, and issues
  Leads,       \* what it may say before its review
  Tails,       \* and after it
  Window,      \* the tokens compared by the repetition detector, 80 bytes
  Threshold    \* how often they must be there, 4

Tokens == {"{", "}", "[", "]", "quote", "backslash", "think", "/think", "fence", "word",
           "pass", "warn", "block", "error", "warning", "info"}

\* A message as it stands between the quotes of a JSON string: its quotes are escaped,
\* and its last token escapes nothing.  The escapes are the backslashes that
\* are not escaped themselves.
Escaped(message) ==
  \E escapes \in SUBSET DOMAIN message :
    /\ escapes = {p \in DOMAIN message : message[p] = "backslash" /\ p - 1 \notin escapes}
    /\ Len(message) \notin escapes
    /\ \A p \in DOMAIN message : message[p] = "quote" => p - 1 \in escapes

ASSUME AnswerReadingAssumption ==
  /\ \A r \in Reviews :
       /\ r.verdict \in {"", "pass", "warn", "block"}
       /\ r.issues \in Seq([severity : Severities, message : Seq(Tokens)])
       /\ \A i \in DOMAIN r.issues : Escaped(r.issues[i].message)
  /\ Leads \cup Tails \subseteq Seq(Tokens)
  /\ {Window, Threshold} \subseteq Nat \ {0}

VARIABLES
  said,      \* the review the model means
  sent,      \* what it writes: lead, as much of the review as it gets to, and tail
  text,      \* what Parse has made of it so far
  flagged,   \* the repetition detector found a loop
  step,      \* where the reading is
  from,      \* extractFirstJSONObject: the brace that is tried, its i
  at,        \* its j
  depth, inString, escape,
  retried,   \* an unclosed thought has been cut off
  outcome    \* what Parse returned

scanner == <<from, at, depth, inString, escape>>
vars == <<said, sent, text, flagged, step, scanner, retried, outcome>>

NoOutcome  == [kind |-> "none"]
Unreadable == [kind |-> "error"]
ResultOf(body) == [kind |-> "result", result |-> Parse(body)]

----------------------------------------------------------------------------
(* What a model writes *)

IssueText(issue) ==
  <<"{", issue.severity, "quote">> \o issue.message \o <<"quote", "}">>

ReviewText(review) ==
  <<"{">> \o (IF review.verdict = "" THEN << >> ELSE <<review.verdict>>) \o <<"[">>
    \o FlattenSeq([i \in DOMAIN review.issues |-> IssueText(review.issues[i])])
    \o <<"]", "}">>

\* A model may also leave out the opening brace, as one in a test of Parse does, or
\* give the bare list of its issues.
Forms(review) ==
  LET object == ReviewText(review)
      list   == IF review.verdict = "" THEN 2 ELSE 3
  IN  {object, Tail(object), SubSeq(object, list, Len(object) - 1)}

Raw == sent.lead \o sent.body \o sent.tail
Whole == sent.body = ReviewText(said)

\* json.Unmarshal into a Result.  Of the objects in such a text it decodes reviews, and
\* any object without a member of a review, an issue too, to a result with nothing in it.
Nothing     == [verdict |-> "", issues |-> << >>]
Unmarshal(t) ==
  CASE t = ReviewText(said) -> ResultOf(said)
    [] t # ReviewText(said) /\ (\/ t = <<"{", "}">>
                                \/ \E i \in DOMAIN said.issues : t = IssueText(said.issues[i]))
         -> ResultOf(Nothing)
    [] OTHER -> Unreadable

----------------------------------------------------------------------------
(* The repetition detector *)

Occurrences(t, window) ==
  {p \in 1..(Len(t) - Len(window) + 1) : SubSeq(t, p, p + Len(window) - 1) = window}

\* strings.Count counts occurrences that do not overlap.
CountsTo(t, window, n) ==
  \E places \in kSubset(n, Occurrences(t, window)) :
    \A p, q \in places : p < q => q - p >= Len(window)

\* The window is taken from where a loop would have begun.
MutLooped(t) ==
  /\ Len(t) >= Window * Threshold
  /\ CountsTo(t, SubSeq(t, 1, Window), Threshold)

Looped(t) ==
  /\ Len(t) >= Window * Threshold
  /\ CountsTo(t, SubSeq(t, Len(t) - Window + 1, Len(t)), Threshold)

----------------------------------------------------------------------------
(* Stripping *)

\* The first position of a token after another one, Len(t) + 1 if there is none.
NextPosition(t, token, after) ==
  Min({p \in DOMAIN t : p > after /\ t[p] = token} \cup {Len(t) + 1})

Opened(t) == NextPosition(t, "think", 0)
Closed(t) == NextPosition(t, "/think", Opened(t))

Without(t, first, last) == SubSeq(t, 1, first - 1) \o SubSeq(t, last + 1, Len(t))

\* The opening line goes, and the closing fences, if the text begins with a fence and
\* has another line.
LastLine(t) == Max({p \in DOMAIN t : t[p] # "fence"} \cup {1})
Unfenced(t) ==
  IF Len(t) > 1 /\ t[1] = "fence" THEN SubSeq(t, 2, LastLine(t)) ELSE t

Init ==
  /\ said \in Reviews
  /\ \E lead \in Leads, tail \in Tails, form \in Forms(said) :
       \E cut \in 0..Len(form) :
         sent = [lead |-> lead, body |-> SubSeq(form, 1, cut), tail |-> tail]
  /\ text = Raw
  /\ flagged = FALSE
  /\ step = "answered"
  /\ from = 0 /\ at = 0 /\ depth = 0 /\ inString = FALSE /\ escape = FALSE
  /\ retried = FALSE
  /\ outcome = NoOutcome

GoTo(next) == step' = next

\* chatDetailed: the text goes on to Parse whether or not it is flagged, with an error
\* beside it if it is.
DetectRepetition ==
  /\ step = "answered"
  /\ flagged' = Looped(text)
  /\ GoTo("thoughts")
  /\ UNCHANGED <<said, sent, text, scanner, retried, outcome>>

\* Mutation of StripThought: from the first opening tag to the last closing one.
MutStripThought ==
  /\ step = "thoughts"
  /\ Closed(text) <= Len(text)
  /\ text' = Without(text, Opened(text), Max({p \in DOMAIN text : text[p] = "/think"}))
  /\ UNCHANGED <<said, sent, flagged, step, scanner, retried, outcome>>

\* One match of reThinkBlock, which is not greedy.
StripThought ==
  /\ step = "thoughts"
  /\ Closed(text) <= Len(text)
  /\ text' = Without(text, Opened(text), Closed(text))
  /\ UNCHANGED <<said, sent, flagged, step, scanner, retried, outcome>>

StripFences ==
  /\ step = "thoughts"
  /\ Closed(text) > Len(text)
  /\ text' = Unfenced(text)
  /\ GoTo("whole")
  /\ UNCHANGED <<said, sent, flagged, scanner, retried, outcome>>

Return(o) == outcome' = o /\ GoTo("done")

\* The first call of json.Unmarshal: the text as it is.
DecodeWhole ==
  /\ step = "whole"
  /\ IF Unmarshal(text).kind = "result"
       THEN Return(Unmarshal(text)) ELSE GoTo("seeking") /\ UNCHANGED outcome
  /\ UNCHANGED <<said, sent, text, flagged, scanner, retried>>

----------------------------------------------------------------------------
(* extractFirstJSONObject *)

NextBrace == NextPosition(text, "{", from)

\* Mutation of TryBrace: the scan goes on with the string the last one ended in.
MutTryBrace ==
  /\ step = "seeking"
  /\ NextBrace <= Len(text)
  /\ from' = NextBrace /\ at' = NextBrace /\ depth' = 0
  /\ GoTo("scanning")
  /\ UNCHANGED <<said, sent, text, flagged, inString, escape, retried, outcome>>

\* The outer loop: the next opening brace is tried, from a clean state.
TryBrace ==
  /\ step = "seeking"
  /\ NextBrace <= Len(text)
  /\ from' = NextBrace /\ at' = NextBrace /\ depth' = 0
  /\ inString' = FALSE /\ escape' = FALSE
  /\ GoTo("scanning")
  /\ UNCHANGED <<said, sent, text, flagged, retried, outcome>>

Scanning == step = "scanning" /\ at <= Len(text)
Advance  == at' = at + 1 /\ UNCHANGED <<said, sent, text, flagged, from, retried, outcome>>

ScanEscaped ==
  /\ Scanning /\ escape
  /\ escape' = FALSE
  /\ Advance
  /\ UNCHANGED <<step, depth, inString>>

ScanBackslash ==
  /\ Scanning /\ ~escape
  /\ text[at] = "backslash" /\ inString
  /\ escape' = TRUE
  /\ Advance
  /\ UNCHANGED <<step, depth, inString>>

ScanQuote ==
  /\ Scanning /\ ~escape
  /\ text[at] = "quote"
  /\ inString' = ~inString
  /\ Advance
  /\ UNCHANGED <<step, depth, escape>>

Brace == ~inString /\ text[at] \in {"{", "}"}

\* Inside a string everything else is passed over, outside of it everything but braces.
ScanOther ==
  /\ Scanning /\ ~escape
  /\ text[at] # "quote"
  /\ ~(text[at] = "backslash" /\ inString)
  /\ ~Brace
  /\ Advance
  /\ UNCHANGED <<step, depth, inString, escape>>

\* The object ends where the depth is back at 0.
ScanBrace ==
  /\ Scanning /\ ~escape /\ Brace
  /\ depth' = IF text[at] = "{" THEN depth + 1 ELSE depth - 1
  /\ IF depth' = 0 THEN GoTo("found") ELSE UNCHANGED step
  /\ Advance
  /\ UNCHANGED <<inString, escape>>

\* The text ends inside the object: the brace did not open one.
Unbalanced ==
  /\ step = "scanning" /\ at > Len(text)
  /\ GoTo("seeking")
  /\ UNCHANGED <<said, sent, text, flagged, scanner, retried, outcome>>

Match == SubSeq(text, from, at - 1)

\* Only the object that was found first is decoded.
DecodeMatch ==
  /\ step = "found"
  /\ Return(IF Unmarshal(Match).kind = "result" THEN Unmarshal(Match) ELSE Unreadable)
  /\ UNCHANGED <<said, sent, text, flagged, scanner, retried>>

\* extractReviewJSON: once more without what follows an opening tag that is not closed.
Retry ==
  /\ step = "seeking" /\ NextBrace > Len(text) /\ ~retried
  /\ text' = SubSeq(text, 1, Opened(text) - 1)
  /\ retried' = TRUE
  /\ from' = 0
  /\ UNCHANGED <<said, sent, flagged, step, at, depth, inString, escape, outcome>>

GiveUp ==
  /\ step = "seeking" /\ NextBrace > Len(text) /\ retried
  /\ Return(Unreadable)
  /\ UNCHANGED <<said, sent, text, flagged, scanner, retried>>

Scan == ScanEscaped \/ ScanBackslash \/ ScanQuote \/ ScanOther \/ ScanBrace

Next ==
  \/ DetectRepetition \/ StripThought \/ StripFences \/ DecodeWhole
  \/ TryBrace \/ Scan \/ Unbalanced \/ DecodeMatch \/ Retry \/ GiveUp

Spec     == Init /\ [][Next]_vars
FairSpec == Spec /\ WF_vars(Next)

----------------------------------------------------------------------------
(* Properties *)

\* Of all that can be decoded, only the review itself and a result with nothing in it are
\* ever read from an answer.
TypeOK ==
  /\ said \in Reviews
  /\ {sent.lead, sent.body, sent.tail, text} \subseteq Seq(Tokens)
  /\ step \in {"answered", "thoughts", "whole", "seeking", "scanning", "found", "done"}
  /\ from \in Nat /\ at \in Nat /\ depth \in Int
  /\ {flagged, inString, escape, retried} \subseteq BOOLEAN
  /\ outcome \in {NoOutcome, Unreadable, ResultOf(said), ResultOf(Nothing)}
  /\ outcome # NoOutcome <=> step = "done"

\* Inside a thought that is closed.
Hidden(t, p) ==
  \E q \in 1..p :
    /\ t[q] = "think"
    /\ \E r \in p..Len(t) : t[r] = "/think" /\ \A i \in q..(r - 1) : t[i] # "/think"

LeadPositions == DOMAIN sent.lead
BodyPositions == (Len(sent.lead) + 1)..(Len(sent.lead) + Len(sent.body))

\* A review the model wrote to its end is the review that is reported, whatever stands
\* around it: thoughts, fences, prose with quotes and braces, braces in its own
\* messages.  Two things may hide it from Parse: a thought that covers it, and an opening
\* brace before it that no thought covers.
WholeReviewRead ==
  /\ step = "done" /\ Whole
  /\ \A p \in LeadPositions : Raw[p] = "{" => Hidden(Raw, p)
  /\ \A p \in BodyPositions : ~Hidden(Raw, p)
  => outcome = ResultOf(said)

\* The reference for extractFirstJSONObject: what a JSON lexer that begins at a brace, at
\* p, takes each position for, and the first place where the braces in plain text balance.
ModeAfter(mode, c) ==
  CASE mode = "escaped"                   -> "string"
    [] mode = "string" /\ c = "backslash" -> "escaped"
    [] mode = "string" /\ c = "quote"     -> "plain"
    [] mode = "plain" /\ c = "quote"      -> "string"
    [] OTHER                              -> mode
Lexed(t, p) ==
  LET mode[i \in p..(Len(t) + 1)] ==
        IF i = p THEN "plain" ELSE ModeAfter(mode[i - 1], t[i - 1])
  IN  mode
Plain(t, p, token) == {i \in p..Len(t) : t[i] = token /\ Lexed(t, p)[i] = "plain"}
Balances(t, p) ==
  {e \in Plain(t, p, "}") :
     Cardinality({i \in Plain(t, p, "{") : i <= e}) = Cardinality({i \in Plain(t, p, "}") : i <= e})}
Objects(t) == {p \in DOMAIN t : t[p] = "{" /\ Balances(t, p) # {}}

IsLeast(p, S) == p \in S /\ \A q \in S : p <= q

\* The scan takes the first balanced object of the text and all of it, although the braces,
\* quotes and backslashes before it and in it may be anybody's; a brace that
\* opens nothing costs nothing, and a text is given up only if there is no object in it.
FirstObjectRead ==
  /\ step = "found" => IsLeast(from, Objects(text)) /\ IsLeast(at - 1, Balances(text, from))
  /\ step = "seeking" /\ NextBrace > Len(text) => Objects(text) = {}

\* A generation that went into a loop and stayed in it for as long as the detector has to
\* see it is flagged, whatever the length of the block it repeats and wherever in the
\* block it was stopped.
Repeats(t, p, n) == \A i \in (Len(t) - n + p + 1)..Len(t) : t[i] = t[i - p]
LoopFlagged ==
  \A p \in 1..Len(Raw) :
    LET stride == p * ((Window + p - 1) \div p)
        enough == (Threshold - 1) * stride + Window
    IN  step # "answered" /\ Len(Raw) >= enough /\ Repeats(Raw, p, enough) => flagged

\* A pass means that the review found nothing that is to be acted on
\* (internal/review/result.go:17): no error and no warning stands in the answer.
Written(issue) ==
  \E p, q \in DOMAIN sent.body : SubSeq(sent.body, p, q) = IssueText(issue)
PassMeansNothingFound ==
  outcome.kind = "result" /\ outcome.result.verdict = "pass" =>
    \A i \in DOMAIN said.issues :
      said.issues[i].severity \in {"error", "warning"} => ~Written(said.issues[i])

=============================================================================
