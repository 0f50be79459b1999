------------------------- MODULE MCInferenceService -------------------------
(***************************************************************************)
(* InferenceService with one configuration file of every kind: what is     *)
(* inherited, overridden, routed or refused.                               *)
(***************************************************************************)
EXTENDS InferenceService

CONSTANTS home, away, default,              \* URLs
          mine, theirs, old,                \* tokens
          tokenFile, m, n,                  \* a token file and models
          word, one                         \* texts

W(name) == [name |-> name, padded |-> FALSE]
Blank   == W(None)
Padded(name) == [name |-> name, padded |-> TRUE]

Nothing == [url |-> None, token |-> None]
Own(url, token, file) == [url |-> url, token |-> token, file |-> file]
Decl(url, token, file, models) == [url |-> url, token |-> token, file |-> file, models |-> models]
File(openai, lmstudio, model, own, backends) ==
  [openai |-> openai, lmstudio |-> lmstudio, model |-> model, inference |-> own,
   backends |-> backends]

Plain == [url |-> home, token |-> mine]
Inherit == Own(None, None, None)

\* What is inherited from the global section, its old name or nothing.
Inheriting ==
  {File(Nothing, [url |-> None, token |-> old], Padded(m), Inherit, <<>>),
   File(Plain, Nothing, Blank, Own(None, None, tokenFile), <<>>)}

\* What the section for inference overrides, or refuses.
Overriding ==
  {File(Plain, Nothing, W(m), Own(away, None, None), <<>>),
   File(Plain, Nothing, W(m), Own(None, theirs, tokenFile), <<>>)}

\* Backends of their own: good, a padded name, a name twice, no name.
Routing ==
  {File(Plain, Nothing, W(n), Inherit,
        <<Decl(home, None, None, <<W(m), Padded(n)>>), Decl(away, theirs, None, <<W(n)>>)>>),
   File(Plain, Nothing, Blank, Own(away, mine, None),
        <<Decl(away, None, tokenFile, <<Padded(m)>>)>>),
   File(Plain, Nothing, W(m), Inherit,
        <<Decl(home, None, None, <<W(m)>>), Decl(away, theirs, None, <<W(n), W(m)>>)>>),
   File(Plain, Nothing, W(m), Inherit, <<Decl(home, None, None, <<Blank>>)>>)}

MCFiles == Inheriting \cup Overriding \cup Routing

Bare(t)   == [text |-> t, wrapped |-> FALSE]
Object(t) == [text |-> t, wrapped |-> TRUE]

\* One string property with an enum of which another keyword excludes a value; any number.
Narrow   == [values |-> {word, one}, accepts |-> {Object(one)}]
Number   == [values |-> {}, accepts |-> {Bare(one)}]

MCRequests ==
  {[flaw |-> "input", model |-> W(m), schema |-> Narrow],
   [flaw |-> None, model |-> Padded(m), schema |-> Narrow],
   [flaw |-> None, model |-> Blank, schema |-> Number]}
=============================================================================
