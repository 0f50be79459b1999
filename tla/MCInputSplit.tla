---------------------------- MODULE MCInputSplit ----------------------------
(***************************************************************************)
(* InputSplit with a token of two bytes and a least chunk of one token, so *)
(* that inputs of a few bytes meet every limit.                            *)
(***************************************************************************)
EXTENDS InputSplit

Config(context, response, bytes) ==
  [context |-> context, response |-> response, bytes |-> bytes]

\* Limited by the bytes, by the context, and by a context with no room for the prompt.
MCConfigs == {Config(9, 1, 3), Config(6, 1, 5), Config(4, 1, 9)}
=============================================================================
