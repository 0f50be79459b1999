--------------------------- MODULE MCReviewDaemon ---------------------------
(***************************************************************************)
(* ReviewDaemon with two RPCs at once: each an ordinary review, an ultra   *)
(* review for a model of the client's choice, a static review, or one with *)
(* synthesis; the clients of the second and the last leave when it takes   *)
(* too long.  The daemon calls claude, or a server it asks to load first.  *)
(***************************************************************************)
EXTENDS ReviewDaemon

Issue(severity, place) == [severity |-> severity, place |-> place, rule |-> "r"]

Clean    == [verdict |-> "pass", issues |-> << >>]
Findings == [verdict |-> "block", issues |-> <<Issue("error", 1), Issue("warning", 2)>>]
MCBodies == {Clean, Findings}

Kind(method, ultra, synthesize, override, leaves) ==
  [method |-> method, ultra |-> ultra, synthesize |-> synthesize, override |-> override,
   leaves |-> leaves]
MCKinds == {Kind("review", FALSE, FALSE, FALSE, FALSE), Kind("review", TRUE, FALSE, TRUE, TRUE),
            Kind("static", FALSE, FALSE, FALSE, FALSE), Kind("static", FALSE, TRUE, FALSE, TRUE)}

MCConfigs == {[claude |-> TRUE, preflight |-> FALSE, preload |-> FALSE, static |-> TRUE],
              [claude |-> FALSE, preflight |-> TRUE, preload |-> TRUE, static |-> FALSE]}

CONSTANTS r1, r2
MCRequests == {r1, r2}
=============================================================================
