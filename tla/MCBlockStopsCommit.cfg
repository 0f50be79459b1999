CONSTANTS
  Processes = {p1, p2, p3}
  Changes = {a, b}
  Answers <- MCAnswers
  Scopes = {"diff", "pr"}
  PageSize = 2
  MaxComments = 1
  None = None

SPECIFICATION Spec

SYMMETRY MCSymmetry

INVARIANT
  BlockStopsCommit

\* Every process and every change is used up in the end.
CHECK_DEADLOCK FALSE
