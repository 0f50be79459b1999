CONSTANTS
  Reviews <- MCReviews
  Leads <- MCLeads
  Tails <- MCTails
  Window = 2
  Threshold = 3

SPECIFICATION Spec

INVARIANTS
  WholeReviewRead
  FirstObjectRead
  LoopFlagged

\* A text that was read takes no further step.
CHECK_DEADLOCK FALSE
