CONSTANTS
  Reviews <- MCReviews
  Leads <- MCNothing
  Tails <- MCNothing
  Window = 2
  Threshold = 3

SPECIFICATION Spec

INVARIANT
  PassMeansNothingFound

\* A text that was read takes no further step.
CHECK_DEADLOCK FALSE
