SPECIFICATION Spec
CONSTANTS
  Flights = {f1, f2}
  Values = {0, 1, 2}
  Bad = 2
  None = None
  Guarded = TRUE
PROPERTY StaleCompletionDiscarded
