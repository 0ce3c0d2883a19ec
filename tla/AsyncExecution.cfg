SPECIFICATION Spec
CONSTANTS
  Pending = Pending
  Goroutines = {g1, g2}
  Host = host
  MaxArity = 2
  Limits <- MCLimits
  Width = 3
  Horizon = 2
INVARIANT TimeoutsJustified
PROPERTIES ImplementsFuture WaitsAreLimited CancelReleasesWaiters
