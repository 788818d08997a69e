CONSTANT
  Builds <- MCBuilds
SPECIFICATION Spec
INVARIANTS LruIsExact FreeWaysFirst LatestIsSafe PendingIsSafe
