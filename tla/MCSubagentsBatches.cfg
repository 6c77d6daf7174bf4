\* Two batches of two tasks that need the same database, cancelled at any moment.
SPECIFICATION FairSpec
CONSTANTS
  Batches = {b1, b2}
  b1 = b1
  b2 = b2
  db = db
  port = port
  docs = docs
  Names = {db, port, docs}
  N = 2
  Concurrency = 2
  Scope <- SharedScope
  ObserverCancels = FALSE
CHECK_DEADLOCK FALSE
INVARIANT TypeOK
INVARIANT Exclusive
INVARIANT ResolvedClean
INVARIANT CancelReaches
PROPERTY ResultsKept
PROPERTY CancelResolves
