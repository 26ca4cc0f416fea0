\* A cancellation while the job waits or while a batch is in flight.
\* The system may stop: every job can end up removed.
CONSTANTS
  JobIds = {j1}
  Workers = {w1}
  MaxFiles = 2
  BatchSize = 1
  MaxTries = 1
  Nobody = Nobody
  NotLoaded = NotLoaded
SPECIFICATION Spec
PROPERTY CancelIsFinal
CHECK_DEADLOCK FALSE
