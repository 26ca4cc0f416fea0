\* A killed run and the cron that should notice it.
\* The system may stop: every job can end up removed.
CONSTANTS
  JobIds = {j1}
  Workers = {w1}
  MaxFiles = 1
  BatchSize = 1
  MaxTries = 2
  Nobody = Nobody
  NotLoaded = NotLoaded
SPECIFICATION FairSpec
PROPERTY StaleRunningIsTimedOut
CHECK_DEADLOCK FALSE
