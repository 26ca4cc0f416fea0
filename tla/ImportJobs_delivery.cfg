\* One job delivered up to three times to three slots; a full and a short batch;
\* crashes at every step.  No symmetry under liveness.
\* The system may stop: every job can end up removed.
CONSTANTS
  JobIds = {j1}
  Workers = {w1, w2, w3}
  MaxFiles = 3
  BatchSize = 2
  MaxTries = 3
  Nobody = Nobody
  NotLoaded = NotLoaded
SPECIFICATION FairSpec
INVARIANTS
  TypeOK
  SingleRun
  RunAccounts
  CompletedAccountsForAll
  ReportAgrees
  RunningHasOwner
  PendingHasOwner
PROPERTIES
  NoticedCancelStopsTheRun
  SettledRowIsLeftAlone
  RemovedStaysRemoved
  IngestsOnce
  EveryDeliveryEnds
  UninterruptedRunSettles
CHECK_DEADLOCK FALSE
