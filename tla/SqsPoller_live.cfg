\* One sweep after another over two queues, with a message of two objects and a
\* malformed one; no symmetry under liveness.
CONSTANTS
  q1 = q1
  k1 = k1
  k2 = k2
  m1 = m1
  Free = Free
  Dead = Dead
  None = None
  Queues = {q1, q2}
  Messages = {m1, m2}
  Keys = {k1, k2}
  Home <- OneHome
  Records <- TwoObjects
  Malformed = {m2}
  Sweeps = {s1}
  MaxReceives = 1
  MaxBatch = 1
SPECIFICATION FairSpec
PROPERTIES
  EverySweepEnds
  ActiveQueueHasItsTurn
