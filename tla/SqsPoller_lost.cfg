\* One message, received up to twice, and a sweep that may die.
\* Expected: violated (finding).
CONSTANTS
  q1 = q1
  k1 = k1
  k2 = k2
  m1 = m1
  Free = Free
  Dead = Dead
  None = None
  Queues = {q1}
  Messages = {m1}
  Keys = {k1, k2}
  Home <- OneHome
  Records <- TwoObjects
  Malformed = {}
  Sweeps = {s1}
  MaxReceives = 2
  MaxBatch = 1
SPECIFICATION Spec
INVARIANT DeletedEventsAreSettled
