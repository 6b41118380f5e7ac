\* One worker, as every tool of the repository has; two queries before the
\* barrier of waitForEngineIdle().
SPECIFICATION FairSpec
CONSTANTS
  j1 = j1  j2 = j2  b = b  p = p  w1 = w1  None = None
  Jobs = {j1, j2, b}
  Barriers = {b}
  Adders = {p}
  Workers = {w1}
  Requests <- MCRequests
  MaxVisits = 2
INVARIANTS TypeOK HaltedJobInFront NoLostWakeup
PROPERTIES ImplementsJobQueue JobsProgress RequestResumes
