SPECIFICATION Spec
CONSTANTS
  MaxJobs = 1
  MaxWorkers = 2
  MaxFaults = 1
  LateJobs = 0
\* The system may stop: the threads can lock each other out, and every bound
\* on submissions and faults can be used up.
CHECK_DEADLOCK FALSE
INVARIANTS
  NoLockCycle
