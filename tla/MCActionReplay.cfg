\* A rotation and a restart of the same workload, replayed after faults.
CONSTANTS
  r1 = r1  r2 = r2  t1 = t1  west = west  south = south
  Requests = {r1, r2}
  Targets = {t1}
  Clusters = {west, south}
  TargetOf <- SameTarget
  ActionOf <- RotateAndRestart
  CandidateOf <- Candidates
  Standbys <- WestReady
  Edits = {}
  MaxGeneration = 2
  MaxLag = 2
  MaxFaults = 2
SPECIFICATION Spec
INVARIANTS AtMostOnce IntentPersisted
PROPERTIES ObservedNeverRegresses ImplementsOperationLog
