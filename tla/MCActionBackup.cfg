\* A CNPG backup that may be deleted while it is in flight.
CONSTANTS
  r1 = r1  r2 = r2  t1 = t1  west = west  south = south
  Requests = {r1}
  Targets = {t1}
  Clusters = {west, south}
  TargetOf <- SameTarget
  ActionOf <- Backups
  CandidateOf <- Candidates
  Standbys <- WestReady
  Edits = {"spec", "target", "backupLoss"}
  MaxGeneration = 2
  MaxLag = 1
  MaxFaults = 1
SPECIFICATION FairSpec
INVARIANTS SucceededMeansApplied
PROPERTY Settles
