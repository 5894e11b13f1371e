\* Two failovers, one to a ready standby, reviewed through the BFF.
CONSTANTS
  r1 = r1  r2 = r2  t1 = t1  west = west  south = south
  Requests = {r1, r2}
  Targets = {t1}
  Clusters = {west, south}
  TargetOf <- SameTarget
  ActionOf <- Failovers
  CandidateOf <- Candidates
  Standbys <- WestReady
  Edits = {"target"}
  MaxGeneration = 2
  MaxLag = 1
  MaxFaults = 1
SPECIFICATION Spec
INVARIANTS TypeOK EffectApproved SucceededMeansApplied
