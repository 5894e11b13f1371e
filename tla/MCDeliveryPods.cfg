\* Two instances published by two pods whose worktrees fall behind.
CONSTANTS
  db = db  mq = mq  p1 = p1  p2 = p2
  Packages = {db, mq}
  Pods = {p1, p2}
  MaxVersion = 2
  MaxFaults = 2
  Disturbances = {}
  Changes = {"update"}
SPECIFICATION Spec
INVARIANTS TypeOK AckedPublished
PROPERTIES NeverRollsBack ImplementsVersionedDelivery
SYMMETRY Symmetry
CONSTRAINT OneUpdate
