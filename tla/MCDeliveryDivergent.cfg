\* Worktrees that cannot push any more.
CONSTANTS
  db = db  mq = mq  p1 = p1  p2 = p2
  Packages = {db}
  Pods = {p1, p2}
  MaxVersion = 2
  MaxFaults = 2
  Disturbances = {"torn", "operator"}
  Changes = {"update", "delete", "target"}
SPECIFICATION FairSpec
PROPERTY EventuallyDelivered
