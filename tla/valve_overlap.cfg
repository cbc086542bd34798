SPECIFICATION Spec
CONSTANTS
  z1 = z1
  z2 = z2
  None = None
  Zones = {z1, z2}
  Framings = {"hub"}
  Overlapping = {"hub"}
  Dates = {TRUE, FALSE}
  Replies = {"state", "blank"}
  Guard = 1
  MaxTime = 3
INVARIANTS NeverBehindItsReply
