SPECIFICATION FairSpec
CONSTANTS
  z1 = z1
  z2 = z2
  None = None
  Zones = {z1, z2}
  Framings = {"hub", "dp", "station"}
  Overlapping = {"dp"}
  Dates = {TRUE, FALSE}
  Replies = {"state", "blank"}
  Guard = 1
  MaxTime = 3
INVARIANTS NeverBehindItsReply OneMoment
PROPERTIES ShownSettles
