SPECIFICATION Spec
CONSTANTS
  a1 = a1
  a2 = a2
  m1 = m1
  m2 = m2
  None = None
  Hubs = {a1}
  RealHubs = {a1}
  Mids = {m1}
  MidOf <- MidPlain
  Stamped = {m1}
  Faulty = {}
  SessionEnds = {"reload", "restart"}
  SilentTracked = {TRUE, FALSE}
  AbsentDebounce = 1
  Threshold = 1
  MaxTime = 2
PROPERTIES EmptyListKeepsCards
