SPECIFICATION Spec
CONSTANTS
  a1 = a1
  a2 = a2
  m1 = m1
  m2 = m2
  None = None
  Hubs = {a1, a2}
  RealHubs = {a1}
  Mids = {m1, m2}
  MidOf <- MidPlain
  Stamped = {}
  Faulty = {a1}
  SessionEnds = {"restart"}
  SilentTracked = {TRUE, FALSE}
  AbsentDebounce = 1
  Threshold = 1
  MaxTime = 2
INVARIANTS WindowOnlyWhileDown NoCardOverConnectedHub ActiveCardsStand DepartedHubHasNoCard
PROPERTIES EdgesNeverRegress RaisedOnEvidence ClearedOnEvidence
