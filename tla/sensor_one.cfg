SPECIFICATION FairSpec
CONSTANTS
  a1 = a1
  a2 = a2
  k1 = k1
  Hubs = {a1, a2}
  Keys = {k1}
  HubOf <- OnHub
  AbsentDebounce = 2
  SilentDebounce = 3
  OrphanDebounce = 3
  SessionEnds = {"reload", "restart"}
  WindowRunning = {TRUE, FALSE}
INVARIANTS CardMeansSilent CardNeedsQuiet NoCardOverReading AgedExactlyWhenTold AgedKeysAreGone
PROPERTIES KeysArePublished OutageKeepsCards GapFreezesChildren SilenceIsReported RecoveryIsCleared DepartureIsOffered
