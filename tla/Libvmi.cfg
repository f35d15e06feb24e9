SPECIFICATION FairSpec
CONSTANTS
  None = None
  EventThread = EventThread
  Scanners = {s1, s2}
  Pages = {p1}
  Vcpus = 1
  MaxCalls = 4
INVARIANTS
  ReadsFresh
  OneAtATime
  LeftAsFound
PROPERTIES
  UnloadEnds
