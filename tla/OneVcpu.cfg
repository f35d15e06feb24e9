SPECIFICATION FairSpec
CONSTANTS
  None = None
  p1 = p1  p2 = p2  p3 = p3
  f1 = f1  f2 = f2
  d1 = d1  d2 = d2
  b1 = b1  b2 = b2  b3 = b3  b4 = b4
  VCPUs = {c1}
  PAs = {p1, p2, p3}
  GFNs = {f1, f2}
  GFN <- MCGFN
  DTBs = {d1, d2}
  Breakpoints = {b1, b2, b3, b4}
  TargetPA <- MCTargetPA
  DtbOf <- MCDtbOf
  Following <- MCFollowing
  Global = {b3}
  GuestInt3 = {p3}
  Patchable = {}
  Responses = {"Continue"}
INVARIANTS
  NoStrayInt3
  ReadsHideInt3
  NoMissedHit
  NoHangWhileRunning
PROPERTIES
  EventsAnswered
  ImplementsService
