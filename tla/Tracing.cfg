SPECIFICATION Spec
CONSTANTS
  None = None
  parent = parent  child = child  next = next  last = last
  A = A  B = B  withChildren = withChildren  alone = alone
  Processes = {parent, child, next, last}
  PidOf <- MCPidOf
  BaseOf <- MCBaseOf
  Unreadable = {last}
  Throwing = {child}
  MaxPid = 3
  ParentOf <- MCParentOf
  Profiles = {withChildren, alone}
  ChildrenProfiles = {withChildren}
  ConfiguredProfile <- MCProfile
  Outcomes = {"hooked", "bare", "throws"}
INVARIANTS
  LiveProcessesKnown
  NoEntryLeaks
  TracedProcessesLive
  HooksOwned
PROPERTIES
  TracedUntilTermination
CHECK_DEADLOCK FALSE
