SPECIFICATION FairSpec
CONSTANTS
  None = None
  a = a  b = b  c = c  ignored = ignored  broken = broken
  a1 = a1  a2 = a2  a3 = a3  b1 = b1  c1 = c1  c2 = c2  i1 = i1  x1 = x1
  name = name  other = other  rule1 = rule1  rule2 = rule2
  Processes = {a, b, c, ignored, broken}
  NameOf <- MCNameOf
  Unextractable = {broken}
  Regions = {a1, a2, a3, b1, c1, c2, i1, x1}
  OwnerOf <- MCOwnerOf
  BaseOf <- MCBaseOf
  Chunks <- MCChunks
  SkippedRegions = {a3}
  MayFail = {a2}
  Unwritable = {b1}
  YR_MAX_THREADS = 2
  YaraMatches <- MCYaraMatches
  pageSizeInBytes = 4
  rootNode <- MCRootNode
  dumpArgument = FALSE
INVARIANTS
  ScansBounded
  DumpIdsUnique
  
  DumpsFaithful
PROPERTIES
  UnloadFinishes
