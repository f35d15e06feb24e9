SPECIFICATION Spec
CONSTANTS
  NumPlugins = 3
  Hooking = {1, 3}
  VCPUs = {v1, v2}
  None = None
INVARIANTS
  CallbacksAlive
  UnloadedOnce
  HangsOverHooks
PROPERTIES
  ShutdownEnds
