SPECIFICATION Spec
CONSTANTS
  Nil = Nil
  app = app  library = library  hole = hole
  NtCreate = NtCreate  NtMissing = NtMissing  Beep = Beep  NtLoop = NtLoop
  Nodes = {app, library, hole}
  Unreadable = {hole}
  FlagsOf <- MCFlagsOf
  ReadableOf <- MCReadableOf
  FileOf <- MCFileOf
  ImageFile = "app.exe"
  ProtectionOf <- MCProtectionOf
  WideFlags = {app}
  TableLength = 2
  MaxChanges = 1
  MaxRegions = 4
  ProfileNodes <- MCProfileNodes
  TargetNodes <- MCTargetNodes
  NamedProcess = "edit.exe"
  Unnamed = Unnamed
  ProcessNames = {"calc.exe", "word.exe", "edit.exe", "idle.exe"}
  ParametersOf <- MCParametersOf
  Traceable = {"ntdll.dll", "user32.dll"}
  BackingSize <- MCBackingSize
  HighLevel <- MCHighLevel
  Structures <- MCStructures
  Handle = "HANDLE"
  Texts = {"str"}
INVARIANTS
  TypeOK
  RegionsOnce
  WalkComplete
  LibrariesHooked
  ParametersOwn
PROPERTIES
  WalkEnds
CHECK_DEADLOCK FALSE
