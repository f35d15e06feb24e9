SPECIFICATION Spec
CONSTANTS
  events = events
  moreEvents = moreEvents
  Streams = {events, moreEvents}
  ChannelOf <- MCChannelOf
  MaxSent <- MCMaxSent
  Window = 1
  CommandLines <- MCCommandLines
  ConfigFiles <- MCConfigFiles
INVARIANTS
  EachMessageOnce
  NothingLeftBehind
PROPERTIES
  ProgramEnds
CHECK_DEADLOCK FALSE
