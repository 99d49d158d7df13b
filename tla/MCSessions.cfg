SPECIFICATION FairSessionsSpec
CONSTANTS
  a = a
  b = b
  left = left
  Streams = {a, b}
  About <- MCAbout
  ShortLen = 1
  NoRoot = NoRoot
  Here = "here"
  Panes = {left}
  Place <- MCPlace
  Self = left
  NoStream = NoStream
  EventFiles <- MCEventFiles
  RoutedTo <- MCRoutedTo
  LongLines = {1}
  MaxRecords = 1
  MaxRuns = 2
  Commands <- MCCommands
  Targets = {"auto"}
  AutoPane = "auto"
CHECK_DEADLOCK FALSE
INVARIANTS
  EventsAreOneRunsReplay
  HandlesResolve
PROPERTIES
  PaneIsFollowed
  InterruptEnds
