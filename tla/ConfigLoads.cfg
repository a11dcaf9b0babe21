SPECIFICATION FairSpec
CONSTANTS
  Main = Main
  Reloaders = {p1, p2}
  Subscribers = {s1}
  Stoppers = {k1}
  HasValidator = TRUE
  WatchConfig = TRUE
  Capacity = 1
  NoConfig = NoConfig
  MaxVersion = 2
INVARIANTS
  LoaderSound
  SignalPending
PROPERTIES
  ChangesAreRead
  StopClosesChannels
CHECK_DEADLOCK FALSE
