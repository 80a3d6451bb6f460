CONSTANTS
  Worker = {w1, w2}
  Pusher = {p1}
  Id = {a, b}
  NoId = NoId
  LocalCapacity = 2
  GlobalCheckInterval = 2
  SpinLimit = 0
SPECIFICATION FairSpec
PROPERTIES ImplementsReadySet EventuallyRuns ShutdownCompletes
