SPECIFICATION FairSpec
CONSTANTS
  main = main
  helper = helper
  watcher = watcher
  log = log
  new = new
  call = call
  use = use
  tell = tell
  free = free
  a = a
  b = b
  c = c
  Threads = {main, helper, watcher}
  Submissions = {new, call, use, tell, free, log}
  Semaphores = {a, b, c}
  MaxValue = 3
  Program <- MCProgram
  Kind <- MCKind
  Waits <- MCWaits
  Signals <- MCSignals
  MayFail = {new, call, use, tell}
  MayDefer = {call}
  Fallible = {a, b, c}
INVARIANTS
  WorkAfterProducers
  NoSilentHang
PROPERTIES
  UsesTimeline
  EveryoneReturns
  FailureReachesConsumers
CHECK_DEADLOCK FALSE
