SPECIFICATION FairSpec
CONSTANTS
  waiter = waiter
  signaler = signaler
  a = a
  b = b
  Threads = {waiter, signaler}
  Semaphores = {a, b}
  MaxValue = 2
  Codes = {"INTERNAL", "CANCELLED"}
  WaitLists <- AllWaitLists
  SignalLists <- AllSignalLists
  Role <- OneWaiter
INVARIANTS
  TypeOK
  FailureSentinel
  AwaitedOkIsSnapshot
  QueryIsLowerBound
PROPERTIES
  Monotone
  ImplementsTimeline
  NoLostWakeup
  SingleWaitObservesDeadline
CHECK_DEADLOCK FALSE
