SPECIFICATION FairSpec
CONSTANTS
  waiter = waiter
  signaler = signaler
  a = a
  b = b
  Threads = {waiter, signaler}
  Semaphores = {a, b}
  MaxValue = 1
  Codes = {"INTERNAL"}
  WaitLists <- PairLists
  SignalLists <- PairSignals
  Role <- OneWaiter
PROPERTIES
  WaitObservesDeadline
CHECK_DEADLOCK FALSE
