SPECIFICATION Spec
CONSTANTS
  Driver = Driver
  PluginManager = PluginManager
  HeapAllocator = HeapAllocator
  l1 = l1
  l2 = l2
  LoaderSeq <- MCLoaderSeq
  Devices = {d1, d2}
  Caches = {c}
  OtherAllocators = {a}
  Providers = {p}
  Leaves = {x}
  App = App
  Factory = Factory
  Call = Call
INVARIANTS
  CountsAreHolders
  NothingLeft
  AnswersAreExhaustive
