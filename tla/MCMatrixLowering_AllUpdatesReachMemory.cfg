SPECIFICATION Spec
CONSTANTS
  NumRows = 2
  TileShift = 2
  NumTiles = 2
  Addresses <- MCAddresses
  Functions <- MCUnrolled
INVARIANTS
  AllUpdatesReachMemory
