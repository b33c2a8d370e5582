SPECIFICATION FairSpec
CONSTANTS
  h1 = h1
  h2 = h2
  h3 = h3
  w1 = w1
  w2 = w2
  Hashes <- MCHashes
  Preexisting <- MCPreexisting
  Worker <- MCWorker
  BatchSize = 2
  MaxAttempts = 2
  RequestCap = 1
  MaxSymbols = 3
  NoHash = NoHash
  NoBatch = NoBatch
INVARIANTS
  TypeOK
  ActivatedIsComplete
  NoDoubleStore
  SendsNeverBlock
  AttemptsBounded
PROPERTIES
  Termination
  KeepsPromise
