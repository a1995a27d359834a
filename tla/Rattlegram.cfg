\* A batch of two quanta, symbols of three, payloads of two symbols: a symbol
\* ends in the middle of a batch and at its end.
SPECIFICATION Spec
CONSTANTS
  Quantum = 1
  Batch = 2
  Extended = 3
  SymbolCount = 2
  MaxGrowth = 2
  MaxQuanta = 12
INVARIANTS
  TypeOK
  DecoderReady
  NoFaults
  CallBalanced
  ResultsInOrder
  DoneAfterSync
  OncePerSymbol
PROPERTIES
  DecoderStarts
  EverythingShown
