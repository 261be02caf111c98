SPECIFICATION Spec
CONSTANTS
  a = a
  b = b
  Signers <- MCSigners
  Coins = {3, 20, 70}
  Settings <- MCSettings
  Requests <- MCRequests
  Loads = {0, 1}
  Times = {0, 1}
  MinGasPrice = 2
  MaxGas = 8
  Mantissa = 32
  Ulps = {1, 2, 4, 8, 16, 32}
  MaxU64 = 63
  MaxBlocks = 3
SYMMETRY Symmetry
CHECK_DEADLOCK FALSE
INVARIANTS
  TypeOK
  EstimateForesees
  FeeCoversGas
  ChargedOnce
  AbortsHaveGrounds
PROPERTIES
  ErrChangesNothing
  OperationsAreAtomic
