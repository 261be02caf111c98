SPECIFICATION Spec
CONSTANTS
  a = a
  b = b
  Signers <- MCSigners
  Coins = {20}
  Settings <- MCSettings
  Requests <- MCRequests
  Loads = {0}
  Times = {0}
  MinGasPrice = 2
  MaxGas = 8
  Mantissa = 32
  Ulps = {1, 2, 4, 8, 16, 32}
  MaxU64 = 63
  MaxBlocks = 2
CHECK_DEADLOCK FALSE
INVARIANT
  ExactlyOneMsg
