SPECIFICATION Spec
CONSTANTS
  a = a
  b = b
  Signers <- MCSigners
  Denoms = {1, 2}
  Amounts = {0, 1}
  MaxCoins = 2
  MaxMsgs = 2
  MaxBlocks = 2
SYMMETRY Symmetry
CHECK_DEADLOCK FALSE
INVARIANTS
  AllOrNothing
  AnswersTellFate
  CoinOrderIrrelevant
  AnswersAreTyped
