SPECIFICATION HasherSpec
CONSTANTS
  \* the miner's targets, scaled down
  Base = 4
  Digits = 4
  Diff1 = 100
  Unit = 10
  WordLimit = 64
  Conversions = {0, 32, 63}
  Difficulties <- MCDifficulties
  NetTargets = {0, 7, 40, 133}
  MaxTxs = 7
  \* yespower() and its memory, scaled down
  SizeLimit = 1000
  HugeThreshold = 70
  HugePage = 16
  Third05 = 4
  Third10 = 4
  UintLimit = 64
  MinN = 16
  MaxN = 32
  MinR = 1
  MaxR = 2
  Params <- MCParams
  Vals <- MCVals
  \* the functions it is computed from
  CountLimit = 1048576
  Chunks = {0, 1, 8, 32, 55, 63, 64, 65, 130}
  MaxMessage = 140
  Keys = {13, 32, 64, 65}
  Salts = {0, 51, 52, 60, 80, 128}
  Rounds = {1, 2}
  Outputs = {32, 33, 96}
  Messages <- MCMessages
  MaxBlocks = 2
  Inputs <- MCInputs
  Bits = 12
  Swidth = 3
  Seeds = {5, 77, 1234}
  MaxCalls = 7
  Widths = {1, 2, 3}
\* the functions end
CHECK_DEADLOCK FALSE
INVARIANTS
  
  BlocksJudged
  MerkleMatches
  TypeOK
  InBounds
  NoStaleReads
  RegionSound
  ResultSound
  DigestsMatch
  RoundsMatch
  SalsaMatches
  BuildsAgree
  MixMatches
PROPERTIES
  RoMixSpec
  CallReturns
