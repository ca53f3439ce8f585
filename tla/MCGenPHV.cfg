CONSTANTS
  PKT_NUM = 2
  CntHeadMod = 3
  FifoWords = 8
  Tokens = {a, b}
  Blank = blank
  MaxLen = 5
SPECIFICATION FairSpec
INVARIANTS
  TypeOK
  PacketsInOrder
  OneDestination
  CountExact
  NeverReadsEmpty
PROPERTIES
  ContiguousPackets
  PacketsLeave
