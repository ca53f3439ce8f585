CONSTANTS
  SHIFT_WIDTH = 2
  TYPE_WIDTH = 1
  TypesPerUnit = 2
  CANDI_NUM = 4
  TYPE_NUM = 1
  KEY_FILED_NUM = 2
  RULE_NUM = 2
  DEPARSER = FALSE
  NUM_LAYER = 3
  HeadLen = 10
  MetaLen = 15
  Heads <- MCHeads
  Programs <- MCPrograms
  Callers <- MCCallers
SPECIFICATION SpecC
CHECK_DEADLOCK FALSE
INVARIANTS
  TypeOK
  LastWriterWins
  ShiftsHandedOn
