CONSTANTS
  bank = bank
  Task = {k1, k2}
  Tenant = {bank, other}
  Model = {gpt, unknown}
  AllowedModels = {gpt}
  Texts <- MCTexts
  Category = {"Violence", "Hate"}
  Thresholds <- MCThresholds
  BlockEntities = {"CARD"}
  Ceilings <- MCCeilings
  DefaultCeiling = 2
  MaxAttempts = 2
  Window = 2
  Time = {0, 1, 2}
SPECIFICATION FairSpec
CHECK_DEADLOCK FALSE
INVARIANTS TypeOK CeilingHolds  
PROPERTY EveryGenerationEnds
