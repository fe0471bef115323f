\* Three requests for one lease and two places; a cache with room for two of three prompts.
CONSTANTS
  c1 = c1
  c2 = c2
  c3 = c3
  Callers <- ThreeCallers
  Patient <- Nobody
  Capacity = 2
  MaxBatch = 1
  Prompts <- ThreePrompts
  MaxEntries = 2
  Limits <- OneOrTwo
  EngineLength <- Lengths
SPECIFICATION AppSpec
INVARIANTS AppTypeOK LeaseHasOwner AnswersWhole StoreSound
PROPERTIES LatestKept AnswersFresh RequestsEnd DrainCompletes
