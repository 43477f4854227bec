SPECIFICATION Spec
CONSTANTS
  Line = {"panic", "login"}
  Rule <- Rows
  MaxId = 3
  MaxCount = 2
INVARIANTS EngineInv BestRule AdminFirst AllOrNothing OrphansByHand
