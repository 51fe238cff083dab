CONSTANTS
  Runs = {1, 2}
  MaxCalls = 2
  MaxTurns = 2
  Summarizes = TRUE
SPECIFICATION Spec
INVARIANTS ResultsTruthful EndedMessageFinished ConversationPaired HistoryIsStored
PROPERTY NoRequestAfterDenial
CHECK_DEADLOCK FALSE
CONSTRAINTS FewCalls FewBroken FewAtOnce
