CONSTANTS
  Clients = {"anthropic", "openai", "copilot", "copilot claude", "gemini"}
  MaxRetries = 2
  MaxTexts = 2
  MaxCalls = 2
SPECIFICATION Spec
INVARIANTS EndsAsItWas
PROPERTIES AnswerTaken RetriesEnd CancelEnds
CHECK_DEADLOCK FALSE
