SPECIFICATION Spec
CONSTANTS
  OpenAIEvents <- MCOpenAIEvents
  AnthropicEvents <- MCAnthropicEvents
  Words <- MCWords
  Nil = Nil
  MaxEvents = 5
INVARIANTS
  WholeAnswer
  NoFalseFailure
  Reported
  UsageAddsUp
  IInv
PROPERTY
  ImplementsStream
