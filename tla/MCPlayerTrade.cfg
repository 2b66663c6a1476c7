CONSTANTS
  Wares = {"a", "b"}
  FullStack = 3
  Requests <- MCAll
  MaxRequests = 2
  MaxWindows = 2
  PromptRetries = 1
  ViewRetries = 1
  Seams = {"inventory slot", "passive", "none"}
  KeepsPrompt = TRUE
SPECIFICATION PlayerTradeSpec
INVARIANT OwnClicks
PROPERTY HookGoesOff
PROPERTY RequestsEnd
