CONSTANTS
  call = call
  stream = stream
  Calls <- SendAndStream
  Streams <- OnlyStream
  MaxChunks = 4
  Deferring <- OnlySend
  Quota <- StreamYields
  Reading <- Formatted
SPECIFICATION FairSpec
INVARIANTS
  PendingMatchesWaiter
  WaiterHasAnswer
  EndedStreamIsComplete
PROPERTIES
  AnswerEndsWait
  ImplementsContract
CHECK_DEADLOCK FALSE
