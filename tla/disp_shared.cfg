CONSTANTS
  s1 = s1
  s2 = s2
  r1 = r1
  Sessions <- TwoSessions
  Receivers <- OneReceiver
  ReceiverOf <- AllInOne
  MaxFrames = 2
  Quota <- FirstIsBusier
  MaxTasks = 2
  MaxAsks = 1
SPECIFICATION FairSpec
INVARIANTS
  OneConsumer
  HandledInOrder
  CallAnsweredOnce
PROPERTIES
  DeathHasCause
  QueuedFrameIsTaken
CHECK_DEADLOCK FALSE
