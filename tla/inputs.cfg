CONSTANTS
  Longest = 6
  Signatures <- Handlers
  Fields <- OneField
  Contents <- Sent
  Items <- Numbers
  Chosen <- Odd
  Image <- Doubled
  MaxLists = 3
  MaxLength = 3
SPECIFICATION Spec
INVARIANTS
  CommentsAreGone
  CommentedTextIsRead
  EnvelopeIsTransparent
  LazyIsTransparent
CHECK_DEADLOCK FALSE
