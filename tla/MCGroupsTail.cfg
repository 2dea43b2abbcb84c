CONSTANTS
  FirstTag <- MCFirstTag
  MaxDepth = 2
  NoNumber = NoNumber
  Messages <- SentMessages
SPECIFICATION Spec
INVARIANTS LastEntryEndsWithGroup
