CONSTANTS
  FirstTag <- MCFirstTag
  MaxDepth = 2
  NoNumber = NoNumber
  Messages <- MCMessages
SPECIFICATION Spec
INVARIANTS TypeOK EntriesTile NestedInside EntriesAsSent
