CONSTANTS
  Handlers = {1, 2}
  Unparsable <- MCUnparsable
  MaxEdits = 3
  MaxSaves = 1
  MaxRequests = 1
SPECIFICATION Spec
INVARIANTS TypeOK KeptOfItsVersion SettlesOnTheLastEdit
PROPERTY MessagesHandled
CHECK_DEADLOCK FALSE
