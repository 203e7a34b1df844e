\* The client leaves while its reader's thread writes to it.
CONSTANTS
  follow = follow  dump = dump
  Clients = {follow, dump}
  NonBlock = {dump}
  Leaving = {follow}
  TailOf <- MCTail
  Size = 1
  AllRows = 3
  MaxLogs = 2
  Failing = {follow}
  LateHangUp = TRUE
  NOBODY = NOBODY
  WRITER = WRITER
SPECIFICATION Spec
INVARIANTS RangeLocking
