\* A reader that follows the log and a dump of the last message, while
\* messages are logged, pruned and cleared and the clients leave between
\* two passes over the list.
CONSTANTS
  follow = follow  dump = dump
  Clients = {follow, dump}
  NonBlock = {dump}
  Leaving = {follow}
  TailOf <- MCTail
  Size = 1
  AllRows = 3
  MaxLogs = 3
  Failing = {follow}
  LateHangUp = FALSE
  NOBODY = NOBODY
  WRITER = WRITER
SPECIFICATION Spec
INVARIANTS TypeOK RangeLocking EntryLifetime ClientLifetime NoLogLost InOrderOnce TailIsTail SleepersAreWanted
