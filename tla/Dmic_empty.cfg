SPECIFICATION DmicSpec
CONSTANTS
  NumPages = 4
  DropNum = 2
  NumBlocks = 2
  NoPage = NoPage
INVARIANT
  QueueNotEmpty
