SPECIFICATION FairSpec
CONSTANTS
  a = a  b = b  x = x
  c1 = c1  c2 = c2
  Clients = {c1, c2}
  Letters = {a, b}
  Keys <- TwoKeys
  Values = {x}
  BufferCap = 10
  MaxRequests = 2
  MaxFaults = 1
INVARIANTS TypeOK ServerInv AnswersAtomic NoForeignData DiesOnlyOfSplitsAndLeavers
PROPERTY EveryRequestAnswered
CHECK_DEADLOCK FALSE
