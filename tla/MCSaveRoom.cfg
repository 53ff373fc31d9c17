SPECIFICATION FairSpec
CONSTANTS
  o = o
  PortCount = 2
  BlockCount = 2
  Others = {o}
  BlockPerCard = 2
  Polls = 0
  MaxFaults = 2
  CardRetries = 1
  WriteRetries = 1
  FormatRetries = 1
  StartCards <- MCStartCards
INVARIANTS DataSaved
PROPERTIES KeepsOtherSaves SaveEnds
