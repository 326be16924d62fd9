CONSTANTS
  SequenceModulus = 8
  RecentAppendLimit = 2
  MaxOffset = 100
  Partition = {1, 2}
  Producer = {p1, p2}
  Consumer = {c1}
  ProduceRequest <- MCProduceRequest
  FetchRequest <- MCFetchRequest
  MaxProduces = 1
SPECIFICATION FairSpec
INVARIANTS AnswersFit NoLostAppend
PROPERTY FetchEnds
