SPECIFICATION Spec
CONSTANTS
  i1 = i1
  i2 = i2
  i3 = i3
  Name <- MCName
  InvalidName <- MCInvalidName
  TopicId <- MCTopicId
  DefaultPartitions = 1
  Asked <- MCAsked
  Limit <- MCLimit
  NoCursor = NoCursor
  FirstCursor <- MCFirstCursor
  PartitionCounts <- MCPartitionCounts
INVARIANT ListedOnce
PROPERTY ListingEnds
