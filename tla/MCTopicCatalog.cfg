SPECIFICATION Spec
CONSTANTS
  c1 = c1
  c2 = c2
  c3 = c3
  i1 = i1
  i2 = i2
  NoName = NoName
  NilId = NilId
  Name <- MCName
  InvalidName <- MCInvalidName
  TopicId <- MCTopicId
  Connection <- MCConnection
  DefaultPartitions = 1
  MetadataRequest <- MCMetadataRequest
  ProduceTopic <- MCProduceTopic
  CreatableTopic <- MCCreatableTopic
SYMMETRY Symmetry
INVARIANTS IndexAgrees AnswersAreTrue ResponsesFit
PROPERTIES TopicsAreForever OnlyExplicitlyCreated
