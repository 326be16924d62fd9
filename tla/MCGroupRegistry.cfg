SPECIFICATION GroupsSpec
CONSTANTS
  c1 = c1
  c2 = c2
  c3 = c3
  g1 = g1
  g2 = g2
  Caller <- MCCaller
  GroupId <- MCGroupId
  NoGroup = NoGroup
  MaxObjects = 4
INVARIANTS OneObjectPerGroup OneDriverPerObject
