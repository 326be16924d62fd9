SPECIFICATION SchemaSpec
CONSTANTS
  s1 = s1
  s2 = s2
  t1 = t1
  t2 = t2
  t3 = t3
  t4 = t4
  t5 = t5
  Subject <- MCSubject
  Schema <- MCSchema
  ValidSchema <- MCValidSchema
  MaxSchemaId = 4
  NotFound = NotFound
INVARIANTS StoreAgrees ReadsReturnTold
