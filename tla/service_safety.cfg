SPECIFICATION Spec
CONSTANTS
  NoFile = NoFile
  Torn = Torn
  NoId = NoId
  MaxIds = 2
  MaxKeys = 2
  MaxMaterial = 1
  MaxResets = 1
INVARIANTS
  TypeOK
  SessionIdentity
  EnrolledKeyRegistered
