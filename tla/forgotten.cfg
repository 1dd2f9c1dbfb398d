SPECIFICATION Spec
CONSTANTS
  NoFile = NoFile
  Torn = Torn
  NoId = NoId
  MaxIds = 2
  MaxKeys = 2
  MaxMaterial = 2
  MaxResets = 1
INVARIANT EnrollmentOnDisk
