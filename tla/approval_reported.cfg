SPECIFICATION EnrolledSpec
CONSTANTS
  NoFile = NoFile
  Torn = Torn
  NoId = NoId
  MaxIds = 1
  MaxKeys = 2
  MaxMaterial = 1
  MaxResets = 0
PROPERTY ApprovalReported
