SPECIFICATION EnrolledSpec
CONSTANTS
  NoFile = NoFile
  Torn = Torn
  NoId = NoId
  MaxIds = 1
  MaxKeys = 2
  MaxMaterial = 2
  MaxResets = 0
PROPERTIES
  ServerStateTakesEffect
  ReenrollmentPickedUp
  NoChangeMissed
