SPECIFICATION LiveSpec
CONSTANTS
  s1 = s1
  s2 = s2
  s3 = s3
  a1 = a1
  a2 = a2
  a3 = a3
  NoSession = NoSession
  NoAvatar = NoAvatar
  Session <- MCSession2
  Avatar <- MCAvatar2
PROPERTIES
  SessionEnds
  AbandonedLeaves
  RemovedIsFreed
