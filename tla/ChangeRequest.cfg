SPECIFICATION Spec
CONSTANTS
  i1 = i1
  i2 = i2
  a1 = a1
  a2 = a2
  a3 = a3
  b1 = b1
  o1 = o1
  o2 = o2
  o3 = o3
  t1 = t1
  t2 = t2
  s1 = s1
  s2 = s2
  other = other
  Issuer = {i1, i2}
  Key = {a1, a2, a3, b1}
  IssuerOf <- Issuers
  KidOf <- Kids
  KeyTTL = 2
  SetLifespan = 1
  CacheSize = 2
  Settings <- SettingsTried
INVARIANTS
  DeploysOnlyWhatIsGranted
  NothingIsLeftOut
  PredictionErrsTowardsMore
PROPERTIES
  WithdrawnKeyIsRefused
  RotationIsFollowed
