SPECIFICATION SceneSpec
CONSTANTS
  root = root
  ann = ann
  srv = srv
  k1 = k1
  k2 = k2
  User <- Pair
  Root = root
  Server <- OneServer
  Key <- TwoKeys
  Cap = 1
  Limit = 1
  Hash = {1, 2, 3}
  Token = {1, 2}
  MaxRequests = 2
  MaxVersion = 4
  Failing <- JustAnn
SYMMETRY KeySymmetry
INVARIANTS
  AtLeastOneSuper
  CredentialsAreCurrent
  MfaEnforced
  FailuresWithinLimit
PROPERTIES
  DeletedBySuper
  KeyChangeRevokes
