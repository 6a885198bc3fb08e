SPECIFICATION MCSpec
CONSTANTS
  m1 = m1
  m2 = m2
  m3 = m3
  Catalogue <- MCCatalogue
  User = {u1, u2}
  Call = {c1, c2}
  NoModel = NoModel
  MaxCalls = 3
  Connector = {k1}
  Edit = {e1, e2}
  Instance = {i1, i2}
  None = None
  MaxKeys = 3
  MaxValues = 3
  small = small
  large = large
  Starter = {s1, s2}
  MaxAccounts = 3
  Names <- MCNames
  Embedder = {small, large}
  Dims <- MCDims
  Unset = Unset
  MaxChanges = 2
  MaxCuts = 1
INVARIANTS
  SecretsSurvive
  GivenRolesStay
PROPERTIES
  OneRemains
  ChoicesInstalled
  ComesUpReady
CHECK_DEADLOCK FALSE
