SPECIFICATION Spec
CONSTANTS
  k1 = k1
  k2 = k2
  k3 = k3
  k4 = k4
  v1 = v1
  v2 = v2
  Key <- Keys
  Value <- Values
  Keyed = TRUE
  MaxCount = 3
  Asserts = TRUE
  MaxItems = 4
SYMMETRY Symmetry
INVARIANTS
  TypeOK
  OneItemPerKey
  PeerTakesAll
PROPERTIES
  ImplementsKeyedMap
CHECK_DEADLOCK FALSE
