CONSTANTS
  x = x
  y = y
  f = f
  g = g
  Value <- MCValue
  Field <- MCField
  Default <- MCDefault
  Contents <- MCContents
  Bounds <- MCBounds
SPECIFICATION Spec
INVARIANTS
  TypeOK
  HoldsTheJoin
