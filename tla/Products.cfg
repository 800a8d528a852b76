CONSTANTS
  Value = {v1, v2}
  Field = {}
SPECIFICATION Spec
INVARIANT KeepsEverySurvivor
