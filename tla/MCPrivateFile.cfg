SPECIFICATION Spec
CONSTANTS
  Writers = {w1, w2}
  Dest = Dest
  Prior = Prior
  Nothing = Nothing
  Size = 2
  MaxOutages = 1
SYMMETRY Symmetry
INVARIANTS NeverPartial SuccessIsSaved NoLeftover
PROPERTIES NeverOverwritten
