CONSTANTS
  w1 = w1 w2 = w2 n1 = n1 n2 = n2
  l1 = l1 l2 = l2 c1 = c1 c2 = c2
  Writers = {w1, w2}
  Names = {n1, n2}
  Locations = {l1, l2}
  Schemas = {c1, c2}
  None = None
  MaxVersion = 3
SPECIFICATION Spec
SYMMETRY Symmetry
INVARIANTS SuccessIsDurable EndedIsPublished
PROPERTIES ImplementsExternalTables
