CONSTANTS
  Price = {3, 5}
  MaxSubmissions = 2
  Admin = {a1, a2}
  NULL = NULL
SPECIFICATION Spec
INVARIANTS TypeOK SoldWasOffered VerifiedWasSeen
SYMMETRY Symmetry
