CONSTANTS
  RoomCount = 3
  Night = {1, 2}
  Dated = {1}
  Proposal = {p1, p2}
  Request = {h1, h2}
  Rule <- MCRule
  Price = {4, 6}
  Offer <- MCOffer
  Level = {0, 100}
  Market <- MCMarket
  MaxVersion = 2
  NULL = NULL
SPECIFICATION Spec
INVARIANTS DecidedOnce
SYMMETRY Symmetry
CHECK_DEADLOCK FALSE
