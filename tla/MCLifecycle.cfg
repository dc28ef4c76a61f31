SPECIFICATION Spec
CONSTANTS
  t1 = t1
  t2 = t2
  t3 = t3
  p1 = p1
  s1 = s1
  s2 = s2
  s3 = s3
  Null = Null
  Txs = {t1, t2, t3}
  Products = {p1}
  Variants = {1, 2}
  ParentOf <- MCParentOf
  Shelves = {s1, s3}
  VariantOf <- MCVariantOfSmall
  Deltas <- MCDeltas
  MaxQuantity = 1
SYMMETRY Symmetry
INVARIANTS
  NothingStranded
  NoDeadlock
PROPERTIES
  MovedWhilePermitted
