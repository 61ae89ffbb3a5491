SPECIFICATION MCSpec
CONSTANTS
  Works = {1, 2}
  Titles = {1, 2}
  Collections = {c1}
  Clients = {r1, r2}
  PageSize = 1
  MaxTime = 2
  WorkIDs = {w1, w2, w3}
  AuthorIDs = {a1, a2, a3}
  None = None
SYMMETRY Symmetry
INVARIANTS
    CatalogueInvariant
    GroupsPartition
PROPERTIES
    ContainsStaysAcyclic
