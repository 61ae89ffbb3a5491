SPECIFICATION Spec
CONSTANTS
    Sources = {s1}
    Files = {f1}
    Candidates = {c1, c2}
    Discoveries = {d1, d2}
    Runs = {x1, x2}
    Reviews = {v1, v2}
    OwnedEdition = eo
    NewEditions = {e1, e2}
    None = None
    MaxTries = 2
CHECK_DEADLOCK FALSE
SYMMETRY Symmetry
INVARIANTS
    ImportedIsOwned
    ImportInvariant
    NothingOfARemovedSource
