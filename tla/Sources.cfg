SPECIFICATION Spec
CONSTANTS
    SourceIds = {s1}
    Requests = {r1, r2}
    Origins = {o1, o2}
    None = None
    Cap = 1
    MaxKeys = 2
SYMMETRY Symmetry
INVARIANTS
    SourcesInvariant
    CallsStayOnOrigin
    CredentialIsSent
