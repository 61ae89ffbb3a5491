SPECIFICATION Spec
CONSTANTS
    Sessions = {s1}
    Verifies = {v1, v2}
    Users = {u1, u2}
    None = None
    PairingTTL = 1
    EnrolmentGrantTTL = 1
    ProvisionalAge = 1
    SessionAge = 1
    Margin = 1
    Stall = 1
    MaxTime = 2
INVARIANTS
    PairingInvariant
    LiveGrantFindsItsDevice
    SingleUseGrant
PROPERTIES
    SweptInTheEnd
