SPECIFICATION Spec
CONSTANTS
    ByteMod = 16
    kMaxAllowedArgumentSize = 8
    MaxArgs = 3
    Signatures <- MCSignatures
    Foreign <- MCForeign
    Orders <- MCOrders
INVARIANTS ReadsInside ArgumentsFit RoundTrip CalledIfWellFormed
CHECK_DEADLOCK FALSE
