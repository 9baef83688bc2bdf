\* Liveness is checked, so there is no symmetry to use.
CONSTANTS
    Users <- OneUser
    Scripts <- BothKinds
    DialCodes = {"succeeded", "connection_refused", "general_failure"}
    Banner <- TargetBanner
SPECIFICATION FairSpec
INVARIANTS
    OutcomesAgree
    DataBeginsWhereTheHandshakeEnds
    
PROPERTIES
    DialogueEnds
