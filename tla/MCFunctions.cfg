\* A state is one question; nothing happens.
SPECIFICATION Spec
INVARIANTS
    ClassMatchesNetworks
    PrefixDecides
    CheckMatchesTable
    LineOpensWhatItSays
    LoginNeedsListedPair
    ValidationIsExact
    MessagesSurvive
    ReadsDecideOnce
