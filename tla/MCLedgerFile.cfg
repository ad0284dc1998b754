\* Seconds of two ticks; the intermediate ends before the clock does.
SPECIFICATION Spec
CONSTANTS
    Second = 2
    LeafValidity = 2
    MinRSABits = 3072
    Apps <- TwoApps
    Serials <- TwoSerials
    Texts <- SomeTexts
    IssuerEnd = 2
    MaxTime = 4
INVARIANTS
    TypeOK
    NeverOutlivesIssuer
    ActiveIsNotListed
    ListedFromValidity
PROPERTIES
    ImplementsLog
