SPECIFICATION Spec
CONSTANTS
    Targets <- MCTargets
    Documents <- MCDocuments
    Times <- MCTimes
    Numbers <- MCNumbers
    Decoded <- MCDecoded
    MilliFrom = 30
    NanoAbove = 100
    NanosPerMilli = 4
    IntWrap = 256
    FloatBits = 5
    FloatLow = 9
    FloatTop = 9
    NoDocument = NoDocument
PROPERTIES
    DecodesRight
    RetryChangesNothing
    FailureChangesNothing
