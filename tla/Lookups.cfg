SPECIFICATION Spec
CONSTANTS
    Documents <- MCDocuments
    Keys <- MCKeys
    Names <- MCKeys
    NoName <- MCNoName
    Indexes = {0, 1, 2}
    Paths <- MCPaths
    IntWrap = 256
    FloatBits = 5
    FloatLow = 9
    FloatTop = 9
    MaxJSONSize = 20
    Decoded <- MCDecoded
    Numbers <- MCNumbers
    NoAnswer = NoAnswer
CHECK_DEADLOCK FALSE
INVARIANTS
    KeysLandRight
    IndexesLandRight
    PathAnswersRight
    PlanAnswersRight
    NativeRight
