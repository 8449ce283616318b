SPECIFICATION Spec
CONSTANTS
    Inputs <- MCDocuments
    Requests <- MCPaths
    GoTypes = {"any", "string", "bool", "int", "int64", "float64", "list", "map"}
    Numbers <- MCNumbers
    Decoded <- MCDecoded
    MaxDocSize = 24
    IntWrap = 256
    FloatBits = 5
    FloatLow = 9
    FloatTop = 9
    NoAnswer = NoAnswer
CHECK_DEADLOCK FALSE
INVARIANTS
    AnyAsAnswers
