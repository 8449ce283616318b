CONSTANTS
    Goroutines = {g1}
    Types <- ListTypes
    Scalars = {"int", "string"}
    Fields <- ListFields
    Values <- ListValues
    Paths <- ListPaths
    NoSchema = NoSchema
    NoCall = NoCall
SPECIFICATION Safety
INVARIANT NoBuildWithinItself
