CONSTANTS
    Goroutines = {g1, g2}
    Types <- ShopTypes
    Scalars = {"int", "string"}
    Fields <- ShopFields
    Values <- ShopValues
    Paths <- ShopPaths
    NoSchema = NoSchema
    NoCall = NoCall
SPECIFICATION Spec
INVARIANTS TypeOK SchemasComplete ReadsRight
PROPERTY CallsEnd
