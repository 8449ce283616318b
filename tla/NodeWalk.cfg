SPECIFICATION Spec
CONSTANTS
    Documents <- MCDocuments
    IndexWrap = 16
    NoCall = NoCall
CHECK_DEADLOCK FALSE
INVARIANTS
    TypeOK
    ItemsHandedOver
    NoItemLeftOut
PROPERTIES
    SpansInOrder
    WalkEnds
