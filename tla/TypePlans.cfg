SPECIFICATION Spec
CONSTANTS
    User = User
    Order = Order
    UserPtr = UserPtr
    Int64 = Int64
    g1 = g1
    g2 = g2
    g3 = g3
    Goroutines = {g1, g2, g3}
    Types = {User, Order, UserPtr, Int64}
    Structs = {User, Order}
    Elem <- MCElem
    NoOne = NoOne
    NoType = NoType
    NoPlan = NoPlan
    Panic = Panic
INVARIANTS
    TypeOK
    BuiltOnce
PROPERTIES
    RegistryGrows
    CallsEnd
    ImplementsPlanLookup
