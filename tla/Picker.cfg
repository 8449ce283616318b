SPECIFICATION Spec
CONSTANTS
    Envelope = Envelope
    Pair = Pair
    Goroutines = {g1, g2}
    Keys <- MCKeys
    Capital <- MCCapital
    KeyLists <- MCKeyLists
    DefaultLists <- MCDefaultLists
    InitialKeys <- DataFirst
    Types <- MCTypes
    Fields <- MCFields
    Maps <- MCMaps
    NoInfo = NoInfo
    NoCall = NoCall
INVARIANTS
    TypeOK
    PicksWhatACallNames
    OneListPicksAsFresh
