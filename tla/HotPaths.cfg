SPECIFICATION Spec
CONSTANTS
    g1 = g1
    g2 = g2
    data = data
    userName = userName
    userAge = userAge
    Goroutines = {g1, g2}
    Paths = {data, userName, userAge}
    SimplePaths = {data}
    NoPath = NoPath
    HotSize = 4
    Probes = 2
    Hash <- MCHash
    CounterWrap = 8
INVARIANTS
    TypeOK
PROPERTIES
    FirstLapKeepsAll
    GetsReturn
