SPECIFICATION Spec
CONSTANTS
    user = user
    g1 = g1
    g2 = g2
    b1 = b1
    b2 = b2
    Goroutines = {g1, g2}
    NoBuffer = NoBuffer
    NoEntry = NoEntry
    NoName = NoName
    Names <- MCNames
    Paths <- MCPaths
    Requests <- MCRequests
    Hash <- MCHash
    HotCap = 2
    Probes = 2
    Stride = 3
    IntWrap = 16
    Buffers = {b1, b2}
    CounterWrap = 4
INVARIANTS
    TypeOK
    BuffersExclusive
    PlansBelongToTheirPaths
PROPERTIES
    CallsReturn
    ImplementsPathCompiler
