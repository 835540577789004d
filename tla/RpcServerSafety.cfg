CONSTANTS
    Agents = {a1, a2}
    Pollers = {p1}
    Handlers = {h1, h2}
    NameOf <- DistinctNames
    MaxSeq = 2
    NoHandler = NoHandler
    Absent = Absent
    Default = Default
SPECIFICATION FairSpec
INVARIANTS
    TypeOK
    ResponsesAreReal
    AckedAgentListed
PROPERTIES
    OnlyAbandonedRegress
    ImplementsAtomicStore
    ShutdownCompletes
