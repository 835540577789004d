CONSTANTS
    Users = {agent, tester}
    Agent = agent
    NCpu = 2
    Pinned = {1}
    U32 = 2
    MaxIrq = 2
    MaxLoads = 2
    MaxFaults = 1
SPECIFICATION Spec
INVARIANTS
    TypeOK
    CallbackSafe
    MappedIsLive
    OnlyLoadUnwritten
    SteadyReported
PROPERTY CountsForward
CHECK_DEADLOCK FALSE
