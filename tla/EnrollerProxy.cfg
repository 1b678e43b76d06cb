\* A call of any of the three operations, one instance that comes and goes.
CONSTANTS
    Ops <- AllOps
    Instances = {i1}
    Unparsable = {}
    CAs = {ca1}
    Calls = {c1}
    Failed = Failed
    Nothing = Nothing
SPECIFICATION FairSpec
INVARIANTS
    TypeOK
    SuccessIsUpstreams
PROPERTIES
    EveryCallAnswered
