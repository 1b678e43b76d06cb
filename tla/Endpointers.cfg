\* Two endpointers, an instance that comes and goes and one that is no URL.
CONSTANTS
    Ops = {o1, o2}
    Instances = {i1, bad}
    Unparsable = {bad}
    CAs = {ca1, ca2}
    Failed = Failed
    Nothing = Nothing
SPECIFICATION FairDiscoverySpec
INVARIANTS
    QuietCachesAgree
PROPERTIES
    EndpointsTrustTheFile
    DroppedInstancesLeave
