\* All keys and algorithms, RSA-PSS among them.
CONSTANTS
    Keys <- AllKeys
    Algorithms <- AllAlgorithms
    Challenges = {"foobar"}
    Templates <- SomeTemplates
SPECIFICATION Spec
INVARIANTS
    EveryRequestVerifies
\* A call ends.
CHECK_DEADLOCK FALSE
