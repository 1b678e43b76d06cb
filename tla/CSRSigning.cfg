\* All keys, all algorithms, with and without a password.
CONSTANTS
    Keys <- AllKeys
    Algorithms <- AllAlgorithms
    Challenges = {"foobar"}
    Templates <- SomeTemplates
SPECIFICATION Spec
INVARIANTS
    TypeOK
    NamesTheSameAlgorithm
    VerifiesUnlessPSS
    PasswordReadBack
    ChallengeRefusals
\* A call ends.
CHECK_DEADLOCK FALSE
