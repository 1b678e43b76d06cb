\* Two requests on routes of each kind, two keys of Keycloak.
CONSTANTS
    Requests = {r1, r2}
    Routes = {"OPTIONS", "unknown", "otherMethod", "unclean",
              "Health", "GetCSRs", "PostSetConfig"}
    Keys = {k1, k2}
    Nothing = Nothing
SPECIFICATION FairSpec
INVARIANTS
    TypeOK
    ServedWasAuthorised
    CountersAreExact
PROPERTIES
    WaitsOnlyForRemote
    HealthIsAnswered
\* All requests may have been answered.
CHECK_DEADLOCK FALSE
