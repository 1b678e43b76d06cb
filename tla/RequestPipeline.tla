--------------------------- MODULE RequestPipeline ---------------------------
(***************************************************************************)
(* What both services do with an HTTP request before and after their own   *)
(* code sees it: CORS wrapper, routing, decoding, authentication with a    *)
(* token of Keycloak, counting, and the status of the answer.  Each        *)
(* request runs in a goroutine of its own.                                 *)
(*                                                                         *)
(* The token is checked against Keycloak's public key, which is fetched    *)
(* anew for every request, with no deadline.  The key may change at any    *)
(* time, and what Keycloak publishes need not be an RSA key.  A panic is   *)
(* recovered by net/http, which drops the connection.                      *)
(***************************************************************************)
EXTENDS Naturals, FiniteSets

CONSTANTS
    Requests,    \* HTTP requests
    Routes,      \* what they ask for
    Keys,        \* RSA keys of Keycloak
    Nothing      \* no request, no key

\* Open needs no token.  The methods in ErrorFree return no error, those in
\* Manufacturing may blame the client, and may panic.

\* Fault variant: every route is behind the token parser.
NoneOpen == {}

Open          == {"Health"}
ErrorFree     == {"Health", "GetCSRs"}
Manufacturing == {"PostSetConfig", "PostGetCRT"}
Served        == ErrorFree \cup Manufacturing \cup {"GetCSRStatus", "GetCRT"}

\* What is asked for without a route: no path of the service, a path of it by
\* another method, or a path that is not clean or lacks its final slash.
Unrouted == [unknown |-> 404, otherMethod |-> 405, unclean |-> 301]

Statuses == {200, 301, 400, 404, 405, 500}

\* Instead of a key of its own Keycloak, or what is taken for it, may publish
\* what makes ParsePublicKey panic, a key of another type or what is not base64,
\* or other text, which is no key or no JSON.
NoRSAKeys == {"malformed", "unusable"}

\* A token is the key that it was signed with, by RS256 and in its time; or it is
\* missing or for another method, unfit; or it has expired.
BadTokens == {"unfit", "expired"}

ASSUME RoutesAssumption ==
    Routes \subseteq Served \cup {"OPTIONS"} \cup DOMAIN Unrouted
ASSUME KeysAssumption   == Keys \cap (NoRSAKeys \cup BadTokens) = {}
ASSUME NothingAssumption == Nothing \notin {0} \cup Statuses
ASSUME RequestsAreFinite == IsFiniteSet(Requests)

VARIABLES
    published,   \* what Keycloak publishes as its key
    pc,          \* where each request is
    route,       \* what it asks for
    token,       \* the key its token was signed with
    fetched,     \* what Keycloak has answered to it
    status,      \* the status of its answer
    count,       \* request_count by method and by the label "error"
    result,      \* what the service made of it: a status, 0 for a panic
    seen         \* history: keys that were published since it arrived

local == <<token, fetched, seen>>
vars  == <<published, pc, route, local, status, count, result>>

Done     == {"answered", "aborted"}
PCs == {"idle", "routing", "decoding", "parsing", "fetching", "checking",
        "serving"} \cup Done

TypeOK ==
    /\ published \in Keys \cup NoRSAKeys
    /\ pc \in [Requests -> PCs]
    /\ route \in [Requests -> Routes \cup {Nothing}]
    /\ token \in [Requests -> Keys \cup BadTokens \cup {Nothing}]
    /\ fetched \in [Requests -> Keys \cup NoRSAKeys \cup {Nothing}]
    /\ status \in [Requests -> Statuses \cup {Nothing}]
    /\ count \in [Served \X BOOLEAN -> Nat]
    /\ result \in [Requests -> {0, 200, 400, 500, Nothing}]
    /\ seen \in [Requests -> SUBSET Keys]

Init ==
    /\ published \in Keys
    /\ pc = [r \in Requests |-> "idle"]
    /\ route = [r \in Requests |-> Nothing]
    /\ token = [r \in Requests |-> Nothing]
    /\ fetched = [r \in Requests |-> Nothing]
    /\ status = [r \in Requests |-> Nothing]
    /\ count = [c \in Served \X BOOLEAN |-> 0]
    /\ result = [r \in Requests |-> Nothing]
    /\ seen = [r \in Requests |-> {}]

Goto(r, from, to) == /\ pc[r] = from
                     /\ pc' = [pc EXCEPT ![r] = to]

\* The goroutine of a request ends, and with it what it has in its variables.
End(r) == /\ token' = [token EXCEPT ![r] = Nothing]
          /\ fetched' = [fetched EXCEPT ![r] = Nothing]
          /\ seen' = [seen EXCEPT ![r] = {}]

Answer(r, from, code) == /\ Goto(r, from, "answered")
                         /\ status' = [status EXCEPT ![r] = code]
                         /\ End(r)

-----------------------------------------------------------------------------
\* Outside.

\* Requests that are still to come have seen nothing.
Publish ==
    /\ \E k \in Keys \cup NoRSAKeys : published' = k
    /\ seen' = [r \in Requests |-> IF pc[r] \in {"idle"} \cup Done THEN {}
                                   ELSE seen[r] \cup ({published'} \cap Keys)]
    /\ UNCHANGED <<pc, route, token, fetched, status, count, result>>

\* On a route that needs none a token is not looked at.
Arrive(r) ==
    /\ Goto(r, "idle", "routing")
    /\ \E u \in Routes :
          /\ route' = [route EXCEPT ![r] = u]
          /\ \E t \in IF u \in Served \ Open THEN Keys \cup BadTokens
                      ELSE {Nothing} : token' = [token EXCEPT ![r] = t]
    /\ seen' = [seen EXCEPT ![r] = {published} \cap Keys]
    /\ UNCHANGED <<published, fetched, status, count, result>>

-----------------------------------------------------------------------------
\* accessControl, the router and the decoder of a route.

\* A preflight request needs no route.
Preflight(r) ==
    /\ route[r] = "OPTIONS"
    /\ Answer(r, "routing", 200)
    /\ UNCHANGED <<published, route, count, result>>

\* By ServeMux in front of the wrapper or behind it, or by the router.
NoRoute(r) ==
    /\ route[r] \in DOMAIN Unrouted
    /\ Answer(r, "routing", Unrouted[route[r]])
    /\ UNCHANGED <<published, route, count, result>>

Route(r) ==
    /\ route[r] \in Served
    /\ Goto(r, "routing", "decoding")
    /\ UNCHANGED <<published, route, local, status, count, result>>

\* A body that is no JSON, or an identifier that is no number.
DecodeFails(r) ==
    /\ route[r] \notin ErrorFree
    /\ Answer(r, "decoding", 500)
    /\ UNCHANGED <<published, route, count, result>>

\* Decoded before it is authenticated.
Decode(r) ==
    /\ Goto(r, "decoding", IF route[r] \in Open THEN "serving" ELSE "parsing")
    /\ UNCHANGED <<published, route, local, status, count, result>>

-----------------------------------------------------------------------------
\* The token parser of go-kit with Kf, its source of keys.

\* Fault variant: with a status that codeFrom does not know.
RefuseToken401(r) ==
    /\ token[r] = "unfit"
    /\ Answer(r, "parsing", 401)
    /\ UNCHANGED <<published, route, count, result>>

RefuseToken(r) ==
    /\ token[r] = "unfit"
    /\ Answer(r, "parsing", 500)
    /\ UNCHANGED <<published, route, count, result>>

\* The CA file of Keycloak, read for every request, cannot be read.
NoCA(r) ==
    /\ token[r] # "unfit"
    /\ Answer(r, "parsing", 500)
    /\ UNCHANGED <<published, route, count, result>>

Fetch(r) ==
    /\ token[r] # "unfit"
    /\ Goto(r, "parsing", "fetching")
    /\ UNCHANGED <<published, route, local, status, count, result>>

\* Fault variant: one client for all requests, behind a lock.
KfOneByOne(r) ==
    /\ \A q \in Requests : pc[q] # "fetching"
    /\ NoCA(r) \/ Fetch(r)

\* Up to its request to Keycloak.
Kf(r) == NoCA(r) \/ Fetch(r)

\* Fault variant: an earlier request's answer is used again.
KeycloakAnswersFromCache(r) ==
    /\ Goto(r, "fetching", "checking")
    /\ \E k \in ({published} \cup {fetched[q] : q \in Requests}) \ {Nothing} :
          fetched' = [fetched EXCEPT ![r] = k]
    /\ UNCHANGED <<published, route, token, seen, status, count, result>>

KeycloakAnswers(r) ==
    /\ Goto(r, "fetching", "checking")
    /\ fetched' = [fetched EXCEPT ![r] = published]
    /\ UNCHANGED <<published, route, token, seen, status, count, result>>

FetchFails(r) ==
    /\ Answer(r, "fetching", 500)
    /\ UNCHANGED <<published, route, count, result>>

\* ParsePublicKey uses the PEM block without asking whether there is one, and
\* asserts that the key is for RSA.
KeyPanics(r) ==
    /\ fetched[r] = "malformed"
    /\ Goto(r, "checking", "aborted")
    /\ End(r)
    /\ UNCHANGED <<published, route, status, count, result>>

\* The claims are valid and the signature is the key's.
Accepts(k, t) == k = t

Reject(r) ==
    /\ fetched[r] # "malformed"
    /\ ~ Accepts(fetched[r], token[r])
    /\ Answer(r, "checking", 500)
    /\ UNCHANGED <<published, route, count, result>>

Accept(r) ==
    /\ fetched[r] # "malformed"
    /\ Accepts(fetched[r], token[r])
    /\ Goto(r, "checking", "serving")
    /\ UNCHANGED <<published, route, local, status, count, result>>

-----------------------------------------------------------------------------
\* The middlewares around the service, and the answer.

\* Blame and failure are errors; a panic, 0, cuts the answer off.
Outcomes(u) ==
    {200} \cup (IF u \in ErrorFree THEN {} ELSE {500})
          \cup (IF u \in Manufacturing THEN {0, 400} ELSE {})

\* Fault variant: the counter is increased after the call, not deferred.
CountIfReturned(u, code) ==
    IF code = 0 THEN count
    ELSE [count EXCEPT ![<<u, code \in {400, 500}>>] = @ + 1]

\* Deferred: a panic is counted too, as no error, since err is still nil.
Count(u, code) == [count EXCEPT ![<<u, code \in {400, 500}>>] = @ + 1]

Serve(r) ==
    /\ pc[r] = "serving"
    /\ \E code \in Outcomes(route[r]) :
          /\ result' = [result EXCEPT ![r] = code]
          /\ count' = Count(route[r], code)
          /\ IF code = 0
             THEN Goto(r, "serving", "aborted") /\ End(r) /\ UNCHANGED status
             ELSE Answer(r, "serving", code)
    /\ UNCHANGED <<published, route>>

-----------------------------------------------------------------------------

Next ==
    \/ Publish
    \/ \E r \in Requests :
          \/ Arrive(r)
          \/ Preflight(r) \/ NoRoute(r) \/ Route(r)
          \/ DecodeFails(r) \/ Decode(r)
          \/ RefuseToken(r) \/ Kf(r)
          \/ KeycloakAnswers(r) \/ FetchFails(r)
          \/ KeyPanics(r) \/ Reject(r) \/ Accept(r)
          \/ Serve(r)

Spec == Init /\ [][Next]_vars

\* A goroutine that can go on does.  Keycloak need not answer, and the service's
\* own methods may wait for others, but for Health.
Own(r) ==
    \/ Preflight(r) \/ NoRoute(r) \/ Route(r)
    \/ DecodeFails(r) \/ Decode(r)
    \/ RefuseToken(r) \/ Kf(r)
    \/ KeyPanics(r) \/ Reject(r) \/ Accept(r)
    \/ route[r] = "Health" /\ Serve(r)

FairSpec == Spec /\ \A r \in Requests : WF_vars(Own(r))

-----------------------------------------------------------------------------

\* Behind the token parser the service only sees requests with a token whose key
\* Keycloak has published since the request arrived: a key that was withdrawn
\* before opens nothing, whatever other requests have fetched (Kf).
ServedWasAuthorised ==
    \A r \in Requests :
       pc[r] = "serving" /\ route[r] \notin Open
          => token[r] \in Keys \cap seen[r]

\* The counter tells how many calls of each method have ended, and how many of
\* them with an error, panics included and refused requests not
\* (instrumentingMiddleware).
CountersAreExact ==
    \A u \in Served :
       /\ count[<<u, TRUE>>] = Cardinality({r \in Requests :
             route[r] = u /\ result[r] # Nothing /\ status[r] \in {400, 500}})
       /\ count[<<u, FALSE>>] = Cardinality({r \in Requests :
             route[r] = u /\ result[r] # Nothing /\ status[r] \notin {400, 500}})

\* A request waits for Keycloak or in the service's own method, and for nothing
\* else, not for another request: neither on its way to Keycloak nor with the
\* answer (MakeHTTPHandler, Kf).
WaitsOnlyForRemote ==
    \A r \in Requests :
       /\ pc[r] = "routing" ~> pc[r] \in Done \cup {"fetching", "serving"}
       /\ pc[r] = "checking" ~> pc[r] \in Done \cup {"serving"}

\* Health is answered whatever Keycloak does (MakeHTTPHandler).
HealthIsAnswered ==
    \A r \in Requests :
       pc[r] = "routing" /\ route[r] = "Health" ~> status[r] = 200

=============================================================================
