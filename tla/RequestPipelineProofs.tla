------------------------ MODULE RequestPipelineProofs ------------------------
(***************************************************************************)
(* Proofs about RequestPipeline, for any finite number of requests, any    *)
(* routes and any keys of Keycloak.                                        *)
(***************************************************************************)
EXTENDS RequestPipeline, FiniteSetTheorems, TLAPS

\* The two entries of the counter.
LEMMA CountEntry ==
  ASSUME NEW u, NEW code
  PROVE  /\ code \in {400, 500}
               => Count(u, code) = [count EXCEPT ![<<u, TRUE>>] = @ + 1]
         /\ code \notin {400, 500}
               => Count(u, code) = [count EXCEPT ![<<u, FALSE>>] = @ + 1]
<1>1. CASE code \in {400, 500}
  <2>1. (code \in {400, 500}) = TRUE
    BY <1>1
  <2> QED
    BY <1>1, <2>1, Zenon DEF Count
<1>2. CASE code \notin {400, 500}
  <2>1. (code \in {400, 500}) = FALSE
    BY <1>2
  <2> QED
    BY <1>2, <2>1, Zenon DEF Count
<1> QED
  BY <1>1, <1>2

\* Counting keeps the type of the counter (instrumentingMiddleware).
LEMMA CountType ==
  ASSUME NEW u, NEW code, count \in [Served \X BOOLEAN -> Nat]
  PROVE  Count(u, code) \in [Served \X BOOLEAN -> Nat]
<1>1. ASSUME NEW S, NEW f \in [S -> Nat], NEW p
      PROVE  [f EXCEPT ![p] = @ + 1] \in [S -> Nat]
  <2>1. CASE p \in S
    BY <2>1
  <2>2. CASE p \notin S
    BY <2>2
  <2> QED
    BY <2>1, <2>2
<1> DEFINE Slots == Served \X BOOLEAN
<1>2. count \in [Slots -> Nat]
  OBVIOUS
<1> HIDE DEF Slots
<1>3. Count(u, code) \in [Slots -> Nat]
  BY <1>1, <1>2, CountEntry
<1> QED
  BY <1>3 DEF Slots

\* What is answered without a route is a status of the services (MakeHTTPHandler).
LEMMA UnroutedStatus == \A u \in DOMAIN Unrouted : Unrouted[u] \in Statuses
BY DEF Unrouted, Statuses

\* The variables of RequestPipeline keep their types (MakeHTTPHandler, Kf,
\* instrumentingMiddleware).
THEOREM TypeCorrect == Spec => []TypeOK
<1>1. Init => TypeOK
  BY DEF Init, TypeOK, PCs, Done
<1>2. TypeOK /\ [Next]_vars => TypeOK'
  <2> SUFFICES ASSUME TypeOK, [Next]_vars PROVE TypeOK'
    OBVIOUS
  <2> USE DEF TypeOK, PCs, Done, local, Goto, End, Answer
  <2>1. CASE Publish
    BY <2>1 DEF Publish
  <2>2. ASSUME NEW r \in Requests, Arrive(r) PROVE TypeOK'
    BY <2>2 DEF Arrive
  <2>3. ASSUME NEW r \in Requests,
               \/ Preflight(r) \/ NoRoute(r) \/ DecodeFails(r)
               \/ RefuseToken(r) \/ NoCA(r) \/ FetchFails(r) \/ Reject(r)
        PROVE  TypeOK'
    <3>1. PICK from \in PCs, code \in Statuses : Answer(r, from, code)
      BY <2>3, UnroutedStatus
      DEF Preflight, NoRoute, DecodeFails, RefuseToken, NoCA, FetchFails, Reject,
          Statuses
    <3>2. UNCHANGED <<published, route, count, result>>
      BY <2>3
      DEF Preflight, NoRoute, DecodeFails, RefuseToken, NoCA, FetchFails, Reject
    <3> QED
      BY <3>1, <3>2
  <2>4. ASSUME NEW r \in Requests, Route(r) \/ Decode(r) PROVE TypeOK'
    BY <2>4 DEF Route, Decode
  <2>5. ASSUME NEW r \in Requests, Fetch(r) \/ Accept(r) PROVE TypeOK'
    BY <2>5 DEF Fetch, Accept
  <2>6. ASSUME NEW r \in Requests, KeycloakAnswers(r) PROVE TypeOK'
    BY <2>6 DEF KeycloakAnswers
  <2>7. ASSUME NEW r \in Requests, KeyPanics(r) PROVE TypeOK'
    BY <2>7 DEF KeyPanics
  <2>8. ASSUME NEW r \in Requests, Serve(r) PROVE TypeOK'
    <3>1. PICK code \in Outcomes(route[r]) :
             /\ result' = [result EXCEPT ![r] = code]
             /\ count' = Count(route[r], code)
             /\ IF code = 0
                THEN Goto(r, "serving", "aborted") /\ End(r) /\ UNCHANGED status
                ELSE Answer(r, "serving", code)
      BY <2>8 DEF Serve
    <3>2. code \in {0, 200, 400, 500} /\ {200, 400, 500} \subseteq Statuses
      BY DEF Outcomes, Statuses
    <3>3. count' \in [Served \X BOOLEAN -> Nat]
      BY <3>1, CountType
    <3>4. /\ pc' \in [Requests -> PCs]
          /\ status' \in [Requests -> Statuses \cup {Nothing}]
          /\ token' \in [Requests -> Keys \cup BadTokens \cup {Nothing}]
          /\ fetched' \in [Requests -> Keys \cup NoRSAKeys \cup {Nothing}]
          /\ seen' \in [Requests -> SUBSET Keys]
      <4>1. CASE code = 0
        <5>1. Goto(r, "serving", "aborted") /\ End(r) /\ status' = status
          BY <3>1, <4>1
        <5> QED
          BY <5>1
      <4>2. CASE code # 0
        BY <3>1, <3>2, <4>2
      <4> QED
        BY <4>1, <4>2
    <3> QED
      BY <2>8, <3>1, <3>2, <3>3, <3>4 DEF Serve
  <2>9. CASE UNCHANGED vars
    BY <2>9 DEF vars
  <2> QED
    BY <2>1, <2>2, <2>3, <2>4, <2>5, <2>6, <2>7, <2>8, <2>9
    DEF Next, Kf
<1> QED
  BY <1>1, <1>2, PTL DEF Spec

-----------------------------------------------------------------------------

(***************************************************************************)
(* What a request has and has seen by where it is: the key that is         *)
(* published now is among those seen on the way, and so is the one that    *)
(* Keycloak answered with when it is a key at all.                         *)
(***************************************************************************)
InFlight == {"routing", "decoding", "parsing", "fetching", "checking"}

KeysSeen ==
    \A r \in Requests :
       /\ pc[r] \in InFlight \cup {"serving"}
             => {published} \cap Keys \subseteq seen[r]
       /\ pc[r] \in {"routing", "decoding"} /\ route[r] \in Served \ Open
             => token[r] \in Keys \cup BadTokens
       /\ pc[r] = "decoding" => route[r] \in Served
       /\ pc[r] = "serving" => route[r] \in Served
       /\ pc[r] \in {"parsing", "fetching", "checking"}
             => route[r] \in Served \ Open /\ token[r] \in Keys \cup BadTokens
       /\ pc[r] = "checking"
             => /\ fetched[r] \in Keys \cup NoRSAKeys
                /\ {fetched[r]} \cap Keys \subseteq seen[r]

AuthInv == KeysSeen /\ ServedWasAuthorised

\* An action that touches one request, and no key that is published, has only
\* to keep the invariant for that request.
LEMMA AuthInvInductive == TypeOK /\ AuthInv /\ [Next]_vars => AuthInv'
<1> SUFFICES ASSUME TypeOK, AuthInv, [Next]_vars PROVE AuthInv'
  OBVIOUS
<1> USE DEF TypeOK, AuthInv, KeysSeen, ServedWasAuthorised, InFlight
<1>1. CASE Publish
  BY <1>1 DEF Publish, Done
<1>2. ASSUME NEW r \in Requests, Arrive(r) PROVE AuthInv'
  BY <1>2 DEF Arrive, Goto
<1>3. ASSUME NEW r \in Requests, NEW from \in PCs, NEW code,
             Answer(r, from, code), UNCHANGED <<published, route>>
      PROVE  AuthInv'
  BY <1>3 DEF Answer, Goto, End
<1>4. ASSUME NEW r \in Requests, Route(r) PROVE AuthInv'
  BY <1>4 DEF Route, Goto, local
<1>5. ASSUME NEW r \in Requests, Decode(r) PROVE AuthInv'
  BY <1>5 DEF Decode, Goto, local
<1>6. ASSUME NEW r \in Requests, Fetch(r) PROVE AuthInv'
  BY <1>6 DEF Fetch, Goto, local
<1>7. ASSUME NEW r \in Requests, KeycloakAnswers(r) PROVE AuthInv'
  BY <1>7 DEF KeycloakAnswers, Goto
<1>8. ASSUME NEW r \in Requests, Accept(r) PROVE AuthInv'
  <2>1. token[r] \in Keys \cap seen[r]
    BY <1>8, KeysAssumption
    DEF Accept, Accepts, Goto, NoRSAKeys, BadTokens
  <2> QED
    BY <1>8, <2>1 DEF Accept, Goto, local
<1>9. ASSUME NEW r \in Requests, NEW from \in PCs, Goto(r, from, "aborted"),
             End(r), UNCHANGED <<published, route>>
      PROVE  AuthInv'
  BY <1>9 DEF Goto, End
<1>10. ASSUME NEW r \in Requests, Serve(r) PROVE AuthInv'
  BY <1>10, <1>3, <1>9 DEF Serve, PCs
<1>11. ASSUME NEW r \in Requests,
              \/ Preflight(r) \/ NoRoute(r) \/ DecodeFails(r)
              \/ RefuseToken(r) \/ NoCA(r) \/ FetchFails(r) \/ Reject(r)
       PROVE  AuthInv'
  BY <1>11, <1>3
  DEF Preflight, NoRoute, DecodeFails, RefuseToken, NoCA, FetchFails, Reject, PCs
<1>12. ASSUME NEW r \in Requests, KeyPanics(r) PROVE AuthInv'
  BY <1>12, <1>9 DEF KeyPanics, PCs
<1>13. CASE UNCHANGED vars
  BY <1>13 DEF vars, local
<1> QED
  BY <1>1, <1>2, <1>4, <1>5, <1>6, <1>7, <1>8, <1>10, <1>11, <1>12, <1>13
  DEF Next, Kf

\* Behind the token parser there are only requests with a token whose key was
\* published while they were on their way (Kf, MakeHTTPHandler).
THEOREM ServedAuthorised == Spec => []ServedWasAuthorised
<1>1. Init => AuthInv
  BY DEF Init, AuthInv, KeysSeen, ServedWasAuthorised, InFlight
<1>2. AuthInv => ServedWasAuthorised
  BY DEF AuthInv
<1> QED
  BY <1>1, <1>2, AuthInvInductive, TypeCorrect, PTL DEF Spec

-----------------------------------------------------------------------------

(***************************************************************************)
(* A request that has not ended has no status and no result of the service.*)
(***************************************************************************)
NothingBeforeTheEnd ==
    \A r \in Requests :
       pc[r] \notin Done => result[r] = Nothing /\ status[r] = Nothing

CountInv == NothingBeforeTheEnd /\ CountersAreExact

\* The calls of a method that have ended with an error, and the others.
Errors(u) == {r \in Requests :
                 route[r] = u /\ result[r] # Nothing /\ status[r] \in {400, 500}}
Others(u) == {r \in Requests :
                 route[r] = u /\ result[r] # Nothing /\ status[r] \notin {400, 500}}

\* One element more is one more to count.
LEMMA OneMore ==
  ASSUME NEW S, S \subseteq Requests, NEW r \in Requests \ S
  PROVE  Cardinality(S \cup {r}) = Cardinality(S) + 1
<1>1. IsFiniteSet(S)
  BY RequestsAreFinite, FS_Subset
<1> QED
  BY <1>1, FS_AddElement

\* A step that ends no call of the service leaves the sets as they are.
LEMMA NotCounted ==
  ASSUME CountersAreExact, UNCHANGED <<count, result>>,
         \A r \in Requests : result[r] # Nothing =>
            route'[r] = route[r] /\ status'[r] = status[r]
  PROVE  CountersAreExact'
<1>1. ASSUME NEW u \in Served
      PROVE  Errors(u)' = Errors(u) /\ Others(u)' = Others(u)
  BY DEF Errors, Others
<1>2. ASSUME NEW u \in Served
      PROVE  /\ count'[<<u, TRUE>>] = Cardinality(Errors(u)')
             /\ count'[<<u, FALSE>>] = Cardinality(Others(u)')
  <2>1. /\ count[<<u, TRUE>>] = Cardinality(Errors(u))
        /\ count[<<u, FALSE>>] = Cardinality(Others(u))
    BY DEF CountersAreExact, Errors, Others
  <2> QED
    BY <1>1, <2>1
<1> QED
  BY <1>2 DEF CountersAreExact, Errors, Others

\* The end of a call with an error, and without.
LEMMA CountedOnce ==
  ASSUME TypeOK, CountInv, NEW r \in Requests, Serve(r), route[r] \in Served
  PROVE  CountersAreExact'
<1> USE DEF TypeOK
<1>1. result[r] = Nothing /\ status[r] = Nothing /\ route' = route
  BY DEF Serve, CountInv, NothingBeforeTheEnd, Done
<1>2. PICK code \in Outcomes(route[r]) :
         /\ result' = [result EXCEPT ![r] = code]
         /\ count' = Count(route[r], code)
         /\ IF code = 0
            THEN Goto(r, "serving", "aborted") /\ End(r) /\ UNCHANGED status
            ELSE Answer(r, "serving", code)
  BY DEF Serve
<1>3. code \in {0, 200, 400, 500} /\ code # Nothing
  BY NothingAssumption DEF Outcomes, Statuses
<1>4. code # 0 => status' = [status EXCEPT ![r] = code]
  BY <1>2 DEF Answer
<1>5. code = 0 => status' = status
  BY <1>2
<1> PICK u \in Served : u = route[r]
  OBVIOUS
<1>6. r \notin Errors(u) /\ r \notin Others(u)
  BY <1>1 DEF Errors, Others
<1>7. ASSUME NEW v \in Served
      PROVE  /\ count[<<v, TRUE>>] = Cardinality(Errors(v))
             /\ count[<<v, FALSE>>] = Cardinality(Others(v))
  BY DEF CountInv, CountersAreExact, Errors, Others
<1>8. ASSUME NEW v \in Served, v # u
      PROVE  Errors(v)' = Errors(v) /\ Others(v)' = Others(v)
  BY <1>1, <1>2, <1>4, <1>5, <1>8 DEF Errors, Others
<1> SUFFICES ASSUME NEW v \in Served
             PROVE  /\ count'[<<v, TRUE>>] = Cardinality(Errors(v)')
                    /\ count'[<<v, FALSE>>] = Cardinality(Others(v)')
  BY DEF CountersAreExact, Errors, Others
<1>9. CASE code \in {400, 500}
  <2>1. count' = [count EXCEPT ![<<u, TRUE>>] = @ + 1]
    BY <1>2, <1>9, CountEntry
  <2>2. /\ count'[<<v, FALSE>>] = count[<<v, FALSE>>]
        /\ v # u => count'[<<v, TRUE>>] = count[<<v, TRUE>>]
        /\ v = u => count'[<<v, TRUE>>] = count[<<v, TRUE>>] + 1
    BY <2>1
  <2>3. Errors(u)' = Errors(u) \cup {r} /\ Others(u)' = Others(u)
    BY <1>1, <1>2, <1>3, <1>4, <1>9 DEF Errors, Others
  <2>4. Cardinality(Errors(u) \cup {r}) = Cardinality(Errors(u)) + 1
    BY <1>6, OneMore DEF Errors
  <2> QED
    BY <1>7, <1>8, <2>2, <2>3, <2>4
<1>10. CASE code \notin {400, 500}
  <2>1. count' = [count EXCEPT ![<<u, FALSE>>] = @ + 1]
    BY <1>2, <1>10, CountEntry
  <2>2. /\ count'[<<v, TRUE>>] = count[<<v, TRUE>>]
        /\ v # u => count'[<<v, FALSE>>] = count[<<v, FALSE>>]
        /\ v = u => count'[<<v, FALSE>>] = count[<<v, FALSE>>] + 1
    BY <2>1
  <2>3. Others(u)' = Others(u) \cup {r} /\ Errors(u)' = Errors(u)
    BY <1>1, <1>2, <1>3, <1>4, <1>5, <1>10, NothingAssumption
    DEF Errors, Others, Statuses
  <2>4. Cardinality(Others(u) \cup {r}) = Cardinality(Others(u)) + 1
    BY <1>6, OneMore DEF Others
  <2> QED
    BY <1>7, <1>8, <2>2, <2>3, <2>4
<1> QED
  BY <1>9, <1>10

-----------------------------------------------------------------------------

LEMMA CountInvInductive ==
    TypeOK /\ AuthInv /\ CountInv /\ [Next]_vars => CountInv'
<1> SUFFICES ASSUME TypeOK, AuthInv, CountInv, [Next]_vars PROVE CountInv'
  OBVIOUS
<1> USE DEF TypeOK, CountInv, NothingBeforeTheEnd, Done
<1>1. CASE Publish \/ UNCHANGED vars
  BY <1>1, NotCounted DEF Publish, vars
<1>2. ASSUME NEW r \in Requests, Arrive(r) PROVE CountInv'
  BY <1>2, NotCounted DEF Arrive, Goto
<1>3. ASSUME NEW r \in Requests, NEW from \in PCs \ Done, NEW code,
             Answer(r, from, code), UNCHANGED <<route, count, result>>
      PROVE  CountInv'
  BY <1>3, NotCounted DEF Answer, Goto
<1>4. ASSUME NEW r \in Requests, Route(r) \/ Decode(r) \/ Fetch(r) \/ Accept(r)
      PROVE  CountInv'
  BY <1>4, NotCounted DEF Route, Decode, Fetch, Accept, Goto
<1>5. ASSUME NEW r \in Requests, KeycloakAnswers(r) \/ KeyPanics(r)
      PROVE  CountInv'
  BY <1>5, NotCounted DEF KeycloakAnswers, KeyPanics, Goto
<1>6. ASSUME NEW r \in Requests, Serve(r) PROVE CountInv'
  <2>1. CountersAreExact'
    BY <1>6, CountedOnce DEF Serve, AuthInv, KeysSeen
  <2>2. PICK code : IF code = 0
                    THEN Goto(r, "serving", "aborted") /\ UNCHANGED status
                    ELSE Answer(r, "serving", code)
    BY <1>6 DEF Serve
  <2>3. \A q \in Requests \ {r} :
           pc'[q] = pc[q] /\ status'[q] = status[q] /\ result'[q] = result[q]
    BY <1>6, <2>2 DEF Serve, Answer, Goto
  <2>4. pc'[r] \in Done
    BY <2>2 DEF Answer, Goto
  <2> QED
    BY <2>1, <2>3, <2>4
<1>7. ASSUME NEW r \in Requests,
             \/ Preflight(r) \/ NoRoute(r) \/ DecodeFails(r)
             \/ RefuseToken(r) \/ NoCA(r) \/ FetchFails(r) \/ Reject(r)
      PROVE  CountInv'
  BY <1>7, <1>3
  DEF Preflight, NoRoute, DecodeFails, RefuseToken, NoCA, FetchFails, Reject, PCs
<1> QED
  BY <1>1, <1>2, <1>4, <1>5, <1>6, <1>7 DEF Next, Kf

\* The counter has counted every call that has ended once, under the right
\* label (instrumentingMiddleware).
THEOREM CountsEveryCall == Spec => []CountersAreExact
<1>1. Init => CountInv
  <2>1. ASSUME NEW u \in Served, Init PROVE Errors(u) = {} /\ Others(u) = {}
    BY <2>1 DEF Init, Errors, Others
  <2>2. ASSUME NEW u \in Served, Init
        PROVE  /\ count[<<u, TRUE>>] = 0 /\ count[<<u, FALSE>>] = 0
               /\ Cardinality(Errors(u)) = 0 /\ Cardinality(Others(u)) = 0
    BY <2>1, <2>2, FS_EmptySet DEF Init
  <2>3. Init => CountersAreExact
    BY <2>2 DEF CountersAreExact, Errors, Others
  <2> QED
    BY <2>3 DEF Init, CountInv, NothingBeforeTheEnd
<1>2. Init => AuthInv
  BY DEF Init, AuthInv, KeysSeen, ServedWasAuthorised, InFlight
<1> QED
  BY <1>1, <1>2, CountInvInductive, AuthInvInductive, TypeCorrect, PTL
  DEF Spec, CountInv

=============================================================================
