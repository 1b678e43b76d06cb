--------------------------- MODULE SetConfigProofs ---------------------------
(***************************************************************************)
(* Proofs about SetConfig for every number of requests, keys and           *)
(* certificates.                                                           *)
(***************************************************************************)
EXTENDS SetConfig, TLAPS

USE DEF Done, Creating, PCs

\* The certificate of r is the pair of the key it was checked against.
Paired(r) == /\ crt[r] \in Certs
             /\ authKey[r] \in Keys
             /\ KeyOf[crt[r]] = authKey[r]

\* r may own a client: it was admitted, and its certificate is final.
Owner(r) == Paired(r) /\ pc[r] \notin {"idle", "received"}

\* What keeps s.extClient in order: a request that calls has seen or set the
\* type word, and a type word without a data word has a request about to
\* store the data word.
ClientInv ==
    /\ \A r \in Requests : pc[r] \in {"calling", "storingData"} => tab
    /\ tab /\ data = Nothing => \E q \in Requests : pc[q] = "storingData"

\* Every client, being made, in force or used, belongs to a request whose
\* certificate was checked.
PairInv ==
    /\ \A r \in Requests : pc[r] \in Creating \cup {"starting"} => Paired(r)
    /\ data # Nothing => Owner(data)
    /\ \A r \in Requests : used[r] # Nothing => Owner(used[r])

\* A request enters the log of the extension after it was sent, and before it
\* is accepted; what a newcomer knows to be accepted is in the log.
LogInv ==
    /\ \A r \in Requests : used[r] # Nothing => pc[r] # "idle"
    /\ \A r \in Applied : used[r] # Nothing
    /\ \A r \in Accepted : pc[r] = "answered" /\ r \in Applied
    /\ \A r \in Requests : okBefore[r] \subseteq Accepted

-----------------------------------------------------------------------------

\* Every variable keeps its type.
THEOREM TypeCorrect == Spec => []TypeOK
<1>1. Init => TypeOK
  <2> SUFFICES ASSUME Init
               PROVE  TypeOK
    OBVIOUS
  <2> USE DEF Init
  <2>1. extLog \in Seq(Requests)
    OBVIOUS
  <2> QED
    BY <2>1 DEF TypeOK
<1>2. TypeOK /\ [Next]_vars => TypeOK'
  <2> SUFFICES ASSUME TypeOK, [Next]_vars
               PROVE  TypeOK'
    OBVIOUS
  <2> USE DEF TypeOK, Goto, Answer, shared
  <2>1. CASE RotateKeyFile
    BY <2>1 DEF RotateKeyFile
  <2>2. CASE Restart
    BY <2>2 DEF Restart
  <2>3. ASSUME NEW r \in Requests, Arrive(r)
        PROVE  TypeOK'
    BY <2>3 DEF Arrive, Accepted
  <2>4. ASSUME NEW r \in Requests, Validate(r)
        PROVE  TypeOK'
    BY <2>4 DEF Validate, Refuse, Admit, PairError, Errors, ClientErrors
  <2>5. ASSUME NEW r \in Requests, CheckClient(r)
        PROVE  TypeOK'
    BY <2>5 DEF CheckClient
  <2>6. ASSUME NEW r \in Requests, CreateClient(r)
        PROVE  TypeOK'
    BY <2>6 DEF CreateClient, CreateClientFails, CreateClientSucceeds,
                Errors, ServerErrors
  <2>7. ASSUME NEW r \in Requests, StoreTab(r)
        PROVE  TypeOK'
    BY <2>7 DEF StoreTab
  <2>8. ASSUME NEW r \in Requests, StoreData(r)
        PROVE  TypeOK'
    BY <2>8 DEF StoreData
  <2>9. ASSUME NEW r \in Requests, Call(r)
        PROVE  TypeOK'
    BY <2>9 DEF Call, CallPanics, CallSends
  <2>10. ASSUME NEW r \in Requests, RemoteApplies(r)
         PROVE  TypeOK'
    BY <2>10 DEF RemoteApplies
  <2>11. ASSUME NEW r \in Requests,
                CallReturns(r) \/ CallFails(r) \/ DeadlineExpires(r)
         PROVE  TypeOK'
    BY <2>11 DEF CallReturns, CallFails, DeadlineExpires, Errors, ServerErrors
  <2>12. CASE UNCHANGED vars
    BY <2>12 DEF vars
  <2> QED
    BY <2>1, <2>2, <2>3, <2>4, <2>5, <2>6, <2>7, <2>8, <2>9, <2>10, <2>11,
       <2>12 DEF Next
<1> QED
  BY <1>1, <1>2, PTL DEF Spec

-----------------------------------------------------------------------------

\* No step but a restart clears the type word, and a step leaves a request in
\* the store of the data word unless it is that store.
THEOREM ClientInvariant == Spec => []ClientInv
<1>1. Init => ClientInv
  BY DEF Init, ClientInv
<1>2. TypeOK /\ ClientInv /\ [Next]_vars => ClientInv'
  <2> SUFFICES ASSUME TypeOK, ClientInv, [Next]_vars
               PROVE  ClientInv'
    OBVIOUS
  <2> USE DEF TypeOK, ClientInv, Goto, Answer, shared
  <2>1. CASE RotateKeyFile
    BY <2>1 DEF RotateKeyFile
  <2>2. CASE Restart
    BY <2>2 DEF Restart
  <2>3. ASSUME NEW r \in Requests, Arrive(r) \/ Validate(r)
        PROVE  ClientInv'
    BY <2>3 DEF Arrive, Validate, Refuse, Admit
  <2>4. ASSUME NEW r \in Requests, CheckClient(r)
        PROVE  ClientInv'
    BY <2>4 DEF CheckClient
  <2>5. ASSUME NEW r \in Requests, CreateClient(r)
        PROVE  ClientInv'
    BY <2>5 DEF CreateClient, CreateClientFails, CreateClientSucceeds
  <2>6. ASSUME NEW r \in Requests, StoreTab(r)
        PROVE  ClientInv'
    BY <2>6 DEF StoreTab
  <2>7. ASSUME NEW r \in Requests, StoreData(r)
        PROVE  ClientInv'
    BY <2>7, NothingAssumption DEF StoreData
  <2>8. ASSUME NEW r \in Requests, Call(r)
        PROVE  ClientInv'
    BY <2>8 DEF Call, CallPanics, CallSends
  <2>9. ASSUME NEW r \in Requests,
               \/ RemoteApplies(r) \/ CallReturns(r)
               \/ CallFails(r)     \/ DeadlineExpires(r)
        PROVE  ClientInv'
    BY <2>9 DEF RemoteApplies, CallReturns, CallFails, DeadlineExpires
  <2>10. CASE UNCHANGED vars
    BY <2>10 DEF vars
  <2> QED
    BY <2>1, <2>2, <2>3, <2>4, <2>5, <2>6, <2>7, <2>8, <2>9, <2>10 DEF Next
<1> QED
  BY <1>1, <1>2, TypeCorrect, PTL DEF Spec

\* A call through a nil pointer happens only while another request is between
\* its two stores of s.extClient.
THEOREM TornReadOnly == Spec => TornReadNeedsConcurrentStore
<1> DEFINE Torn(r) == pc[r] = "calling" /\ pc'[r] = "aborted" /\ tab'
           Step == \A r \in Requests : Torn(r) =>
                      \E q \in Requests \ {r} : pc[q] = "storingData"
<1>1. TypeOK /\ ClientInv /\ [Next]_vars => [Step]_vars
  <2> SUFFICES ASSUME TypeOK, ClientInv, Next,
                      NEW r \in Requests, Torn(r)
               PROVE  \E q \in Requests \ {r} : pc[q] = "storingData"
    OBVIOUS
  <2> USE DEF TypeOK, Goto, Answer, shared
  <2>1. CallPanics(r)
    <3>1. ~RotateKeyFile /\ ~Restart
      BY DEF RotateKeyFile, Restart
    <3>2. ASSUME NEW q \in Requests,
                 \/ Arrive(q) \/ Validate(q) \/ CheckClient(q)
                 \/ CreateClient(q) \/ StoreTab(q) \/ StoreData(q)
                 \/ CallSends(q) \/ RemoteApplies(q) \/ CallReturns(q)
                 \/ CallFails(q) \/ DeadlineExpires(q)
          PROVE  FALSE
      BY <3>2 DEF Arrive, Validate, Refuse, Admit, CheckClient, CreateClient,
                  CreateClientFails, CreateClientSucceeds, StoreTab, StoreData,
                  CallSends, RemoteApplies, CallReturns, CallFails,
                  DeadlineExpires
    <3>3. ASSUME NEW q \in Requests, CallPanics(q)
          PROVE  q = r
      BY <3>3 DEF CallPanics
    <3> QED
      BY <3>1, <3>2, <3>3 DEF Next, Call
  <2>2. tab /\ data = Nothing
    BY <2>1 DEF CallPanics, ClientInv
  <2>3. PICK q \in Requests : pc[q] = "storingData"
    BY <2>2 DEF ClientInv
  <2>4. q # r
    BY <2>3
  <2> QED
    BY <2>3, <2>4
<1> QED
  BY <1>1, TypeCorrect, ClientInvariant, PTL
     DEF Spec, TornReadNeedsConcurrentStore

\* Once created and stored, the client stays, and no other one is made.
THEOREM ClientStays == Spec => ClientSettles
<1> DEFINE Step == Settled /\ tab' =>
                      Settled' /\ data' = data /\ instancers' = instancers
<1>1. TypeOK /\ [Next]_vars => [Step]_vars
  <2> SUFFICES ASSUME TypeOK, Next, Settled, tab'
               PROVE  Settled' /\ data' = data /\ instancers' = instancers
    OBVIOUS
  <2> USE DEF TypeOK, Settled, Goto, Answer, shared
  <2>1. CASE RotateKeyFile
    BY <2>1 DEF RotateKeyFile
  <2>2. CASE Restart
    BY <2>2 DEF Restart
  <2>3. ASSUME NEW r \in Requests,
               Arrive(r) \/ Validate(r) \/ CheckClient(r)
        PROVE  Settled' /\ data' = data /\ instancers' = instancers
    BY <2>3 DEF Arrive, Validate, Refuse, Admit, CheckClient
  <2>4. ASSUME NEW r \in Requests,
               CreateClient(r) \/ StoreTab(r) \/ StoreData(r)
        PROVE  FALSE
    BY <2>4 DEF CreateClient, CreateClientFails, CreateClientSucceeds,
                StoreTab, StoreData
  <2>5. ASSUME NEW r \in Requests,
               \/ Call(r)        \/ RemoteApplies(r) \/ CallReturns(r)
               \/ CallFails(r)   \/ DeadlineExpires(r)
        PROVE  Settled' /\ data' = data /\ instancers' = instancers
    BY <2>5 DEF Call, CallPanics, CallSends, RemoteApplies, CallReturns,
                CallFails, DeadlineExpires
  <2> QED
    BY <2>1, <2>2, <2>3, <2>4, <2>5 DEF Next
<1> QED
  BY <1>1, TypeCorrect, PTL DEF Spec, ClientSettles

-----------------------------------------------------------------------------

\* A request that the checks let through has a certificate that is the pair of
\* the key they read.
LEMMA AdmittedIsPaired ==
    ASSUME NEW c \in Certs \cup {NotACert}, NEW k \in Keys \cup {Nothing},
           PairError(c, k) = "nil"
    PROVE  c \in Certs /\ k \in Keys /\ KeyOf[c] = k
  BY NothingAssumption DEF PairError

THEOREM PairInvariant == Spec => []PairInv
<1>1. Init => PairInv
  BY DEF Init, PairInv
<1>2. TypeOK /\ PairInv /\ [Next]_vars => PairInv'
  <2> SUFFICES ASSUME TypeOK, PairInv, [Next]_vars
               PROVE  PairInv'
    OBVIOUS
  <2> USE NothingAssumption
      DEF TypeOK, PairInv, Owner, Paired, Goto, Answer, shared
  <2>1. CASE RotateKeyFile
    BY <2>1 DEF RotateKeyFile
  <2>2. CASE Restart
    BY <2>2 DEF Restart
  <2>3. ASSUME NEW r \in Requests, Arrive(r)
        PROVE  PairInv'
    BY <2>3 DEF Arrive
  <2>4. ASSUME NEW r \in Requests, Validate(r)
        PROVE  PairInv'
    <3>1. pc[r] = "received" /\ UNCHANGED <<crt, tab, data, used>>
      BY <2>4 DEF Validate, Refuse, Admit
    <3>2. /\ pc' = [pc EXCEPT ![r] = pc'[r]]
          /\ authKey' = [authKey EXCEPT ![r] = keyFile]
          /\ pc'[r] \in {"starting", "answered"}
      BY <2>4 DEF Validate, Refuse, Admit
    <3>3. pc'[r] = "starting" => Paired(r)'
      BY <2>4, AdmittedIsPaired DEF Validate, Refuse, Admit
    <3> QED
      BY <3>1, <3>2, <3>3
  <2>5. ASSUME NEW r \in Requests, CheckClient(r)
        PROVE  PairInv'
    BY <2>5 DEF CheckClient
  <2>6. ASSUME NEW r \in Requests, CreateClient(r)
        PROVE  PairInv'
    BY <2>6 DEF CreateClient, CreateClientFails, CreateClientSucceeds
  <2>7. ASSUME NEW r \in Requests, StoreTab(r) \/ StoreData(r)
        PROVE  PairInv'
    BY <2>7 DEF StoreTab, StoreData
  <2>8. ASSUME NEW r \in Requests, Call(r)
        PROVE  PairInv'
    BY <2>8 DEF Call, CallPanics, CallSends
  <2>9. ASSUME NEW r \in Requests,
               \/ RemoteApplies(r) \/ CallReturns(r)
               \/ CallFails(r)     \/ DeadlineExpires(r)
        PROVE  PairInv'
    BY <2>9 DEF RemoteApplies, CallReturns, CallFails, DeadlineExpires
  <2>10. CASE UNCHANGED vars
    BY <2>10 DEF vars
  <2> QED
    BY <2>1, <2>2, <2>3, <2>4, <2>5, <2>6, <2>7, <2>8, <2>9, <2>10 DEF Next
<1> QED
  BY <1>1, <1>2, TypeCorrect, PTL DEF Spec

\* A configuration only leaves over a client with a checked certificate.
THEOREM OnlyMatchedPairs == Spec => []MatchedPairOnly
<1>1. PairInv => MatchedPairOnly
  BY DEF PairInv, MatchedPairOnly, Owner, Paired
<1> QED
  BY <1>1, PairInvariant, PTL

-----------------------------------------------------------------------------

\* Appending r to a log leaves the entries before it where they are.
LEMMA AppendedLog ==
    ASSUME NEW S, NEW log \in Seq(S), NEW r \in S
    PROVE  /\ DOMAIN Append(log, r) = 1..(Len(log) + 1)
           /\ DOMAIN log = 1..Len(log)
           /\ Len(log) \in Nat
           /\ Append(log, r)[Len(log) + 1] = r
           /\ \A i \in 1..Len(log) : Append(log, r)[i] = log[i]
  OBVIOUS

THEOREM LogInvariant == Spec => []LogInv
<1>1. Init => LogInv
  BY DEF Init, LogInv, Applied, Accepted
<1>2. TypeOK /\ LogInv /\ [Next]_vars => LogInv'
  <2> SUFFICES ASSUME TypeOK, LogInv, [Next]_vars
               PROVE  LogInv'
    OBVIOUS
  <2> USE NothingAssumption
      DEF TypeOK, LogInv, Accepted, Goto, Answer, shared
  <2>0. UNCHANGED extLog => Applied' = Applied
    BY DEF Applied
  <2>1. CASE RotateKeyFile
    BY <2>0, <2>1 DEF RotateKeyFile
  <2>2. CASE Restart
    BY <2>0, <2>2 DEF Restart
  <2>3. ASSUME NEW r \in Requests, Arrive(r)
        PROVE  LogInv'
    BY <2>0, <2>3 DEF Arrive
  <2>4. ASSUME NEW r \in Requests, Validate(r)
        PROVE  LogInv'
    BY <2>0, <2>4 DEF Validate, Refuse, Admit
  <2>5. ASSUME NEW r \in Requests, CheckClient(r)
        PROVE  LogInv'
    BY <2>0, <2>5 DEF CheckClient
  <2>6. ASSUME NEW r \in Requests, CreateClient(r)
        PROVE  LogInv'
    BY <2>0, <2>6 DEF CreateClient, CreateClientFails, CreateClientSucceeds
  <2>7. ASSUME NEW r \in Requests, StoreTab(r) \/ StoreData(r)
        PROVE  LogInv'
    BY <2>0, <2>7 DEF StoreTab, StoreData
  <2>8. ASSUME NEW r \in Requests, Call(r)
        PROVE  LogInv'
    <3>1. Applied \subseteq Requests
      BY DEF Applied
    <3>2. CASE CallPanics(r)
      BY <2>0, <3>2 DEF CallPanics
    <3>3. CASE CallSends(r)
      BY <2>0, <3>1, <3>3 DEF CallSends
    <3> QED
      BY <2>8, <3>2, <3>3 DEF Call
  <2>9. ASSUME NEW r \in Requests, RemoteApplies(r)
        PROVE  LogInv'
    <3>1. Applied' = Applied \cup {r}
      BY <2>9, AppendedLog DEF RemoteApplies, Applied
    <3> QED
      BY <2>9, <3>1 DEF RemoteApplies
  <2>10. ASSUME NEW r \in Requests, CallReturns(r)
         PROVE  LogInv'
    BY <2>0, <2>10 DEF CallReturns
  <2>11. ASSUME NEW r \in Requests, CallFails(r) \/ DeadlineExpires(r)
         PROVE  LogInv'
    BY <2>0, <2>11 DEF CallFails, DeadlineExpires
  <2>12. CASE UNCHANGED vars
    BY <2>0, <2>12 DEF vars
  <2> QED
    BY <2>1, <2>2, <2>3, <2>4, <2>5, <2>6, <2>7, <2>8, <2>9, <2>10, <2>11,
       <2>12 DEF Next
<1> QED
  BY <1>1, <1>2, TypeCorrect, PTL DEF Spec

\* The extension's log respects the order in which requests were answered and
\* arrived.
THEOREM LogInRealTime == Spec => []RealTimeOrder
<1>1. Init => RealTimeOrder
  BY DEF Init, RealTimeOrder
<1>2. TypeOK /\ LogInv /\ RealTimeOrder /\ [Next]_vars => RealTimeOrder'
  <2> SUFFICES ASSUME TypeOK, LogInv, RealTimeOrder, [Next]_vars
               PROVE  RealTimeOrder'
    OBVIOUS
  <2> USE DEF TypeOK, RealTimeOrder, shared
  <2>1. ASSUME NEW r \in Requests, Arrive(r)
        PROVE  RealTimeOrder'
    <3>1. r \notin Applied
      BY <2>1 DEF Arrive, Goto, LogInv
    <3>2. \A i \in DOMAIN extLog : okBefore'[extLog[i]] = okBefore[extLog[i]]
      BY <2>1, <3>1 DEF Arrive, Applied
    <3> QED
      BY <2>1, <3>2 DEF Arrive
  <2>2. ASSUME NEW r \in Requests, RemoteApplies(r)
        PROVE  RealTimeOrder'
    <3> DEFINE n == Len(extLog)
    <3>1. /\ extLog' = Append(extLog, r)
          /\ okBefore' = okBefore
      BY <2>2 DEF RemoteApplies
    <3>2. /\ n \in Nat
          /\ DOMAIN extLog = 1..n
          /\ DOMAIN extLog' = 1..(n + 1)
          /\ extLog'[n + 1] = r
          /\ \A i \in 1..n : extLog'[i] = extLog[i]
      BY <3>1, AppendedLog
    <3>3. ASSUME NEW q \in okBefore[r]
          PROVE  \E j \in 1..n : extLog'[j] = q
      BY <3>2 DEF LogInv, Applied
    <3>4. ASSUME NEW i \in 1..n, NEW q \in okBefore[extLog[i]]
          PROVE  \E j \in 1..(i - 1) : extLog'[j] = q
      BY <3>2
    <3> HIDE DEF n
    <3> QED
      BY <3>1, <3>2, <3>3, <3>4
  <2>3. CASE UNCHANGED <<extLog, okBefore>>
    BY <2>3
  <2>4. ASSUME NEW r \in Requests,
               ~(Arrive(r) \/ RemoteApplies(r)),
               \/ Validate(r)   \/ CheckClient(r) \/ CreateClient(r)
               \/ StoreTab(r)   \/ StoreData(r)   \/ Call(r)
               \/ CallReturns(r) \/ CallFails(r)  \/ DeadlineExpires(r)
        PROVE  UNCHANGED <<extLog, okBefore>>
    BY <2>4 DEF Validate, CheckClient, CreateClient, CreateClientFails,
                CreateClientSucceeds, StoreTab, StoreData, Call, CallPanics,
                CallSends, CallReturns, CallFails, DeadlineExpires
  <2> QED
    BY <2>1, <2>2, <2>3, <2>4 DEF Next, RotateKeyFile, Restart, vars
<1> QED
  BY <1>1, <1>2, TypeCorrect, LogInvariant, PTL DEF Spec

-----------------------------------------------------------------------------

\* Nothing of a refused request was sent, and what was sent has been waited
\* for.
SentInv ==
    /\ \A r \in Requests : used[r] # Nothing => pc[r] \in {"waiting"} \cup Done
    /\ \A r \in Requests :
          pc[r] = "answered" /\ reply[r] \in ClientErrors => used[r] = Nothing

THEOREM SentInvariant == Spec => []SentInv
<1>1. Init => SentInv
  BY DEF Init, SentInv
<1>2. TypeOK /\ SentInv /\ [Next]_vars => SentInv'
  <2> SUFFICES ASSUME TypeOK, SentInv, [Next]_vars
               PROVE  SentInv'
    OBVIOUS
  <2> USE DEF TypeOK, SentInv, Goto, Answer, shared
  <2>1. CASE RotateKeyFile
    BY <2>1 DEF RotateKeyFile
  <2>2. CASE Restart
    BY <2>2 DEF Restart
  <2>3. ASSUME NEW r \in Requests,
               \/ Arrive(r)    \/ Validate(r) \/ CheckClient(r)
               \/ StoreTab(r)  \/ StoreData(r)
        PROVE  SentInv'
    BY <2>3 DEF Arrive, Validate, Refuse, Admit, CheckClient, StoreTab,
                StoreData
  <2>4. ASSUME NEW r \in Requests, CreateClient(r)
        PROVE  SentInv'
    BY <2>4 DEF CreateClient, CreateClientFails, CreateClientSucceeds
  <2>5. ASSUME NEW r \in Requests, Call(r)
        PROVE  SentInv'
    BY <2>5 DEF Call, CallPanics, CallSends
  <2>6. ASSUME NEW r \in Requests, RemoteApplies(r)
        PROVE  SentInv'
    BY <2>6 DEF RemoteApplies
  <2>7. ASSUME NEW r \in Requests,
               CallReturns(r) \/ CallFails(r) \/ DeadlineExpires(r)
        PROVE  SentInv'
    <3>1. PICK res \in {"nil", "errRemoteConnection"} :
             Answer(r, "waiting", res) /\ UNCHANGED used
      BY <2>7 DEF CallReturns, CallFails, DeadlineExpires
    <3>2. res \notin ClientErrors
      BY DEF ClientErrors
    <3> QED
      BY <3>1, <3>2
  <2>8. CASE UNCHANGED vars
    BY <2>8 DEF vars
  <2> QED
    BY <2>1, <2>2, <2>3, <2>4, <2>5, <2>6, <2>7, <2>8 DEF Next
<1> QED
  BY <1>1, <1>2, TypeCorrect, PTL DEF Spec

-----------------------------------------------------------------------------

\* A step on the way from the arrival of r to its end leaves the outcomes.
LEMMA GotoKeepsOutcomes ==
    ASSUME TypeOK, NEW r \in Requests,
           NEW from \in PCs \ ({"idle"} \cup Done),
           NEW to \in PCs \ ({"idle"} \cup Done),
           Goto(r, from, to), UNCHANGED reply
    PROVE  OutcomeOf' = OutcomeOf
  BY DEF TypeOK, Goto, OutcomeOf, Outcome

\* An answer settles the outcome of its request.
LEMMA AnswerSettles ==
    ASSUME TypeOK, NEW r \in Requests,
           NEW from \in PCs \ ({"idle"} \cup Done),
           NEW res \in Errors \cup {"nil"}, Answer(r, from, res)
    PROVE  /\ OutcomeOf[r] = "pending"
           /\ OutcomeOf' = [OutcomeOf EXCEPT ![r] =
                 IF res = "nil" THEN "accepted"
                 ELSE IF res \in ClientErrors THEN "refused" ELSE "failed"]
  BY DEF TypeOK, Goto, Answer, OutcomeOf, Outcome

\* The checks refuse with a client error.
LEMMA RefusalIsClientError ==
    ASSUME NEW c, NEW k, PairError(c, k) # "nil"
    PROVE  PairError(c, k) \in ClientErrors
  BY DEF PairError, ClientErrors

\* The service implements ConfigLog: the extension's application of a
\* configuration is the step at which it takes effect, the end of the process
\* loses all requests under way, and a panic loses its own.
THEOREM ImplementsLog == Spec => LogSpec
<1> USE DEF OutcomeOf
<1>1. Init => Log!Init
  BY DEF Init, Log!Init, Outcome
<1>2. TypeOK /\ LogInv /\ SentInv /\ [Next]_vars => [Log!Next]_(Log!vars)
  <2> SUFFICES ASSUME TypeOK, LogInv, SentInv, [Next]_vars
               PROVE  Log!Next \/ UNCHANGED Log!vars
    OBVIOUS
  <2> USE DEF Log!vars, shared
  <2>0. Log!Effective = Applied
    BY DEF Log!Effective, Applied
  <2>1. CASE RotateKeyFile
    BY <2>1 DEF RotateKeyFile, Outcome
  <2>2. CASE Restart
    <3> DEFINE S == {r \in Requests : pc[r] \notin {"idle"} \cup Done}
    <3>1. S \in SUBSET {r \in Requests : OutcomeOf[r] = "pending"}
      BY DEF Outcome
    <3>2. OutcomeOf' =
             [r \in Requests |-> IF r \in S THEN "lost" ELSE OutcomeOf[r]]
      BY <2>2 DEF Restart, Outcome
    <3>3. Log!Lose
      BY <2>2, <3>1, <3>2 DEF Restart, Log!Lose
    <3> QED
      BY <3>3 DEF Log!Next
  <2>3. ASSUME NEW r \in Requests, Arrive(r)
        PROVE  Log!Come(r)
    BY <2>3 DEF Arrive, Goto, Outcome, TypeOK, Log!Come, Log!Settle
  <2>4. ASSUME NEW r \in Requests, Validate(r)
        PROVE  Log!Refuse(r) \/ UNCHANGED Log!vars
    <3>1. CASE Admit(r)
      BY <2>4, <3>1, GotoKeepsOutcomes DEF Admit, Validate
    <3>2. CASE Refuse(r)
      <4>1. PICK res \in ClientErrors : Answer(r, "received", res)
        BY <3>2, RefusalIsClientError DEF Refuse
      <4>2. res \in Errors \cup {"nil"} /\ res # "nil"
        BY DEF Errors, ClientErrors
      <4>3. /\ OutcomeOf[r] = "pending"
            /\ OutcomeOf' = [OutcomeOf EXCEPT ![r] = "refused"]
        BY <4>1, <4>2, AnswerSettles
      <4>4. r \notin Applied
        BY <4>1 DEF Answer, Goto, LogInv, SentInv
      <4> QED
        BY <2>0, <2>4, <4>3, <4>4 DEF Validate, Log!Refuse, Log!Settle
    <3> QED
      BY <2>4, <3>1, <3>2 DEF Validate
  <2>5. ASSUME NEW r \in Requests,
               \/ CheckClient(r) \/ CreateClientSucceeds(r)
               \/ StoreTab(r)    \/ StoreData(r) \/ CallSends(r)
        PROVE  UNCHANGED Log!vars
    <3>1. PICK from \in PCs \ ({"idle"} \cup Done),
               to \in PCs \ ({"idle"} \cup Done) : Goto(r, from, to)
      BY <2>5 DEF CheckClient, CreateClientSucceeds, StoreTab, StoreData,
                  CallSends
    <3>2. UNCHANGED <<reply, extLog>>
      BY <2>5 DEF CheckClient, CreateClientSucceeds, StoreTab, StoreData,
                  CallSends
    <3> QED
      BY <3>1, <3>2, GotoKeepsOutcomes
  <2>6. ASSUME NEW r \in Requests, CallPanics(r)
        PROVE  Log!Lose
    <3>1. {r} \in SUBSET {q \in Requests : OutcomeOf[q] = "pending"}
      BY <2>6 DEF CallPanics, Goto, Outcome
    <3>2. OutcomeOf' =
             [q \in Requests |-> IF q \in {r} THEN "lost" ELSE OutcomeOf[q]]
      BY <2>6 DEF CallPanics, Goto, Outcome, TypeOK
    <3> QED
      BY <2>6, <3>1, <3>2 DEF CallPanics, Log!Lose
  <2>7. ASSUME NEW r \in Requests,
               CreateClientFails(r) \/ CallFails(r) \/ DeadlineExpires(r)
        PROVE  Log!Fail(r)
    <3>1. PICK from \in PCs \ ({"idle"} \cup Done) :
             Answer(r, from, "errRemoteConnection")
      BY <2>7 DEF CreateClientFails, CallFails, DeadlineExpires
    <3>2. /\ "errRemoteConnection" \in Errors \ ClientErrors
          /\ "errRemoteConnection" # "nil"
      BY DEF Errors, ClientErrors, ServerErrors
    <3>3. /\ OutcomeOf[r] = "pending"
          /\ OutcomeOf' = [OutcomeOf EXCEPT ![r] = "failed"]
      BY <3>1, <3>2, AnswerSettles
    <3>4. UNCHANGED extLog
      BY <2>7 DEF CreateClientFails, CallFails, DeadlineExpires
    <3> QED
      BY <3>3, <3>4 DEF Log!Fail, Log!Settle
  <2>8. ASSUME NEW r \in Requests, CallReturns(r)
        PROVE  Log!Accept(r)
    <3>1. /\ OutcomeOf[r] = "pending"
          /\ OutcomeOf' = [OutcomeOf EXCEPT ![r] = "accepted"]
      BY <2>8, AnswerSettles DEF CallReturns
    <3> QED
      BY <2>0, <2>8, <3>1 DEF CallReturns, Log!Accept, Log!Settle
  <2>9. ASSUME NEW r \in Requests, RemoteApplies(r)
        PROVE  Log!Apply(r)
    <3>1. OutcomeOf[r] \in {"pending", "failed", "lost"}
      BY <2>9 DEF RemoteApplies, LogInv, SentInv, Accepted, Outcome
    <3>2. OutcomeOf' = OutcomeOf
      BY <2>9 DEF RemoteApplies, Outcome
    <3> QED
      BY <2>0, <2>9, <3>1, <3>2 DEF RemoteApplies, Log!Apply
  <2>10. CASE UNCHANGED vars
    BY <2>10 DEF vars, Outcome
  <2> QED
    BY <2>1, <2>2, <2>3, <2>4, <2>5, <2>6, <2>7, <2>8, <2>9, <2>10
       DEF Next, CreateClient, Call, Log!Next
<1> QED
  BY <1>1, <1>2, TypeCorrect, LogInvariant, SentInvariant, PTL
     DEF Spec, LogSpec, Log!Spec

\* What ConfigLog says of its own log therefore holds of the extension's: an
\* accepted configuration is in it, none twice, no refused one ever.
THEOREM LogKeepsPromises == Spec => []Log!LogAgrees
<1> USE DEF Log!LogAgrees, Log!Effective
<1>1. Log!Init => Log!LogAgrees
  BY DEF Log!Init
<1>2. ASSUME TypeOK, Log!LogAgrees, [Log!Next]_(Log!vars)
      PROVE  Log!LogAgrees'
  <2>1. DOMAIN OutcomeOf = Requests /\ extLog \in Seq(Requests)
    BY <1>2 DEF TypeOK, OutcomeOf
  <2>2. CASE Log!Lose
    BY <1>2, <2>1, <2>2 DEF Log!Lose
  <2>3. ASSUME NEW r \in Requests,
               Log!Come(r) \/ Log!Refuse(r) \/ Log!Accept(r) \/ Log!Fail(r)
        PROVE  Log!LogAgrees'
    BY <1>2, <2>1, <2>3
       DEF Log!Come, Log!Refuse, Log!Accept, Log!Fail, Log!Settle
  <2>4. ASSUME NEW r \in Requests, Log!Apply(r)
        PROVE  Log!LogAgrees'
    BY <1>2, <2>1, <2>4, AppendedLog DEF Log!Apply
  <2>5. CASE UNCHANGED Log!vars
    BY <1>2, <2>1, <2>5 DEF Log!vars
  <2> QED
    BY <1>2, <2>2, <2>3, <2>4, <2>5 DEF Log!Next
<1> QED
  BY <1>1, <1>2, ImplementsLog, TypeCorrect, PTL DEF LogSpec, Log!Spec

-----------------------------------------------------------------------------

\* As long as the key file stays as it is, what a request was checked against
\* is its content.
SpecWithoutRotation == Init /\ [][Next /\ UNCHANGED keyFile]_vars

FileInv ==
    /\ \A r \in Requests : authKey[r] \in {Nothing, keyFile}
    /\ \A r \in Requests :
          pc[r] \notin {"idle", "received", "aborted"} => authKey[r] = keyFile

\* The README's promise about the key of the mTLS connection, which does not
\* hold in general, is broken by a rotation of the file and by nothing else:
\* neither by the race for s.extClient nor by a restart.
THEOREM OwnKeyWithoutRotation == SpecWithoutRotation => []SentWithTheFilesKey
<1>1. SpecWithoutRotation => Spec
  <2>1. [Next /\ UNCHANGED keyFile]_vars => [Next]_vars
    OBVIOUS
  <2> QED
    BY <2>1, PTL DEF SpecWithoutRotation, Spec
<1>2. Init => FileInv
  BY DEF Init, FileInv
<1>3. TypeOK /\ FileInv /\ [Next /\ UNCHANGED keyFile]_vars => FileInv'
  <2> SUFFICES ASSUME TypeOK, FileInv, [Next /\ UNCHANGED keyFile]_vars
               PROVE  FileInv'
    OBVIOUS
  <2> USE DEF TypeOK, FileInv, Goto, Answer, shared
  <2>0. keyFile' = keyFile
    BY DEF vars
  <2>1. ASSUME NEW r \in Requests, Validate(r)
        PROVE  FileInv'
    BY <2>0, <2>1 DEF Validate, Refuse, Admit
  <2>2. CASE Restart
    BY <2>0, <2>2 DEF Restart
  <2>3. ASSUME NEW r \in Requests,
               \/ Arrive(r)   \/ CheckClient(r) \/ CreateClient(r)
               \/ StoreTab(r) \/ StoreData(r)   \/ Call(r)
        PROVE  FileInv'
    BY <2>0, <2>3 DEF Arrive, CheckClient, CreateClient, CreateClientFails,
                      CreateClientSucceeds, StoreTab, StoreData, Call,
                      CallPanics, CallSends
  <2>4. ASSUME NEW r \in Requests,
               \/ RemoteApplies(r) \/ CallReturns(r)
               \/ CallFails(r)     \/ DeadlineExpires(r)
        PROVE  FileInv'
    BY <2>0, <2>4 DEF RemoteApplies, CallReturns, CallFails, DeadlineExpires
  <2>5. CASE RotateKeyFile \/ UNCHANGED vars
    BY <2>0, <2>5 DEF RotateKeyFile, vars
  <2> QED
    BY <2>1, <2>2, <2>3, <2>4, <2>5 DEF Next
<1>4. TypeOK /\ LogInv /\ PairInv /\ FileInv => SentWithTheFilesKey
  <2> SUFFICES ASSUME TypeOK, LogInv, PairInv, FileInv, NEW r \in Accepted
               PROVE  KeyOf[crt[used[r]]] = authKey[r]
    BY DEF SentWithTheFilesKey
  <2> DEFINE owner == used[r]
  <2>1. r \in Requests /\ pc[r] = "answered" /\ owner # Nothing
    BY DEF Accepted, LogInv
  <2>2. owner \in Requests /\ Paired(owner)
    BY <2>1 DEF TypeOK, PairInv, Owner
  <2>3. authKey[owner] = keyFile /\ authKey[r] = keyFile
    BY <2>1, <2>2, NothingAssumption DEF FileInv, Paired
  <2> QED
    BY <2>2, <2>3 DEF Paired
<1>5. SpecWithoutRotation => []FileInv
  BY <1>1, <1>2, <1>3, TypeCorrect, PTL DEF SpecWithoutRotation
<1> QED
  BY <1>1, <1>4, <1>5, TypeCorrect, LogInvariant, PairInvariant, PTL

=============================================================================
