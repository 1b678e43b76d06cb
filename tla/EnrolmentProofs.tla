--------------------------- MODULE EnrolmentProofs ---------------------------
(***************************************************************************)
(* Proofs about Enrolment for every number of requests and every content   *)
(* they may have: its invariants, and that it implements CertLedger.       *)
(***************************************************************************)
EXTENDS Enrolment, TLAPS

\* How far a request got and what that has left behind: nothing before its
\* signing request is made, and nothing recorded that was not posted, nothing
\* posted that was not issued.
StageInv ==
    /\ \A r \in Requests :
          pc[r] \in {"idle", "received", "making"} => csr[r] = NoCSR
    /\ \A r \in Requests : reply[r] # "none" => pc[r] = "answered"
    /\ \A r \in Requests : reply[r] \in ClientErrors => csr[r] = NoCSR
    /\ \A r \in issued : csr[r] # NoCSR
    /\ posted \subseteq issued
    /\ recorded \cup rejected \subseteq posted
    /\ DeliveredWasAnnounced

\* A key is made for checked input only.
KeyInv ==
    /\ \A r \in Requests : pc[r] = "making" => InputError(req[r]) = "nil"
    /\ KeyFitsCSR

-----------------------------------------------------------------------------
\* Facts about the pure operators.

\* The checks answer with one of the client errors or with none.
LEMMA InputErrorType ==
    ASSUME NEW in \in Inputs
    PROVE  InputError(in) \in ClientErrors \cup {"nil"}
  BY DEF InputError, checkKeyAlg, checkKeySize, ClientErrors

\* Input that passes the checks has a key, and the signature fits it.
LEMMA CheckedInputHasKey ==
    ASSUME NEW in \in Inputs, InputError(in) = "nil"
    PROVE  /\ makeCSR(in) # NoCSR
           /\ makeCSR(in).key # NilKey
           /\ SigFits(makeCSR(in).sig, makeCSR(in).key)
<1>1. in.alg \in {"EC", "RSA"} /\ checkKeySize(in.alg, in.size) = "nil"
  BY InputsAssumption DEF InputError, checkKeyAlg, checkKeySize
<1>2. makeKey(in.alg, in.size) = [alg |-> in.alg, size |-> in.size]
  BY <1>1 DEF checkKeySize, makeKey
<1>3. /\ makeCSR(in).key = [alg |-> in.alg, size |-> in.size]
      /\ makeCSR(in).sig = checkSignatureAlgorithm(in.alg)
  BY <1>2 DEF makeCSR
<1>4. makeCSR(in).key # NilKey
  <2>1. makeCSR(in).key.alg # NilKey.alg
    BY <1>1, <1>3 DEF NilKey
  <2> QED
    BY <2>1
<1>5. makeCSR(in) # NoCSR
  <2>1. NoCSR.key = NilKey
    BY DEF NoCSR
  <2> QED
    BY <1>4, <2>1
<1>6. SigFits(makeCSR(in).sig, makeCSR(in).key)
  BY <1>1, <1>3 DEF SigFits, checkSignatureAlgorithm
<1> QED
  BY <1>4, <1>5, <1>6

\* A signing request has its type whatever it is made from.
LEMMA CSRType ==
    /\ NoCSR \in CSRs
    /\ \A in \in Inputs : makeCSR(in) \in CSRs
<1>1. NilKey \in KeyPairs
  BY DEF NilKey, KeyPairs
<1>2. NoCSR \in CSRs
  BY <1>1 DEF NoCSR, CSRs, SigAlgs
<1>3. ASSUME NEW in \in Inputs
      PROVE  makeCSR(in) \in CSRs
  <2>1. in.size \in Nat
    BY InputsAssumption
  <2>2. makeKey(in.alg, in.size) \in KeyPairs
    BY <1>1, <2>1 DEF makeKey, KeyPairs
  <2>3. checkSignatureAlgorithm(in.alg) \in SigAlgs
    BY DEF checkSignatureAlgorithm, SigAlgs
  <2> QED
    BY <2>2, <2>3 DEF makeCSR, CSRs
<1> QED
  BY <1>2, <1>3

\* Only a client error has the status 400.
LEMMA BadRequestIsClientError ==
    ASSUME NEW err, StatusOf(err) = 400
    PROVE  err \in ClientErrors
  BY DEF StatusOf, codeFrom, ClientErrors

\* No error is called "nil" or "none".
LEMMA ErrorNames ==
    /\ "nil" \notin Errors
    /\ "none" \notin Errors
    /\ ClientErrors \subseteq Errors
    /\ {"errCSR", "errEnroll", "errPost"} \subseteq Errors \ ClientErrors
  BY DEF Errors, ClientErrors, ServerErrors, InnerErrors

-----------------------------------------------------------------------------

\* Every variable keeps its type.
THEOREM TypeCorrect == Spec => []TypeOK
<1>1. Init => TypeOK
  BY CSRType DEF Init, TypeOK, PCs
<1>2. TypeOK /\ [Next]_vars => TypeOK'
  <2> SUFFICES ASSUME TypeOK, [Next]_vars
               PROVE  TypeOK'
    OBVIOUS
  <2> USE DEF TypeOK, Goto, Answer, remote, PCs, Done
  <2>1. CASE Restart \/ UNCHANGED vars
    BY <2>1 DEF Restart, vars
  <2>2. ASSUME NEW r \in Requests, Arrive(r)
        PROVE  TypeOK'
    BY <2>2 DEF Arrive
  <2>3. ASSUME NEW r \in Requests, Validate(r)
        PROVE  TypeOK'
    BY <2>3, InputErrorType, ErrorNames DEF Validate, Refuse, Admit
  <2>4. ASSUME NEW r \in Requests, MakeRequest(r)
        PROVE  TypeOK'
    BY <2>4, CSRType, ErrorNames DEF MakeRequest, MakeFails, MakeSucceeds
  <2>5. ASSUME NEW r \in Requests, EnrollReturns(r) \/ EnrollFails(r)
        PROVE  TypeOK'
    BY <2>5, ErrorNames DEF EnrollReturns, EnrollFails
  <2>6. ASSUME NEW r \in Requests, PostReturns(r) \/ PostFails(r)
        PROVE  TypeOK'
    BY <2>6, ErrorNames DEF PostReturns, PostFails
  <2>7. ASSUME NEW r \in Requests,
               \/ CAIssues(r)
               \/ DeviceManagerRecords(r) \/ DeviceManagerRejects(r)
        PROVE  TypeOK'
    BY <2>7 DEF CAIssues, DeviceManagerRecords, DeviceManagerRejects
  <2> QED
    BY <2>1, <2>2, <2>3, <2>4, <2>5, <2>6, <2>7 DEF Next
<1> QED
  BY <1>1, <1>2, PTL DEF Spec

-----------------------------------------------------------------------------

THEOREM StageInvariant == Spec => []StageInv
<1> USE DEF Done
<1>1. Init => StageInv
  BY ErrorNames DEF Init, StageInv, DeliveredWasAnnounced
<1>2. TypeOK /\ StageInv /\ [Next]_vars => StageInv'
  <2> SUFFICES ASSUME TypeOK, StageInv, [Next]_vars
               PROVE  StageInv'
    OBVIOUS
  <2> USE DEF TypeOK, StageInv, DeliveredWasAnnounced, Goto, Answer, remote
  <2>1. CASE Restart \/ UNCHANGED vars
    BY <2>1 DEF Restart, vars
  <2>2. ASSUME NEW r \in Requests, Arrive(r)
        PROVE  StageInv'
    BY <2>2 DEF Arrive
  <2>3. ASSUME NEW r \in Requests, Refuse(r)
        PROVE  StageInv'
    BY <2>3 DEF Refuse
  <2>4. ASSUME NEW r \in Requests, Admit(r)
        PROVE  StageInv'
    BY <2>4 DEF Admit
  <2>5. ASSUME NEW r \in Requests, MakeFails(r)
        PROVE  StageInv'
    BY <2>5, ErrorNames DEF MakeFails
  <2>6. ASSUME NEW r \in Requests, MakeSucceeds(r)
        PROVE  StageInv'
    <3>1. r \notin issued /\ reply[r] = "none"
      BY <2>6 DEF MakeSucceeds
    <3> QED
      BY <2>6, <3>1, ErrorNames DEF MakeSucceeds
  <2>7. ASSUME NEW r \in Requests, CAIssues(r)
        PROVE  StageInv'
    BY <2>7 DEF CAIssues
  <2>8. ASSUME NEW r \in Requests, EnrollReturns(r)
        PROVE  StageInv'
    BY <2>8 DEF EnrollReturns
  <2>9. ASSUME NEW r \in Requests, EnrollFails(r) \/ PostFails(r)
        PROVE  StageInv'
    BY <2>9, ErrorNames DEF EnrollFails, PostFails
  <2>10. ASSUME NEW r \in Requests,
                DeviceManagerRecords(r) \/ DeviceManagerRejects(r)
         PROVE  StageInv'
    BY <2>10 DEF DeviceManagerRecords, DeviceManagerRejects, Unheard
  <2>11. ASSUME NEW r \in Requests, PostReturns(r)
         PROVE  StageInv'
    BY <2>11, ErrorNames DEF PostReturns
  <2> QED
    BY <2>1, <2>2, <2>3, <2>4, <2>5, <2>6, <2>7, <2>8, <2>9, <2>10, <2>11
       DEF Next, Validate, MakeRequest
<1> QED
  BY <1>1, <1>2, TypeCorrect, PTL DEF Spec

THEOREM KeyInvariant == Spec => []KeyInv
<1> USE DEF Done
<1>1. Init => KeyInv
  BY DEF Init, KeyInv, KeyFitsCSR
<1>2. TypeOK /\ KeyInv /\ [Next]_vars => KeyInv'
  <2> SUFFICES ASSUME TypeOK, KeyInv, [Next]_vars
               PROVE  KeyInv'
    OBVIOUS
  <2> USE DEF TypeOK, KeyInv, KeyFitsCSR, Goto, Answer, remote
  <2>making. ASSUME NEW r \in Requests, MakeSucceeds(r)
             PROVE  KeyInv'
    BY <2>making, CheckedInputHasKey DEF MakeSucceeds
  <2>checking. ASSUME NEW r \in Requests,
                      Arrive(r) \/ Validate(r) \/ MakeFails(r)
               PROVE  KeyInv'
    BY <2>checking DEF Arrive, Validate, Refuse, Admit, MakeFails
  \* Once made, a signing request stays as it is.
  <2>made. ASSUME NEW r \in Requests,
                  \/ CAIssues(r)    \/ EnrollReturns(r) \/ EnrollFails(r)
                  \/ PostReturns(r) \/ PostFails(r)
                  \/ DeviceManagerRecords(r) \/ DeviceManagerRejects(r)
           PROVE  KeyInv'
    BY <2>made DEF CAIssues, EnrollReturns, EnrollFails, PostReturns, PostFails,
                   DeviceManagerRecords, DeviceManagerRejects
  <2>restart. CASE Restart \/ UNCHANGED vars
    BY <2>restart DEF Restart, vars
  <2> QED
    BY <2>making, <2>checking, <2>made, <2>restart DEF Next, MakeRequest
<1> QED
  BY <1>1, <1>2, TypeCorrect, PTL DEF Spec

\* Every signing request has a key, and its signature algorithm fits it.
THEOREM CheckedKeysFit == Spec => []KeyFitsCSR
<1>1. KeyInv => KeyFitsCSR
  BY DEF KeyInv
<1> QED
  BY <1>1, KeyInvariant, PTL

\* A request answered with status 400 has left nothing behind.
THEOREM RefusalLeavesNothing == Spec => []ClientErrorIsEffectFree
<1>1. StageInv => ClientErrorIsEffectFree
  BY BadRequestIsClientError DEF StageInv, ClientErrorIsEffectFree
<1> QED
  BY <1>1, StageInvariant, PTL

\* The device manager only records certificates that were issued.
THEOREM RecordsAreOfIssued == Spec => []RecordFollowsIssue
<1>1. StageInv => RecordFollowsIssue
  BY DEF StageInv, RecordFollowsIssue
<1> QED
  BY <1>1, StageInvariant, PTL

\* A delivered certificate exists and the device manager has answered.
THEOREM DeliveredAnnounced == Spec => []DeliveredWasAnnounced
<1>1. StageInv => DeliveredWasAnnounced
  BY DEF StageInv
<1> QED
  BY <1>1, StageInvariant, PTL

-----------------------------------------------------------------------------
\* The refinement of CertLedger.

Outcomes == [r \in Requests |-> Outcome(r)]

\* An answer given to r settles r and nothing else.
LEMMA AnswerSettles ==
    ASSUME TypeOK, StageInv, NEW r \in Requests, NEW from, NEW res,
           from \notin Done, Answer(r, from, res)
    PROVE  /\ Outcome(r) = "pending"
           /\ Outcomes' = [Outcomes EXCEPT ![r] =
                 IF res = "nil" THEN "delivered"
                 ELSE IF res \in ClientErrors THEN "refused" ELSE "failed"]
<1>1. Outcome(r) = "pending"
  BY DEF Answer, Goto, Outcome, Done
<1>2. Outcome(r)' = IF res = "nil" THEN "delivered"
                    ELSE IF res \in ClientErrors THEN "refused" ELSE "failed"
  BY DEF Answer, Goto, Outcome, TypeOK
<1>3. ASSUME NEW q \in Requests \ {r}
      PROVE  Outcome(q)' = Outcome(q)
  BY DEF Answer, Goto, Outcome, TypeOK
<1> QED
  BY <1>1, <1>2, <1>3 DEF Outcomes

\* A step from one place to another inside the process settles nothing.
LEMMA GotoKeepsOutcomes ==
    ASSUME TypeOK, NEW r \in Requests, NEW from, NEW to,
           from \notin Done, to \notin Done, Goto(r, from, to), reply' = reply
    PROVE  Outcomes' = Outcomes
<1>1. ASSUME NEW q \in Requests
      PROVE  Outcome(q)' = Outcome(q)
  BY DEF Goto, Outcome, TypeOK, Done
<1> QED
  BY <1>1 DEF Outcomes

THEOREM ImplementsLedger == Spec => LedgerSpec
<1>1. Init => Ledger!Init
  BY DEF Init, Ledger!Init, Outcome
<1>2. TypeOK /\ StageInv /\ [Next]_vars => [Ledger!Next]_(Ledger!vars)
  <2> SUFFICES ASSUME TypeOK, StageInv, [Next]_vars
               PROVE  Ledger!Next \/ UNCHANGED Ledger!vars
    OBVIOUS
  <2> USE DEF Ledger!vars, remote
  <2>1. CASE Restart
    <3> DEFINE S == {r \in Requests : pc[r] \notin {"idle"} \cup Done}
    <3>1. S \in SUBSET {r \in Requests : Outcomes[r] = "pending"}
      BY DEF Outcomes, Outcome, Done
    <3>2. Outcomes' = [r \in Requests |-> IF r \in S THEN "lost" ELSE Outcomes[r]]
      BY <2>1 DEF Restart, Outcomes, Outcome, Done
    <3>3. Ledger!Lose
      BY <2>1, <3>1, <3>2 DEF Restart, Ledger!Lose, Outcomes
    <3> QED
      BY <3>3 DEF Ledger!Next
  <2>2. ASSUME NEW r \in Requests, Arrive(r) \/ Admit(r) \/ MakeSucceeds(r)
        PROVE  UNCHANGED Ledger!vars
    <3>1. PICK from \in PCs \ Done, to \in PCs \ Done : Goto(r, from, to)
      BY <2>2 DEF Arrive, Admit, MakeSucceeds, PCs, Done
    <3>2. Outcomes' = Outcomes
      BY <2>2, <3>1, GotoKeepsOutcomes DEF Arrive, Admit, MakeSucceeds
    <3> QED
      BY <2>2, <3>2 DEF Arrive, Admit, MakeSucceeds, Outcomes
  <2>3. ASSUME NEW r \in Requests, EnrollReturns(r)
        PROVE  UNCHANGED Ledger!vars
    <3>1. Outcomes' = Outcomes
      <4>1. "enrolling" \notin Done /\ "notifying" \notin Done
        BY DEF Done
      <4> QED
        BY <2>3, <4>1, GotoKeepsOutcomes DEF EnrollReturns
    <3> QED
      BY <2>3, <3>1 DEF EnrollReturns, Outcomes
  <2>4. ASSUME NEW r \in Requests, Refuse(r)
        PROVE  Ledger!Refuse(r)
    <3>1. InputError(req[r]) \in ClientErrors
      BY <2>4, InputErrorType DEF Refuse, TypeOK
    <3>2. r \notin issued
      BY <2>4 DEF Refuse, Answer, Goto, StageInv
    <3>3. /\ Outcomes[r] = "pending"
          /\ Outcomes' = [Outcomes EXCEPT ![r] = "refused"]
      BY <2>4, <3>1, AnswerSettles, ErrorNames DEF Refuse, Done, Outcomes
    <3> QED
      BY <2>4, <3>2, <3>3 DEF Refuse, Ledger!Refuse, Ledger!Settle, Outcomes
  <2>5. ASSUME NEW r \in Requests,
               MakeFails(r) \/ EnrollFails(r) \/ PostFails(r)
        PROVE  Ledger!Fail(r)
    <3>1. /\ Outcomes[r] = "pending"
          /\ Outcomes' = [Outcomes EXCEPT ![r] = "failed"]
      BY <2>5, AnswerSettles, ErrorNames
         DEF MakeFails, EnrollFails, PostFails, Done, Outcomes
    <3>2. UNCHANGED <<issued, recorded>>
      BY <2>5 DEF MakeFails, EnrollFails, PostFails
    <3> QED
      BY <3>1, <3>2 DEF Ledger!Fail, Ledger!Settle, Outcomes
  <2>6. ASSUME NEW r \in Requests, PostReturns(r)
        PROVE  Ledger!Deliver(r)
    <3>1. /\ Outcomes[r] = "pending"
          /\ Outcomes' = [Outcomes EXCEPT ![r] = "delivered"]
      BY <2>6, AnswerSettles DEF PostReturns, Done, Outcomes
    <3>2. r \in issued /\ UNCHANGED <<issued, recorded>>
      BY <2>6 DEF PostReturns, StageInv
    <3> QED
      BY <3>1, <3>2 DEF Ledger!Deliver, Ledger!Settle, Outcomes
  <2>7. ASSUME NEW r \in Requests, CAIssues(r)
        PROVE  Ledger!Issue(r)
    <3>1. Outcomes[r] \notin {"refused", "delivered"}
      BY <2>7 DEF CAIssues, StageInv, DeliveredWasAnnounced, Outcomes, Outcome
    <3>2. Outcomes' = Outcomes
      BY <2>7 DEF CAIssues, Outcomes, Outcome
    <3> QED
      BY <2>7, <3>1, <3>2 DEF CAIssues, Ledger!Issue, Outcomes
  <2>8. ASSUME NEW r \in Requests, DeviceManagerRecords(r)
        PROVE  Ledger!Announce(r)
    <3>1. r \in issued \ recorded
      BY <2>8 DEF DeviceManagerRecords, Unheard, StageInv
    <3>2. Outcomes' = Outcomes
      BY <2>8 DEF DeviceManagerRecords, Outcomes, Outcome
    <3> QED
      BY <2>8, <3>1, <3>2 DEF DeviceManagerRecords, Ledger!Announce, Outcomes
  <2>9. ASSUME NEW r \in Requests, DeviceManagerRejects(r)
        PROVE  UNCHANGED Ledger!vars
    BY <2>9 DEF DeviceManagerRejects, Outcome
  <2>10. CASE UNCHANGED vars
    BY <2>10 DEF vars, Outcome
  <2> QED
    BY <2>1, <2>2, <2>3, <2>4, <2>5, <2>6, <2>7, <2>8, <2>9, <2>10
       DEF Next, Validate, MakeRequest, Ledger!Next
<1> QED
  BY <1>1, <1>2, TypeCorrect, StageInvariant, PTL
     DEF Spec, LedgerSpec, Ledger!Spec

-----------------------------------------------------------------------------

\* Why a certificate that exists may not reach its caller: the authority's
\* answer, or the device manager's, does not arrive.
LossIsRemote ==
    /\ \A r \in issued :
          pc[r] = "answered" => reply[r] \in {"nil", "errEnroll", "errPost"}
    /\ \A r \in posted :
          pc[r] = "answered" => reply[r] \in {"nil", "errPost"}

\* The same of requests that the authority may still answer, and where the
\* posted ones are.
LossInv ==
    /\ \A r \in Requests :
          pc[r] = "answered" /\ csr[r] # NoCSR
             => reply[r] \in {"nil", "errEnroll", "errPost"}
    /\ \A r \in posted :
          \/ pc[r] \in {"notifying", "aborted"}
          \/ pc[r] = "answered" /\ reply[r] \in {"nil", "errPost"}

\* TestPostGetCRT's expectation, a certificate for whoever the authority has
\* issued one for, fails for lost answers only, when no restart intervenes: no
\* check, key or encoding of the service's own can lose a certificate.
THEOREM OnlyLostAnswersLose == Spec => []LossIsRemote
<1> USE DEF Done, PCs
<1>1. Init => LossInv
  BY DEF Init, LossInv
<1>2. TypeOK /\ StageInv /\ LossInv /\ [Next]_vars => LossInv'
  <2> SUFFICES ASSUME TypeOK, StageInv, LossInv, [Next]_vars
               PROVE  LossInv'
    OBVIOUS
  <2> USE DEF TypeOK, LossInv, Goto, Answer, remote
  <2>1. CASE Restart \/ UNCHANGED vars
    BY <2>1 DEF Restart, vars
  <2>2. ASSUME NEW r \in Requests, Arrive(r)
        PROVE  LossInv'
    BY <2>2 DEF Arrive
  <2>3. ASSUME NEW r \in Requests, Validate(r) \/ MakeFails(r)
        PROVE  LossInv'
    <3>1. csr[r] = NoCSR /\ UNCHANGED <<csr, posted>>
      BY <2>3 DEF Validate, Refuse, Admit, MakeFails, StageInv
    <3>2. PICK to : /\ pc' = [pc EXCEPT ![r] = to]
                    /\ pc[r] \in {"received", "making"}
      BY <2>3 DEF Validate, Refuse, Admit, MakeFails
    <3>3. \A q \in Requests : q # r => reply'[q] = reply[q]
      BY <2>3 DEF Validate, Refuse, Admit, MakeFails
    <3> QED
      BY <3>1, <3>2, <3>3
  <2>4. ASSUME NEW r \in Requests, MakeSucceeds(r)
        PROVE  LossInv'
    BY <2>4 DEF MakeSucceeds
  <2>5. ASSUME NEW r \in Requests, EnrollReturns(r) \/ EnrollFails(r)
        PROVE  LossInv'
    BY <2>5 DEF EnrollReturns, EnrollFails
  <2>6. ASSUME NEW r \in Requests, PostReturns(r) \/ PostFails(r)
        PROVE  LossInv'
    BY <2>6 DEF PostReturns, PostFails
  <2>7. ASSUME NEW r \in Requests,
               \/ CAIssues(r)
               \/ DeviceManagerRecords(r) \/ DeviceManagerRejects(r)
        PROVE  LossInv'
    BY <2>7 DEF CAIssues, DeviceManagerRecords, DeviceManagerRejects
  <2> QED
    BY <2>1, <2>2, <2>3, <2>4, <2>5, <2>6, <2>7
       DEF Next, MakeRequest
<1>3. TypeOK /\ StageInv /\ LossInv => LossIsRemote
  BY DEF TypeOK, StageInv, LossInv, LossIsRemote
<1> QED
  BY <1>1, <1>2, <1>3, TypeCorrect, StageInvariant, PTL DEF Spec

=============================================================================
