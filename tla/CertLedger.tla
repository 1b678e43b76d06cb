------------------------------ MODULE CertLedger ------------------------------
(***************************************************************************)
(* What the manufacturing service promises about certificates, whatever    *)
(* the steps in between: the certificate authority issues at most one per  *)
(* request, none for a request that is refused, the device manager hears   *)
(* of none that was not issued, and none is delivered that was not issued. *)
(***************************************************************************)
CONSTANT Requests

VARIABLES
    outcome,    \* what became of each request
    issued,     \* the requests for which a certificate exists
    announced   \* the requests whose certificate the device manager recorded

Outcomes == {"pending", "delivered", "refused", "failed", "lost"}

vars == <<outcome, issued, announced>>

Init ==
    /\ outcome = [r \in Requests |-> "pending"]
    /\ issued = {}
    /\ announced = {}

Settle(r, result) ==
    /\ outcome[r] = "pending"
    /\ outcome' = [outcome EXCEPT ![r] = result]
    /\ UNCHANGED <<issued, announced>>

\* Refused requests have no certificate, and will have none.
Refuse(r) == r \notin issued /\ Settle(r, "refused")

Deliver(r) == r \in issued /\ Settle(r, "delivered")

Fail(r) == Settle(r, "failed")

\* The process ends and some of the requests are never answered.
Lose ==
    \E S \in SUBSET {r \in Requests : outcome[r] = "pending"} :
       /\ outcome' = [r \in Requests |-> IF r \in S THEN "lost" ELSE outcome[r]]
       /\ UNCHANGED <<issued, announced>>

\* Also for a request that has failed or was lost: the authority may be late.
Issue(r) ==
    /\ outcome[r] \notin {"refused", "delivered"}
    /\ r \notin issued
    /\ issued' = issued \cup {r}
    /\ UNCHANGED <<outcome, announced>>

Announce(r) ==
    /\ r \in issued \ announced
    /\ announced' = announced \cup {r}
    /\ UNCHANGED <<outcome, issued>>

Next ==
    \/ Lose
    \/ \E r \in Requests :
          Refuse(r) \/ Deliver(r) \/ Fail(r) \/ Issue(r) \/ Announce(r)

Spec == Init /\ [][Next]_vars

=============================================================================
