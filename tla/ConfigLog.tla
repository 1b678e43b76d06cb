------------------------------ MODULE ConfigLog ------------------------------
(***************************************************************************)
(* What PostSetConfig promises about the SCEP extension, whatever the      *)
(* steps in between: a configuration takes effect as a whole, at most      *)
(* once, not before its request came and, if the request was accepted, not *)
(* after it was answered.  A refused one never does.  One whose request    *)
(* failed or was lost may, at any later time.                              *)
(***************************************************************************)
EXTENDS Sequences

CONSTANT Requests

VARIABLES
    outcome,    \* what became of each request
    log         \* the configurations that took effect, in order

Outcomes == {"absent", "pending", "accepted", "refused", "failed", "lost"}

vars == <<outcome, log>>

Effective == {log[i] : i \in DOMAIN log}

Init ==
    /\ outcome = [r \in Requests |-> "absent"]
    /\ log = <<>>

Settle(r, from, result) ==
    /\ outcome[r] = from
    /\ outcome' = [outcome EXCEPT ![r] = result]
    /\ UNCHANGED log

Come(r) == Settle(r, "absent", "pending")

Refuse(r) == r \notin Effective /\ Settle(r, "pending", "refused")

Accept(r) == r \in Effective /\ Settle(r, "pending", "accepted")

Fail(r) == Settle(r, "pending", "failed")

\* One handler panics, or the process ends: some requests are never answered.
Lose ==
    \E S \in SUBSET {r \in Requests : outcome[r] = "pending"} :
       /\ outcome' = [r \in Requests |-> IF r \in S THEN "lost" ELSE outcome[r]]
       /\ UNCHANGED log

Apply(r) ==
    /\ outcome[r] \in {"pending", "failed", "lost"}
    /\ r \notin Effective
    /\ log' = Append(log, r)
    /\ UNCHANGED outcome

Next ==
    \/ Lose
    \/ \E r \in Requests :
          Come(r) \/ Refuse(r) \/ Accept(r) \/ Fail(r) \/ Apply(r)

Spec == Init /\ [][Next]_vars

-----------------------------------------------------------------------------

\* Every configuration that was accepted is in the log, none is there twice,
\* and none that was refused, or whose request has yet to come.
LogAgrees ==
    /\ \A r \in Requests : outcome[r] = "accepted" => r \in Effective
    /\ \A r \in Effective : outcome[r] \notin {"absent", "refused"}
    /\ \A i, j \in DOMAIN log : log[i] = log[j] => i = j

=============================================================================
