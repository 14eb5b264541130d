---------------------------- MODULE OneShotProof ----------------------------
(***************************************************************************)
(* What a consent-op proof promises the routes that demand one, whatever   *)
(* the storage under it does: it is minted once and redeemed by at most    *)
(* one request.  Only a crash may hand back a redeemed proof, at most      *)
(* once.  FreshAuthConsent implements this.                                *)
(***************************************************************************)
CONSTANT Request

VARIABLES
    proof,      \* "unminted", "live" or "spent"
    outcome,    \* [Request -> {"pending", "redeemed", "granted", "denied"}]
    reopened    \* a crash has handed the proof back

vars == <<proof, outcome, reopened>>

Init ==
    /\ proof = "unminted"
    /\ outcome = [r \in Request |-> "pending"]
    /\ reopened = FALSE

Mint ==
    /\ proof = "unminted" /\ proof' = "live"
    /\ UNCHANGED <<outcome, reopened>>

\* r takes the proof; it is answered at once or later.
Redeem(r) ==
    /\ proof = "live" /\ outcome[r] = "pending"
    /\ proof' = "spent"
    /\ \E answer \in {"redeemed", "granted", "denied"} :
          outcome' = [outcome EXCEPT ![r] = answer]
    /\ UNCHANGED reopened

\* A redeemer is granted, or denied for presenting another target.
Answer(r) ==
    /\ outcome[r] = "redeemed"
    /\ \E answer \in {"granted", "denied"} :
          outcome' = [outcome EXCEPT ![r] = answer]
    /\ UNCHANGED <<proof, reopened>>

Deny(r) ==
    /\ outcome[r] = "pending"
    /\ outcome' = [outcome EXCEPT ![r] = "denied"]
    /\ UNCHANGED <<proof, reopened>>

\* Unanswered requests may die with the process.
Crash ==
    /\ \E dying \in SUBSET {r \in Request : outcome[r] \in {"pending", "redeemed"}} :
          outcome' = [r \in Request |-> IF r \in dying THEN "denied" ELSE outcome[r]]
    /\ \/ UNCHANGED <<proof, reopened>>
       \/ ~reopened /\ reopened' = TRUE /\ proof = "spent" /\ proof' = "live"

Next ==
    \/ Mint
    \/ \E r \in Request : Redeem(r) \/ Answer(r) \/ Deny(r)
    \/ Crash

Spec == Init /\ [][Next]_vars
==============================================================================
