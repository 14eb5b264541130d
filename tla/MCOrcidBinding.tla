-------------------------- MODULE MCOrcidBinding --------------------------
(* The instance of OrcidBinding that TLC checks: two requests.              *)
EXTENDS OrcidBinding

CONSTANTS r, s, a, b

\* r binds a in mode m, s binds account c in mode n.
Pair(m, c, n) == [i \in Request |->
    IF i = r THEN [account |-> a, mode |-> m] ELSE [account |-> c, mode |-> n]]

\* A fault of any kind, or an op of an authority and a metadata edit.
MCBounds == {[faults |-> 1, ops |-> 0, edits |-> 0],
             [faults |-> 0, ops |-> 1, edits |-> 1]}

\* Nothing fails and nobody else writes about the accounts.
MCCalm == {[faults |-> 0, ops |-> 0, edits |-> 0]}

\* Two accounts, one of them resumed, and one account by two routes.
MCPlans == {Pair("accredit", b, "resume"), Pair("finalize", a, "link")}

==============================================================================
