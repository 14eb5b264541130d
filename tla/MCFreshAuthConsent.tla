------------------------ MODULE MCFreshAuthConsent ------------------------
(* The instance of FreshAuthConsent that TLC checks: one request presents    *)
(* the proof for its target, one for another.                                *)
EXTENDS FreshAuthConsent

CONSTANTS r1, r2

==============================================================================
