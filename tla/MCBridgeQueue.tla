---------------------------- MODULE MCBridgeQueue ----------------------------
(* Two registrations: by one user for two preprints, where a cap of one bites, *)
(* or by two users for one preprint, where the unique index does.  Each plan is  *)
(* the same for 1 and 2, so numbering them by their rows loses nothing.       *)
EXTENDS BridgeQueue

CONSTANTS u, v, p, q

MCSubmissions == LET Ask(user, permlink) == [user |-> user, permlink |-> permlink]
                 IN  {<<Ask(u, p), Ask(u, q)>>, <<Ask(u, p), Ask(v, p)>>}
==============================================================================
