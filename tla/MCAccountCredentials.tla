----------------------- MODULE MCAccountCredentials -----------------------
(* The instance of AccountCredentials that TLC checks.                      *)
EXTENDS AccountCredentials

CONSTANTS p, q, r, work

===========================================================================
