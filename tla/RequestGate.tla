----------------------------- MODULE RequestGate -----------------------------
(* What a handler stands behind: a signature header is accepted once           *)
(* (verifyHiveSignature), and a limiter takes a slot that it may give back by  *)
(* how the answer went (rateLimit), which handleBroadcastError decides when a  *)
(* broadcast fails.  One caller and one route; several requests may carry one  *)
(* header, and a bearer token comes without.                                   *)
EXTENDS Integers, Sequences, FiniteSets, SequencesExt

CONSTANTS
  Req, None,
  Header,     \* the values of X-Hive-Signature that parse, as they are spelled
  Signed,     \* the header each request carries; None: a bearer token
  Limiter,    \* the limiters a route may have
  MaxEras,    \* bound on the windows that lapse
  MaxFaults   \* bound on what fails

VARIABLES
  limiter,    \* the route's: [max, skipFailed, refundCodes]
  up,         \* isRedisAvailable()
  fresh,      \* the headers whose timestamp is within the minute
  seen,       \* the replay keys in Redis
  heard,      \* seenSignatures
  count,      \* the limiter's key in Redis, 0 when there is none
  primed,     \* that key has an expiry
  stamps,     \* memStore: who pushed each timestamp
  req,        \* the requests
  era,        \* history: how often the key in Redis began anew
  leaked,     \* history: slots of this key that are taken for nobody
  late,       \* history: slots of this key that were given back for nobody
  dropped,    \* history: headers that were in memory when the process died
  excused,    \* history: headers neither store could have refused
  faults

vars == <<limiter, up, fresh, seen, heard, count, primed, stamps, req, era, leaked, late,
          dropped, excused, faults>>

\* RateLimitConfig.  An answer that was not begun has the status 200, which no limiter refunds.
Limiters == [max : Nat \ {0}, skipFailed : BOOLEAN, refundCodes : SUBSET (201..599)]

GateAssumption ==
  /\ Signed \in [Req -> Header \cup {None}] /\ None \notin Header \cup {"redis", "memory"}
  /\ \A l \in Limiter : l \in Limiters
  /\ MaxEras \in Nat /\ MaxFaults \in Nat

Stage == {"new", "claim", "reply", "check", "limit", "handle", "done", "closed", "refused", "dead"}

\* won: SETNX found no key.  tier: where the slot was taken.  open: the connection is.
\* deaf: it was closed before the limiter listened.
Request == [at : Stage, won : BOOLEAN, accepted : BOOLEAN, tier : {"redis", "memory", None}, era : Nat,
            open : BOOLEAN, deaf : BOOLEAN, status : Nat, refunded : BOOLEAN]

TypeOK ==
  /\ limiter \in Limiter /\ up \in BOOLEAN /\ primed \in BOOLEAN
  /\ fresh \subseteq Header /\ seen \subseteq Header /\ heard \subseteq Header
  /\ dropped \subseteq Header /\ excused \subseteq Header
  /\ count \in Int /\ era \in 0..MaxEras /\ leaked \in Nat /\ late \in Nat /\ faults \in 0..MaxFaults
  /\ stamps \in Seq(Req) /\ req \in [Req -> Request]

-----------------------------------------------------------------------------
(* The answers of handleBroadcastError                                         *)

\* The broadcast is confirmed and a later write failed.
ConfirmedAnswer == 502
\* The timer of broadcastJsonWithTimeout won the race: the op may be on the chain.
TimeoutAnswer == 504
\* Any other error where the caller cannot tell, as without the binding lock.
AmbiguousAnswer == 504
\* Any other error.
FailedAnswer == 502

\* What a handler answers: success, a refusal, contention, an outage, or one of those.
Answers == {200, 403, 409, 503, ConfirmedAnswer, TimeoutAnswer, AmbiguousAnswer, FailedAnswer}

-----------------------------------------------------------------------------
(* The signature.  A request is a replay when its header was seen: the keys of *)
(* both stores are the text of the header, while the check parses it.  Two     *)
(* texts of one signature are two headers here, as they are there.             *)

windowVars == <<limiter, count, primed, stamps, era, leaked, late>>
signatureVars == <<fresh, seen, heard, dropped, excused>>

Fault == faults < MaxFaults /\ faults' = faults + 1
To(r, stage) == req' = [req EXCEPT ![r].at = stage]

\* Another request that may still be accepted is past the claim.
Checking(r) == \E q \in Req \ {r} : Signed[q] = Signed[r] /\ req[q].at = "check"
Winning(r) == \E q \in Req \ {r} : Signed[q] = Signed[r] /\ req[q].at = "reply" /\ req[q].won

\* No Redis: check and add at once.
FallBack(r) ==
  LET h == Signed[r] IN
  /\ IF h \in heard THEN To(r, "refused") /\ UNCHANGED <<heard, excused>>
     ELSE /\ To(r, "check") /\ heard' = heard \cup {h}
          /\ excused' = IF h \in dropped \/ Checking(r) THEN excused \cup {h} ELSE excused
  /\ UNCHANGED <<fresh, seen, dropped>>

\* A bearer token goes to the limiter; a header is refused when its timestamp is older than
\* a minute, and else claimed.
Arrive(r) ==
  /\ req[r].at = "new"
  /\ \/ /\ Signed[r] = None /\ To(r, "limit") /\ UNCHANGED signatureVars
     \/ /\ Signed[r] \notin fresh \cup {None} /\ To(r, "refused") /\ UNCHANGED signatureVars
     \/ /\ Signed[r] \in fresh /\ up /\ To(r, "claim") /\ UNCHANGED signatureVars
     \/ Signed[r] \in fresh /\ ~up /\ FallBack(r)
  /\ UNCHANGED <<windowVars, up, faults>>

\* SET NX.
SetNx(r) ==
  LET h == Signed[r] IN
  /\ seen' = seen \cup {h}
  /\ excused' = IF h \notin seen \cup heard /\ (h \in dropped \/ Checking(r) \/ Winning(r))
                THEN excused \cup {h} ELSE excused
  /\ UNCHANGED <<fresh, heard, dropped>>

Claim(r) ==
  /\ req[r].at = "claim" /\ SetNx(r)
  /\ req' = [req EXCEPT ![r].at = "reply", ![r].won = Signed[r] \notin seen]
  /\ UNCHANGED <<windowVars, up, faults>>

\* It ran, its reply is lost with the connection; it may be sent again.
ClaimUnheard(r) ==
  /\ req[r].at = "claim" /\ Fault /\ SetNx(r)
  /\ UNCHANGED <<windowVars, req, up>>

\* It is rejected.
ClaimThrows(r) ==
  /\ req[r].at = "claim" /\ (up => Fault) /\ (~up => UNCHANGED faults)
  /\ FallBack(r) /\ UNCHANGED <<windowVars, up>>

\* Seeded fault: the memory is for when Redis is away.
IsReplay_RedisOnly(r) == ~req[r].won

IsReplay(r) == ~req[r].won \/ Signed[r] \in heard

Replied(r) ==
  /\ req[r].at = "reply" /\ To(r, IF IsReplay(r) THEN "refused" ELSE "check")
  /\ UNCHANGED <<windowVars, signatureVars, up, faults>>

\* The key of the account matches, or it does not, or the node does not answer.
Check(r) ==
  /\ req[r].at = "check"
  /\ \/ /\ req' = [req EXCEPT ![r].at = "limit", ![r].accepted = TRUE]
        /\ heard' = heard \cup {Signed[r]} /\ UNCHANGED <<fresh, seen, dropped, excused>>
     \/ To(r, "refused") /\ UNCHANGED signatureVars
  /\ UNCHANGED <<windowVars, up, faults>>

\* The minute passes; five minutes do, and both stores forget.
Expire(h) ==
  /\ h \in fresh /\ fresh' = fresh \ {h}
  /\ UNCHANGED <<windowVars, seen, heard, dropped, excused, req, up, faults>>

Forget(h) ==
  /\ h \in (seen \cup heard) \ fresh /\ \A r \in Req : Signed[r] = h => req[r].at \notin {"claim", "reply", "check"}
  /\ seen' = seen \ {h} /\ heard' = heard \ {h}
  /\ UNCHANGED <<windowVars, fresh, dropped, excused, req, up, faults>>

-----------------------------------------------------------------------------
(* The limiter                                                                 *)

ShouldRefund(status, ended) ==
  status \in limiter.refundCodes \/ (limiter.skipFailed /\ ~(status < 400 /\ ended))

Take(r, tier) ==
  req' = [req EXCEPT ![r].at = "handle", ![r].tier = tier, ![r].era = era, ![r].deaf = ~req[r].open]

\* RATE_LIMIT_CHECK_AND_CONSUME: INCR, and DECR again over the limit.
Passes == count + 1 <= limiter.max

TakeInRedis(r) ==
  /\ req[r].at = "limit" /\ up
  /\ IF Passes THEN count' = count + 1 /\ primed' = TRUE /\ Take(r, "redis")
               ELSE To(r, "refused") /\ UNCHANGED <<count, primed>>
  /\ UNCHANGED <<signatureVars, limiter, stamps, era, leaked, late, up, faults>>

\* The script ran and its reply is lost; it may be sent again.
TakeUnheard(r) ==
  /\ req[r].at = "limit" /\ Passes /\ Fault
  /\ count' = count + 1 /\ primed' = TRUE /\ leaked' = leaked + 1
  /\ UNCHANGED <<signatureVars, limiter, stamps, era, late, req, up>>

\* It is rejected: the list in memory decides.
TakeInMemory(r) ==
  /\ req[r].at = "limit" /\ (up => Fault) /\ (~up => UNCHANGED faults)
  /\ IF Len(stamps) < limiter.max THEN stamps' = Append(stamps, r) /\ Take(r, "memory")
                                  ELSE To(r, "refused") /\ UNCHANGED stamps
  /\ UNCHANGED <<signatureVars, limiter, count, primed, era, leaked, late, up>>

\* DECR runs, or does not, or, sent again, twice; on a key that lapsed since, it takes
\* from whoever comes next.
Decr(r, n) ==
  LET own == req[r].era = era IN
  /\ count' = count - n
  /\ late' = late + (IF own /\ n > 0 THEN n - 1 ELSE n)
  /\ leaked' = leaked + (IF own /\ n = 0 THEN 1 ELSE 0)
  /\ primed' = primed

\* refund: on finish and on close, the first of them.
Refund(r, status, ended) ==
  IF req[r].deaf \/ req[r].refunded \/ ~ShouldRefund(status, ended) THEN UNCHANGED <<windowVars, faults>>
  ELSE /\ UNCHANGED <<limiter, era>>
       /\ IF req[r].tier = "memory"
          THEN stamps' = RemoveFirst(stamps, r) /\ UNCHANGED <<count, primed, leaked, late, faults>>
          ELSE /\ UNCHANGED stamps
               /\ \/ Decr(r, 1) /\ UNCHANGED faults
                  \/ \E n \in {0, 2} : Decr(r, n) /\ Fault

\* The handler answers; on a connection that is gone nothing finishes.
Answer(r, status) ==
  /\ req[r].at = "handle"
  /\ req' = [req EXCEPT ![r].at = "done", ![r].status = status, ![r].refunded = req[r].open \/ @]
  /\ IF req[r].open THEN Refund(r, status, TRUE) ELSE UNCHANGED <<windowVars, faults>>
  /\ UNCHANGED <<signatureVars, up>>

\* The connection closes after the answer.
Close(r) ==
  /\ req[r].at = "done" /\ req[r].open /\ To(r, "closed")
  /\ Refund(r, req[r].status, TRUE)
  /\ UNCHANGED <<signatureVars, up>>

\* The client goes away before it; the handler does not notice.
Abort(r) ==
  /\ req[r].at \in {"claim", "reply", "check", "limit", "handle"} /\ req[r].open
  /\ req' = [req EXCEPT ![r].open = FALSE, ![r].refunded = req[r].at = "handle"]
  /\ IF req[r].at = "handle" THEN Refund(r, 200, FALSE) ELSE UNCHANGED <<windowVars, faults>>
  /\ UNCHANGED <<signatureVars, up>>

\* The key lapses a window after the last pass; a timestamp, a window after itself.
Anew == era < MaxEras /\ era' = era + 1 /\ count' = 0 /\ primed' = FALSE /\ leaked' = 0 /\ late' = 0
Lapse == primed /\ Anew /\ UNCHANGED <<limiter, stamps, signatureVars, req, up, faults>>
Age ==
  /\ stamps # <<>> /\ stamps' = Tail(stamps)
  /\ UNCHANGED <<limiter, count, primed, era, leaked, late, signatureVars, req, up, faults>>

-----------------------------------------------------------------------------
(* Redis and the process                                                       *)

Down == up /\ Fault /\ up' = FALSE /\ UNCHANGED <<windowVars, signatureVars, req>>
Back == ~up /\ up' = TRUE /\ UNCHANGED <<windowVars, signatureVars, req, faults>>

\* Redis comes back empty.
Emptied ==
  /\ Fault /\ Anew /\ seen' = {}
  /\ UNCHANGED <<limiter, stamps, fresh, heard, dropped, excused, req, up>>

\* Who holds a slot of the key: those the answer of whom counts, or is awaited.
GivenBack(r) ==
  /\ ~req[r].deaf
  /\ \/ ~req[r].open /\ limiter.skipFailed
     \/ /\ req[r].open /\ req[r].at \in {"done", "closed"}
        /\ req[r].status \in limiter.refundCodes \/ (limiter.skipFailed /\ req[r].status >= 400)
Holders == {r \in Req : /\ req[r].tier = "redis" /\ req[r].era = era
                        /\ req[r].at # "dead" /\ ~GivenBack(r)}

\* What was in flight dies with the process, and the slots it held stay taken.
Restart ==
  LET dying == {r \in Req : req[r].at \in {"claim", "reply", "check", "limit", "handle"}} IN
  /\ Fault /\ req' = [r \in Req |-> IF r \in dying THEN [req[r] EXCEPT !.at = "dead"] ELSE req[r]]
  /\ leaked' = leaked + Cardinality(Holders \cap dying)
  /\ heard' = {} /\ dropped' = dropped \cup heard /\ stamps' = <<>>
  /\ UNCHANGED <<limiter, count, primed, era, late, fresh, seen, excused, up>>

Init ==
  /\ limiter \in Limiter /\ up = TRUE /\ fresh = Header /\ seen = {} /\ heard = {}
  /\ count = 0 /\ primed = FALSE /\ stamps = <<>>
  /\ req = [r \in Req |-> [at |-> "new", won |-> FALSE, accepted |-> FALSE, tier |-> None, era |-> 0,
                           open |-> TRUE, deaf |-> FALSE, status |-> 0, refunded |-> FALSE]]
  /\ era = 0 /\ leaked = 0 /\ late = 0 /\ dropped = {} /\ excused = {} /\ faults = 0

Next ==
  \/ \E r \in Req : \/ Arrive(r) \/ Claim(r) \/ ClaimUnheard(r) \/ ClaimThrows(r) \/ Replied(r) \/ Check(r)
                    \/ TakeInRedis(r) \/ TakeUnheard(r) \/ TakeInMemory(r)
                    \/ \E status \in Answers : Answer(r, status)
                    \/ Close(r) \/ Abort(r)
  \/ \E h \in Header : Expire(h) \/ Forget(h)
  \/ Lapse \/ Age \/ Down \/ Back \/ Emptied \/ Restart

Spec == Init /\ [][Next]_vars

-----------------------------------------------------------------------------
(* Properties *)

\* A header lets one request through.  Two stores are asked, and each may be away: excused
\* are a header that was claimed in one store while another request, claimed in the other,
\* was still being checked, and one that both had lost.  Of a signature that has two
\* texts nothing is said.
AcceptedOnce ==
  \A h \in Header \ excused : Cardinality({r \in Req : Signed[r] = h /\ req[r].accepted}) <= 1

\* Every slot is given back once or is held: the key counts those whose answer counts or
\* is awaited, but for slots taken for nobody (a reply lost, a refund lost, a process that
\* died) and given back for nobody (a refund sent again, or after the window it was for).
SlotsBalance ==
  /\ count = Cardinality(Holders) + leaked - late
  /\ count <= limiter.max
  /\ \A r \in ToSet(stamps) : req[r].tier = "memory" /\ ~GivenBack(r)
=============================================================================
