--------------------------- MODULE AccreditByEmail ---------------------------
(* POST /accreditation/verify: the mailed token of one pending accreditation   *)
(* is turned into an accredit op that the server signs.  HAF is asked whether  *)
(* the account is accredited, whether it is sanctioned, and whether an op of   *)
(* this token landed; a counter in Redis caps the broadcasts in flight.        *)
(*                                                                             *)
(* Tokens do not interact, so one is modelled.  It has a copy in Redis and one *)
(* in memory, its counter is in Redis, or in memory when Redis is unavailable, *)
(* and a decrement that Redis did not take is queued and retried.              *)
EXTENDS Integers, Sequences, FiniteSets

CONSTANTS Req,       \* concurrent requests with the token
          Cap,       \* verifyBroadcastAttemptsCap
          MaxSent,   \* bound on the ops of a behaviour, and on the counter
          MaxFaults  \* bound on failed calls and crashes

\* What an instance must give them.
EmailAssumption ==
  /\ Req \subseteq Nat /\ IsFiniteSet(Req)
  /\ Cap \in Nat \ {0} /\ MaxSent \in Nat /\ MaxFaults \in Nat

VARIABLES
  token,    \* where the token still is
  count,    \* the counter in Redis, 0 when there is none
  spare,    \* the counter in memory
  queued,   \* decrements waiting to be retried
  done,     \* whether a completion record replays the answer
  req,      \* the requests
  ops,      \* accredit ops sent for the token
  standing, \* of the account in HAF, beside those ops
  faults    \* history: faults so far

vars == <<token, count, spare, queued, done, req, ops, standing, faults>>

Tier == {"redis", "memory"}
Fate == {"flight", "landed", "indexed", "dropped"}
OpRec == [fate : Fate, knew : BOOLEAN, blind : BOOLEAN]
Request == [pc : {"idle", "gating", "looking", "claiming", "broadcasting", "decrementing", "flooring"},
            op : 0..MaxSent,
            knew : BOOLEAN,    \* history: HAF had an op of the token when the request began
            blind : BOOLEAN]   \* history: the lookup failed

IdleRequest == [pc |-> "idle", op |-> 0, knew |-> FALSE, blind |-> FALSE]

TypeOK ==
  /\ token \subseteq Tier /\ done \subseteq Tier
  /\ count \in -(Cardinality(Req) + MaxFaults)..MaxSent
  /\ spare \in 0..MaxFaults /\ queued \in 0..MaxFaults
  /\ req \in [Req -> Request]
  /\ ops \in Seq(OpRec) /\ Len(ops) <= MaxSent
  /\ standing \in {"plain", "revoked", "sanctioned"}
  /\ faults \in 0..MaxFaults

Fault == faults < MaxFaults /\ faults' = faults + 1
NoFault == UNCHANGED faults
Ends(r) == req' = [req EXCEPT ![r] = IdleRequest]
Goes(r, pc) == req' = [req EXCEPT ![r].pc = pc]
Landed == \E i \in DOMAIN ops : ops[i].fate = "indexed"
Broadcasting == {r \in Req : req[r].pc = "broadcasting"}

-----------------------------------------------------------------------------
(* Ways a token ends *)

\* deleteBroadcastAttempts.
DropCounter == count' = 0 /\ spare' = 0

\* deleteToken: Redis, memory, the counter.  Without Redis only the memory copies go; a DEL
\* that fails, having run or not, leaves what comes after it.
DeleteToken ==
  \/ token' = {} /\ DropCounter /\ NoFault
  \/ token' = token \ {"memory"} /\ spare' = 0 /\ UNCHANGED count /\ Fault
  \/ token' \in {{}, token, token \ {"redis"}} /\ UNCHANGED <<count, spare>> /\ Fault

\* recordAccreditationCompletion: one transaction writes the record and deletes the
\* token; when it fails the record is in memory alone.
RecordCompletion ==
  \/ done' = Tier /\ token' = {} /\ DropCounter /\ NoFault
  \/ /\ done' = done \cup {"memory"} /\ token' = token \ {"memory"}
     /\ spare' = 0 /\ UNCHANGED count /\ Fault

\* The op is known to be on the chain: the reputation bonus is seeded first, and a
\* permanent error there ends the token without a record.
Confirmed(r) ==
  /\ \/ RecordCompletion
     \/ DeleteToken /\ UNCHANGED done
  /\ Ends(r) /\ UNCHANGED <<queued, ops, standing>>

-----------------------------------------------------------------------------
(* The handler *)

\* getToken: Redis, then memory.  A token that is gone is answered from the
\* completion record or refused, and nothing changes.
Present(r) ==
  /\ req[r].pc = "idle" /\ token # {}
  /\ \A q \in Req : q < r => req[q].pc # "idle"   \* requests are interchangeable
  /\ req' = [req EXCEPT ![r] = [IdleRequest EXCEPT !.pc = "gating", !.knew = Landed]]
  /\ UNCHANGED <<token, count, spare, queued, done, ops, standing, faults>>

\* findExistingAccreditation: the latest accredit or revoke of the account.
Accredited == Landed /\ standing = "plain"

\* An account that is accredited is done, a sanctioned one refused, and either query
\* that fails refuses with 503.
Gate(r) ==
  /\ req[r].pc = "gating"
  /\ \/ Accredited /\ RecordCompletion /\ Ends(r)
     \/ /\ ~Accredited /\ standing # "sanctioned" /\ Goes(r, "looking")
        /\ UNCHANGED <<token, count, spare, done, faults>>
     \/ (standing = "sanctioned" \/ faults < MaxFaults) /\ Ends(r)
        /\ UNCHANGED <<token, count, spare, done, faults>>
  /\ UNCHANGED <<queued, ops, standing>>

\* Seeded fault: an op of the token counts only as long as the account is accredited.
LandedBefore_IfStanding == Accredited

\* lookupAccreditationBroadcastIdempotency.
LandedBefore == Landed

LookUp(r) ==
  /\ req[r].pc = "looking"
  /\ \/ LandedBefore /\ Confirmed(r)
     \/ /\ ~LandedBefore /\ Goes(r, "claiming")
        /\ UNCHANGED <<token, count, spare, queued, done, ops, standing, faults>>
     \/ /\ Fault /\ req' = [req EXCEPT ![r].pc = "claiming", ![r].blind = TRUE]
        /\ UNCHANGED <<token, count, spare, queued, done, ops, standing>>

\* Within the cap the op is signed and sent; above it the request is refused, and the
\* increment stays.
Claimed(r, n) ==
  IF n <= Cap /\ Len(ops) < MaxSent
    THEN /\ ops' = Append(ops, [fate |-> "flight", knew |-> req[r].knew, blind |-> req[r].blind])
         /\ req' = [req EXCEPT ![r].pc = "broadcasting", ![r].op = Len(ops) + 1]
    ELSE Ends(r) /\ UNCHANGED ops

\* incrementBroadcastAttempts: a script in Redis; without Redis the memory counter; a
\* script that throws, having run or not, refuses with 503.
Claim(r) ==
  /\ req[r].pc = "claiming" /\ count < MaxSent   \* bound
  /\ \/ count' = count + 1 /\ Claimed(r, count') /\ UNCHANGED spare /\ NoFault
     \/ spare' = spare + 1 /\ Claimed(r, spare') /\ UNCHANGED count /\ Fault
     \/ count' \in {count, count + 1} /\ Ends(r) /\ UNCHANGED <<spare, ops>> /\ Fault
  /\ UNCHANGED <<token, queued, done, standing>>

Succeeds(r) ==
  /\ req[r].pc = "broadcasting" /\ ops[req[r].op].fate \in {"landed", "indexed"}
  /\ Confirmed(r)

\* Seeded fault: the decrement is queued in any case.
Decrement_Queued(r) ==
  count' = count - 1 /\ queued' = queued + 1 /\ Goes(r, "flooring") /\ NoFault

\* decrementBroadcastAttempts: a DECR that went below zero is followed by a DEL.  One
\* that fails, having run or not, is queued.
Decrement(r) ==
  \/ /\ count' = count - 1 /\ UNCHANGED queued /\ NoFault
     /\ IF count' < 0 THEN Goes(r, "flooring") ELSE Ends(r)
  \/ /\ count' \in {count, count - 1} /\ queued' = queued + 1 /\ Fault
     /\ Ends(r)

\* The broadcast times out: 504, the token stays.
TimesOut(r) ==
  /\ req[r].pc = "broadcasting"
  /\ Decrement(r)
  /\ UNCHANGED <<token, spare, done, ops, standing>>

Floor(r) ==
  /\ req[r].pc = "flooring" /\ count' = 0 /\ Ends(r)
  /\ UNCHANGED <<token, spare, queued, done, ops, standing, faults>>

\* Any other error of the node: 502, the token is deleted.
Fails(r) ==
  /\ req[r].pc = "broadcasting"
  /\ DeleteToken /\ Ends(r)
  /\ UNCHANGED <<queued, done, ops, standing>>

Handle(r) == \/ Present(r) \/ Gate(r) \/ LookUp(r) \/ Claim(r)
             \/ Succeeds(r) \/ TimesOut(r) \/ Floor(r) \/ Fails(r)

-----------------------------------------------------------------------------
(* Around it *)

\* drainQueue retries a queued decrement; one that fails, having run or not, stays.
Drain ==
  /\ queued > 0
  /\ \/ queued' = queued - 1 /\ count' = (IF count > 0 THEN count - 1 ELSE 0) /\ NoFault
     \/ UNCHANGED queued /\ count' = count - 1 /\ Fault
  /\ UNCHANGED <<token, spare, done, req, ops, standing>>

\* Hive and HAF.
Chain(i) ==
  /\ \/ ops[i].fate = "flight" /\ \E f \in {"landed", "dropped"} : ops' = [ops EXCEPT ![i].fate = f]
     \/ ops[i].fate = "landed" /\ ops' = [ops EXCEPT ![i].fate = "indexed"]
  /\ UNCHANGED <<token, count, spare, queued, done, req, standing, faults>>

\* An administrator revokes the accreditation, or sanctions the account.
Judge ==
  /\ \/ standing = "plain" /\ Landed /\ standing' = "revoked"
     \/ standing # "sanctioned" /\ standing' = "sanctioned"
  /\ UNCHANGED <<token, count, spare, queued, done, req, ops, faults>>

\* A day passes: token and counter, then the record.
Expire ==
  /\ \/ token # {} /\ token' = {} /\ count' = 0 /\ UNCHANGED done
     \/ done # {} /\ done' = {} /\ UNCHANGED <<token, count>>
  /\ UNCHANGED <<spare, queued, req, ops, standing, faults>>

Crash ==
  /\ Fault
  /\ req' = [r \in Req |-> IdleRequest] /\ spare' = 0 /\ queued' = 0
  /\ token' = token \ {"memory"} /\ done' = done \ {"memory"}
  /\ UNCHANGED <<count, ops, standing>>

\* POST /request stored the token in both tiers and mailed it.
Init ==
  /\ token = Tier /\ count = 0 /\ spare = 0 /\ queued = 0 /\ done = {}
  /\ req = [r \in Req |-> IdleRequest] /\ ops = <<>>
  /\ standing = "plain" /\ faults = 0

Next == \/ \E r \in Req : Handle(r)
        \/ Drain \/ \E i \in DOMAIN ops : Chain(i)
        \/ Judge \/ Expire \/ Crash

Spec == Init /\ [][Next]_vars

-----------------------------------------------------------------------------
(* Properties *)

\* A token accredits its account once: a request that began after HAF had indexed an
\* op of the token sends no other, not even for an account that was revoked since,
\* unless its own lookup failed.  The copy of the token that survives a failed
\* deletion, and the replayed link, are harmless.
TokenAccreditsOnce == \A i \in DOMAIN ops : ops[i].knew => ops[i].blind

\* While the token is unspent and no call has failed, at most Cap of its broadcasts
\* are in flight, however many requests present it, time out and come back.
BurstCapped == token # {} /\ faults = 0 => Cardinality(Broadcasting) <= Cap
=============================================================================
