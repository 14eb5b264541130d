------------------------- MODULE FreshAuthConsent -------------------------
(***************************************************************************)
(* The single-use (consent_op) half of backend/src/lib/fresh-auth.ts: one  *)
(* proof token, stored in two tiers (the canonical Redis key and the       *)
(* in-process memStore backup), presented by any number of concurrent      *)
(* requests over one ioredis client that drops, stalls, resends and        *)
(* flushes its commands, in a backend process that may be restarted.       *)
(*                                                                         *)
(* Every table of the source is keyed by the token, so one token's life is *)
(* independent of any other's and the module follows one.  The clock       *)
(* counts from its issuance; 0 stands for "absent" in an expiry.           *)
(***************************************************************************)
EXTENDS Naturals, Sequences

CONSTANTS
    Request,    \* presentations of the token, each one HTTP request
    Wrong,      \* those presented for another username or target
    TTL,        \* FRESH_AUTH_TTL_SECONDS, in ticks of the clock
    MaxNow,     \* bound: the clock stops here
    MaxPipe,    \* bound: no flap and no drain while this many commands wait
    Issuer,     \* caller tag of the issuing SET
    Drain,      \* caller tag of the DELs drainSpentConsentOps dispatches
    Nobody      \* caller tag of a command whose promise is already settled

ASSUME WrongAssumption == Wrong \subseteq Request
ASSUME TtlAssumption == TTL \in Nat \ {0}
ASSUME BoundAssumption == MaxNow \in Nat /\ MaxPipe \in Nat
ASSUME CallerAssumption ==
    /\ Issuer \notin Request /\ Drain \notin Request /\ Nobody \notin Request
    /\ Issuer # Drain /\ Issuer # Nobody /\ Drain # Nobody

VARIABLES
    now,        \* ticks since issuance
    phase,      \* the token's: see Phase below
    memExp,     \* memStore entry's expiresAt, 0 when there is no entry
    rExp,       \* the Redis key's expiry, 0 when there is no key
    up,         \* isRedisAvailable(): the client's status is 'ready'
    calm,       \* from here on Redis and the process stay healthy
    pipe,       \* commands written to the socket and not replied, in order
    offline,    \* commands queued while the client is not ready
    rejected,   \* callers whose command was rejected, not resumed yet
    inFlight,   \* inFlightConsumes has the token
    spent,      \* spentConsentOps has the token
    armed,      \* drainArmedClients has the client
    pc,         \* where each request stands
    already,    \* the request's local alreadySpent
    burns,      \* history: burns that reported a win
    exposed     \* history: a restart dropped the token's ledger entry

storeVars == <<memExp, rExp>>
clientVars == <<up, pipe, offline>>
ledgerVars == <<inFlight, spent, armed>>
requestVars == <<pc, already>>
historyVars == <<burns, exposed>>
vars == <<now, phase, storeVars, clientVars, calm, rejected, ledgerVars,
          requestVars, historyVars>>

Caller == Request \cup {Issuer, Drain, Nobody}
Command == [op : {"SET"}, by : {Issuer, Nobody}]
             \cup [op : {"GET", "GETDEL"}, by : Request \cup {Nobody}]
             \cup [op : {"DEL"}, by : Request \cup {Drain, Nobody}]
\* Not minted, its SET awaited, returned to the client by this process or by an
\* earlier one, or minted by an earlier one that died before returning it.
Phase == {"none", "setting", "issued", "inherited", "lost"}
Active == {"reading", "read", "burning", "compensating"}
Done == {"authorised", "mismatch", "refused", "dead"}

TypeOK ==
    /\ now \in 0..MaxNow
    /\ phase \in Phase
    /\ memExp \in {0, TTL}
    /\ rExp \in 0..(MaxNow + TTL)
    /\ up \in BOOLEAN /\ calm \in BOOLEAN
    /\ pipe \in Seq(Command) /\ offline \in Seq(Command)
    /\ rejected \subseteq Request \cup {Issuer}
    /\ inFlight \in BOOLEAN /\ spent \in BOOLEAN /\ armed \in BOOLEAN
    /\ pc \in [Request -> {"idle"} \cup Active \cup Done]
    /\ already \in [Request -> BOOLEAN]
    /\ burns \in Nat
    /\ exposed \in BOOLEAN

\* The client may have been armed by another token's burn before this one.
Init ==
    /\ now = 0 /\ phase = "none"
    /\ memExp = 0 /\ rExp = 0
    /\ up \in BOOLEAN /\ calm = FALSE
    /\ pipe = <<>> /\ offline = <<>> /\ rejected = {}
    /\ inFlight = FALSE /\ spent = FALSE /\ armed \in BOOLEAN
    /\ pc = [r \in Request |-> "idle"]
    /\ already = [r \in Request |-> FALSE]
    /\ burns = 0 /\ exposed = FALSE

------------------------------------------------------------------------------
(* The client: a command goes to the socket when the client is ready and to *)
(* the offline queue otherwise.                                             *)

Cmd(op, by) == [op |-> op, by |-> by]

Send(c) ==
    IF up THEN pipe' = Append(pipe, c) /\ UNCHANGED <<up, offline>>
          ELSE offline' = Append(offline, c) /\ UNCHANGED <<up, pipe>>

\* The key's expiry once the server has run the first k commands of the pipe.
\* The issuing SET is the token's first command, so it runs before any delete.
KeyAfter(k) ==
    IF \E i \in 1..k : pipe[i].op \in {"GETDEL", "DEL"} THEN 0
    ELSE IF \E i \in 1..k : pipe[i].op = "SET" THEN now + TTL
    ELSE rExp

Callers(queue) ==
    {queue[i].by : i \in DOMAIN queue} \ {Drain, Nobody}

Readable == rExp > now
MemReadable == memExp > now

------------------------------------------------------------------------------
(* issueFreshAuthToken: the memStore backup first, then the Redis SET.  The *)
(* token is returned whether the SET resolves, rejects or is skipped.       *)

\* No backup in memStore while Redis is reachable.
Issue_RedisOnly ==
    /\ phase = "none"
    /\ memExp' = IF up THEN 0 ELSE TTL
    /\ IF up
         THEN pipe' = Append(pipe, Cmd("SET", Issuer)) /\ phase' = "setting"
         ELSE phase' = "issued" /\ UNCHANGED pipe
    /\ UNCHANGED <<now, rExp, up, offline, calm, rejected, ledgerVars,
                   requestVars, historyVars>>

Issue ==
    /\ phase = "none"
    /\ memExp' = TTL
    /\ IF up
         THEN pipe' = Append(pipe, Cmd("SET", Issuer)) /\ phase' = "setting"
         ELSE phase' = "issued" /\ UNCHANGED pipe
    /\ UNCHANGED <<now, rExp, up, offline, calm, rejected, ledgerVars,
                   requestVars, historyVars>>

RejectSet ==
    /\ Issuer \in rejected
    /\ rejected' = rejected \ {Issuer}
    /\ phase' = "issued"
    /\ UNCHANGED <<now, storeVars, clientVars, calm, ledgerVars, requestVars,
                   historyVars>>

------------------------------------------------------------------------------
(* A presentation: a non-destructive read of the canonical key, falling     *)
(* back to memStore.                                                        *)

\* The read came back from Redis with the entry (hit), or fell to memStore.
ReadReturns(r, hit) ==
    pc' = [pc EXCEPT ![r] = IF hit \/ MemReadable THEN "read" ELSE "refused"]

Present(r) ==
    /\ pc[r] = "idle" /\ phase \in {"issued", "inherited"}
    /\ IF up
         THEN /\ pipe' = Append(pipe, Cmd("GET", r))
              /\ pc' = [pc EXCEPT ![r] = "reading"]
         ELSE ReadReturns(r, FALSE) /\ UNCHANGED pipe
    /\ UNCHANGED <<now, phase, storeVars, up, offline, calm, rejected,
                   ledgerVars, already, historyVars>>

RejectGet(r) ==
    /\ r \in rejected /\ pc[r] = "reading"
    /\ rejected' = rejected \ {r}
    /\ ReadReturns(r, FALSE)
    /\ UNCHANGED <<now, phase, storeVars, clientVars, calm, ledgerVars,
                   already, historyVars>>

------------------------------------------------------------------------------
(* The burn.  alreadySpent is sampled at entry, under the in-process lock;  *)
(* legRan says the GETDEL resolved, hit that it removed the key.            *)

\* After a won burn the username and target are compared; a mismatch does not
\* give the proof back.
Verdict(r) == IF r \in Wrong THEN "mismatch" ELSE "authorised"

\* Retires the ledger entry without proof that the key is gone.
RefuseReplay_AlwaysRetire(r, legRan) ==
    /\ spent' = FALSE
    /\ inFlight' = FALSE
    /\ pc' = [pc EXCEPT ![r] = "refused"]
    /\ UNCHANGED <<armed, burns>>

\* A replay of a proof the ledger holds: refused, whichever tier answered.
RefuseReplay(r, legRan) ==
    /\ spent' = IF legRan THEN FALSE ELSE spent
    /\ inFlight' = FALSE
    /\ pc' = [pc EXCEPT ![r] = "refused"]
    /\ UNCHANGED <<armed, burns>>

\* Either tier's removal is a win; neither means another burn came first.
Arbitrate(r, hit) ==
    /\ inFlight' = FALSE
    /\ IF hit \/ memExp # 0
         THEN burns' = burns + 1 /\ pc' = [pc EXCEPT ![r] = Verdict(r)]
         ELSE pc' = [pc EXCEPT ![r] = "refused"] /\ UNCHANGED burns
    /\ UNCHANGED <<spent, armed>>

\* memStore arbitrated a win with the canonical copy's fate unknown: arm the
\* drain, record the token as spent, then send the compensating DEL.
WinInMemory(r) ==
    /\ armed' = TRUE /\ spent' = TRUE /\ inFlight' = TRUE
    /\ burns' = burns + 1
    /\ pc' = [pc EXCEPT ![r] = "compensating"]
    /\ Send(Cmd("DEL", r))

\* Without the ledger, whoever removes the key wins.
BurnWithRedis_NoLedger(r, hit) ==
    memExp' = 0 /\ Arbitrate(r, hit)

\* The GETDEL resolved.
BurnWithRedis(r, hit) ==
    /\ memExp' = 0
    /\ IF already[r] THEN RefuseReplay(r, TRUE) ELSE Arbitrate(r, hit)

\* The GETDEL was skipped or rejected: memStore decides alone.
BurnWithoutRedis(r, alreadySpent) ==
    /\ memExp' = 0
    /\ IF alreadySpent THEN RefuseReplay(r, FALSE) /\ UNCHANGED clientVars
       ELSE IF memExp # 0 THEN WinInMemory(r)
       ELSE Arbitrate(r, FALSE) /\ UNCHANGED clientVars

\* The lock refuses a request that finds another one burning.
RefuseLocked(r) ==
    /\ pc[r] = "read" /\ inFlight
    /\ pc' = [pc EXCEPT ![r] = "refused"]
    /\ UNCHANGED <<now, phase, storeVars, clientVars, calm, rejected,
                   ledgerVars, already, historyVars>>

\* Two requests may burn at once.
Burn_Unlocked(r) ==
    /\ pc[r] = "read"
    /\ already' = [already EXCEPT ![r] = spent]
    /\ IF up
         THEN /\ inFlight' = TRUE
              /\ pipe' = Append(pipe, Cmd("GETDEL", r))
              /\ pc' = [pc EXCEPT ![r] = "burning"]
              /\ UNCHANGED <<memExp, offline, spent, armed, burns, up>>
         ELSE BurnWithoutRedis(r, spent)
    /\ UNCHANGED <<now, phase, rExp, calm, rejected, exposed>>

Burn(r) ==
    /\ pc[r] = "read" /\ ~inFlight
    /\ already' = [already EXCEPT ![r] = spent]
    /\ IF up
         THEN /\ inFlight' = TRUE
              /\ pipe' = Append(pipe, Cmd("GETDEL", r))
              /\ pc' = [pc EXCEPT ![r] = "burning"]
              /\ UNCHANGED <<memExp, offline, spent, armed, burns, up>>
         ELSE BurnWithoutRedis(r, spent)
    /\ UNCHANGED <<now, phase, rExp, calm, rejected, exposed>>

RejectGetdel(r) ==
    /\ r \in rejected /\ pc[r] = "burning"
    /\ rejected' = rejected \ {r}
    /\ BurnWithoutRedis(r, already[r])
    /\ UNCHANGED <<now, phase, rExp, calm, already, exposed>>

\* The compensating DEL failed: the ledger keeps the token, the burn stands.
RejectDel(r) ==
    /\ r \in rejected /\ pc[r] = "compensating"
    /\ rejected' = rejected \ {r}
    /\ inFlight' = FALSE
    /\ pc' = [pc EXCEPT ![r] = Verdict(r)]
    /\ UNCHANGED <<now, phase, storeVars, clientVars, calm, spent, armed,
                   already, historyVars>>

------------------------------------------------------------------------------
(* The server runs the oldest command and its reply resumes the caller.     *)

ServeSet ==
    /\ up /\ pipe # <<>> /\ Head(pipe).op = "SET"
    /\ pipe' = Tail(pipe)
    /\ rExp' = now + TTL
    /\ phase' = IF Head(pipe).by = Issuer THEN "issued" ELSE phase
    /\ UNCHANGED <<now, memExp, up, offline, calm, rejected, ledgerVars,
                   requestVars, historyVars>>

ServeGet ==
    /\ up /\ pipe # <<>> /\ Head(pipe).op = "GET"
    /\ pipe' = Tail(pipe)
    /\ IF Head(pipe).by = Nobody THEN UNCHANGED pc
                                 ELSE ReadReturns(Head(pipe).by, Readable)
    /\ UNCHANGED <<now, phase, storeVars, up, offline, calm, rejected,
                   ledgerVars, already, historyVars>>

ServeGetdel ==
    /\ up /\ pipe # <<>> /\ Head(pipe).op = "GETDEL"
    /\ pipe' = Tail(pipe)
    /\ rExp' = 0
    /\ IF Head(pipe).by = Nobody THEN UNCHANGED <<memExp, ledgerVars, pc, burns>>
                                 ELSE BurnWithRedis(Head(pipe).by, Readable)
    /\ UNCHANGED <<now, phase, up, offline, calm, rejected, already,
                   exposed>>

\* A resolved DEL retires the ledger entry, for the burn that sent it and for
\* the drain alike.
ServeDel ==
    /\ up /\ pipe # <<>> /\ Head(pipe).op = "DEL"
    /\ pipe' = Tail(pipe)
    /\ rExp' = 0
    /\ LET by == Head(pipe).by
       IN  /\ spent' = IF by = Nobody THEN spent ELSE FALSE
           /\ IF by \in Request
                THEN inFlight' = FALSE /\ pc' = [pc EXCEPT ![by] = Verdict(by)]
                ELSE UNCHANGED <<inFlight, pc>>
    /\ UNCHANGED <<now, phase, memExp, up, offline, calm, rejected, armed,
                   already, historyVars>>

Serve == ServeSet \/ ServeGet \/ ServeGetdel \/ ServeDel

------------------------------------------------------------------------------
(* Failures of the connection and of the server.                            *)

\* commandTimeout rejects the caller c of an unreplied command; the command
\* keeps its place and may still run.
TimeoutIn(queue, c) ==
    [i \in DOMAIN queue |->
        IF queue[i].by = c THEN Cmd(queue[i].op, Nobody) ELSE queue[i]]

\* Commands waiting in the offline queue would never time out.
Timeout_SocketOnly(c) ==
    /\ ~calm
    /\ \E i \in DOMAIN pipe : pipe[i].by = c
    /\ rejected' = rejected \cup ({c} \ {Drain})
    /\ pipe' = TimeoutIn(pipe, c)
    /\ UNCHANGED <<now, phase, storeVars, up, offline, calm, ledgerVars,
                   requestVars, historyVars>>

Timeout(c) ==
    /\ ~calm
    /\ \E i \in DOMAIN (pipe \o offline) : (pipe \o offline)[i].by = c
    /\ rejected' = rejected \cup ({c} \ {Drain})
    /\ pipe' = TimeoutIn(pipe, c) /\ offline' = TimeoutIn(offline, c)
    /\ UNCHANGED <<now, phase, storeVars, up, calm, ledgerVars, requestVars,
                   historyVars>>

\* The server answers with an error (-MISCONF): the command did not run.
ServeError ==
    /\ ~calm /\ up /\ pipe # <<>>
    /\ pipe' = Tail(pipe)
    /\ rejected' = rejected \cup Callers(<<Head(pipe)>>)
    /\ UNCHANGED <<now, phase, storeVars, up, offline, calm, ledgerVars,
                   requestVars, historyVars>>

\* The socket closes: the server ran some of the commands written to it, the
\* replies are lost, and all of them are retained for resending.
Flap ==
    /\ ~calm /\ up /\ Len(pipe) < MaxPipe
    /\ \E k \in 0..Len(pipe) : rExp' = KeyAfter(k)
    /\ up' = FALSE
    /\ UNCHANGED <<now, phase, memExp, pipe, offline, calm, rejected,
                   ledgerVars, requestVars, historyVars>>

\* The retry ceiling rejects the offline queue, and the retained commands too
\* unless a connect came between.
Flush ==
    /\ ~calm /\ ~up
    /\ \/ /\ rejected' = rejected \cup Callers(pipe \o offline)
          /\ pipe' = <<>>
       \/ /\ rejected' = rejected \cup Callers(offline)
          /\ UNCHANGED pipe
    /\ offline' = <<>>
    /\ UNCHANGED <<now, phase, storeVars, up, calm, ledgerVars, requestVars,
                   historyVars>>

\* drainSpentConsentOps: one DEL while the ledger holds the token.
DrainQueue == IF spent THEN <<Cmd("DEL", Drain)>> ELSE <<>>

\* 'ready': the retained commands are resent, the offline queue follows, and
\* the listener drains the ledger.
Reconnect ==
    /\ ~up
    /\ up' = TRUE
    /\ pipe' = pipe \o offline \o (IF armed THEN DrainQueue ELSE <<>>)
    /\ offline' = <<>>
    /\ UNCHANGED <<now, phase, storeVars, calm, rejected, ledgerVars,
                   requestVars, historyVars>>

\* Only the client's 'ready' would drain the ledger.
CleanupTick_PruneOnly ==
    /\ Len(pipe) < MaxPipe
    /\ memExp' = IF memExp <= now THEN 0 ELSE memExp
    /\ UNCHANGED <<now, phase, rExp, clientVars, calm, rejected, ledgerVars,
                   requestVars, historyVars>>

\* The periodic tick prunes memStore and retries the drain.
CleanupTick ==
    /\ Len(pipe) < MaxPipe
    /\ memExp' = IF memExp <= now THEN 0 ELSE memExp
    /\ pipe' = IF up THEN pipe \o DrainQueue ELSE pipe
    /\ UNCHANGED <<now, phase, rExp, up, offline, calm, rejected, ledgerVars,
                   requestVars, historyVars>>

\* The process dies and a new one starts: every in-process tier is lost, and
\* of the commands on the socket the server ran some and drops the rest.
Restart ==
    /\ ~calm
    /\ phase' = CASE phase = "setting" -> "lost"
                  [] phase = "issued"  -> "inherited"
                  [] OTHER             -> phase
    /\ memExp' = 0
    /\ \E k \in 0..Len(pipe) : rExp' = IF up THEN KeyAfter(k) ELSE rExp
    /\ up' = FALSE /\ pipe' = <<>> /\ offline' = <<>> /\ rejected' = {}
    /\ inFlight' = FALSE /\ spent' = FALSE /\ armed' \in BOOLEAN
    /\ pc' = [r \in Request |-> IF pc[r] \in Active THEN "dead" ELSE pc[r]]
    /\ already' = [r \in Request |-> FALSE]
    /\ exposed' = (exposed \/ spent)
    /\ UNCHANGED <<now, calm, burns>>

AdvanceClock ==
    /\ phase # "none" /\ now < MaxNow
    /\ now' = now + 1
    /\ UNCHANGED <<phase, storeVars, clientVars, calm, rejected, ledgerVars,
                   requestVars, historyVars>>

\* The environment stops failing.
CalmDown ==
    /\ ~calm /\ calm' = TRUE
    /\ UNCHANGED <<now, phase, storeVars, clientVars, rejected, ledgerVars,
                   requestVars, historyVars>>

------------------------------------------------------------------------------

Step(r) == Present(r) \/ RejectGet(r) \/ RefuseLocked(r) \/ Burn(r)
           \/ RejectGetdel(r) \/ RejectDel(r)

Next ==
    \/ Issue \/ RejectSet
    \/ \E r \in Request : Step(r)
    \/ Serve
    \/ \E c \in Caller \ {Nobody} : Timeout(c)
    \/ ServeError \/ Flap \/ Flush \/ Reconnect
    \/ CleanupTick \/ Restart \/ AdvanceClock \/ CalmDown

Spec == Init /\ [][Next]_vars

\* What the runtime guarantees: a request's synchronous steps run, rejections
\* reach their callers, commandTimeout fires on a command that is never
\* answered, the client reconnects forever (retryStrategy), the cleanup
\* interval keeps ticking; a healthy server answers.
FairSpec ==
    /\ Spec
    /\ \A r \in Request : WF_vars(Timeout(r))
    /\ \A r \in Request :
          WF_vars(RejectGet(r) \/ RefuseLocked(r) \/ Burn(r) \/ RejectGetdel(r)
                  \/ RejectDel(r))
    /\ WF_vars(CleanupTick)
    /\ WF_vars(calm /\ Serve) /\ WF_vars(calm /\ Reconnect)

------------------------------------------------------------------------------
(* Properties.                                                              *)

\* The canonical copy can still be read, now or once the issuing SET runs.
Canonical == rExp # 0 \/ \E i \in 1..Len(pipe) : pipe[i].op = "SET"

\* A proof is burned at most once.  The one way out is the residual the source
\* documents at drainSpentConsentOps: a restart that takes with it a ledger
\* entry whose delete was never confirmed, and even that yields one more burn.
SingleUse == burns <= (IF exposed THEN 2 ELSE 1)

\* isConsentOpSpent: once a proof has been burned, either the ledger still
\* refuses it or nothing can bring the canonical copy back: neither a key that
\* a rejected GETDEL or DEL left standing nor an issuing SET yet to be resent.
LedgerGuards == burns > 0 /\ Canonical => spent \/ exposed

\* inFlightConsumes: whoever is between lock and finally is alone there, and
\* the lock is never left behind by a burn that ended, failed or died.
LockExclusion ==
    LET Holding == {r \in Request : pc[r] \in {"burning", "compensating"}}
    IN  /\ \A r, s \in Holding : r = s
        /\ inFlight <=> Holding # {}

\* issueFreshAuthToken's backup: while the process lives, a presentation is
\* turned away only because another one holds or has burned the proof, or
\* because the proof has lapsed; never because Redis flapped.
NoSpuriousRefusal ==
    (\E r \in Request : pc[r] = "refused")
        => burns > 0 \/ inFlight \/ now >= TTL \/ phase = "inherited"

(* The inductive invariant the safety properties follow from.               *)

\* The state in which a request awaits a command of that kind.
Awaiting(op) ==
    CASE op = "GET" -> "reading" [] op = "GETDEL" -> "burning"
      [] op = "DEL" -> "compensating" [] OTHER -> "none"

\* A request has at most one command outstanding, the one its state awaits,
\* and none once it has been rejected.
OwnCommand(queue) ==
    \A i \in 1..Len(queue) : queue[i].by \in Request =>
        /\ pc[queue[i].by] = Awaiting(queue[i].op)
        /\ queue[i].by \notin rejected

NoDuplicates(queue) ==
    \A i, j \in 1..Len(queue) :
        queue[i].by \in Request /\ queue[i].by = queue[j].by => i = j

OneCommandEach ==
    /\ OwnCommand(pipe) /\ OwnCommand(offline)
    /\ NoDuplicates(pipe) /\ NoDuplicates(offline)
    /\ \A i \in 1..Len(pipe), j \in 1..Len(offline) :
          pipe[i].by \in Request => pipe[i].by # offline[j].by
    /\ \A r \in Request \cap rejected :
          pc[r] \in {"reading", "burning", "compensating"}

\* The issuing SET is the token's first command and is never queued offline.
SetIsFirst ==
    /\ \A i \in 1..Len(pipe) : pipe[i].op = "SET" => i = 1
    /\ \A i \in 1..Len(offline) : offline[i].op # "SET"

\* issueFreshAuthToken is suspended while its SET or its rejection is pending.
IssuerAwaits ==
    /\ (\E i \in 1..Len(pipe) : pipe[i].by = Issuer) => phase = "setting"
    /\ Issuer \in rejected =>
          phase = "setting" /\ \A i \in 1..Len(pipe) : pipe[i].by # Issuer

\* Nothing happens to a token before its issuer returns it.
NotBeforeIssued ==
    /\ phase \in {"none", "setting", "lost"} =>
          /\ \A r \in Request : pc[r] = "idle"
          /\ burns = 0 /\ ~inFlight
    /\ phase = "none" => pipe = <<>> /\ offline = <<>> /\ rExp = 0

\* memStore and the ledger are lost with the process that minted the token.
ProcessLocal ==
    /\ memExp # 0 => phase \in {"setting", "issued"} /\ burns = 0
    /\ spent => phase = "issued" /\ burns > 0
    /\ exposed => phase = "inherited" /\ burns > 0

\* alreadySpent, sampled before the GETDEL, is still right when it resolves:
\* only the lock's holder adds to the ledger.  A compensating DEL follows a win.
SampleIsCurrent ==
    \A r \in Request :
        /\ pc[r] = "burning" => IF already[r] THEN burns > 0 ELSE ~spent
        /\ pc[r] = "compensating" => burns > 0

\* While the process lives, only a burn or the lapse empties memStore.
BackupKept ==
    phase \in {"setting", "issued"} /\ burns = 0 /\ now < TTL => memExp = TTL

ReopenedOnce == burns > 1 => ~Canonical

IInv ==
    /\ TypeOK /\ OneCommandEach /\ SetIsFirst /\ IssuerAwaits
    /\ NotBeforeIssued /\ ProcessLocal /\ SampleIsCurrent /\ BackupKept
    /\ ReopenedOnce
    /\ SingleUse /\ LedgerGuards /\ LockExclusion /\ NoSpuriousRefusal

------------------------------------------------------------------------------
\* commandTimeout and the retry ceiling: a presentation is answered (or its
\* process dies), whatever Redis does meanwhile.
PresentationEnds == \A r \in Request : pc[r] \in Active ~> pc[r] \in Done

\* drainSpentConsentOps: once Redis is back for good, no proof stays in the
\* ledger, so a later restart exposes nothing.
LedgerDrains == calm /\ spent ~> ~spent

\* The abstract proof: live until burned, and again live once a restart has
\* exposed the key of a burned one.
AbstractProof ==
    IF phase = "none" THEN "unminted"
    ELSE IF burns = 0 \/ (exposed /\ burns = 1) THEN "live" ELSE "spent"

AbstractOutcome ==
    [r \in Request |->
        CASE pc[r] = "compensating" -> "redeemed"
          [] pc[r] = "authorised"   -> "granted"
          [] pc[r] \in {"refused", "mismatch", "dead"} -> "denied"
          [] OTHER -> "pending"]

OneShot == INSTANCE OneShotProof
              WITH proof <- AbstractProof, outcome <- AbstractOutcome,
                   reopened <- exposed

\* The two-tier burn implements the one-shot proof the routes rely on.
ImplementsOneShotProof == OneShot!Spec

==============================================================================
