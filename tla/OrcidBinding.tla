--------------------------- MODULE OrcidBinding ---------------------------
(***************************************************************************)
(* One ORCID binds one account (backend/src/lib/orcid-binding.ts): requests *)
(* that bind the same ORCID through the OAuth callback (routes/orcid.ts     *)
(* handleAccredit, handleLink) or through the signup finalize               *)
(* (routes/signup-verify.ts broadcastAccreditationAndSeed).  Each reads the *)
(* binding cache and HAF, takes the SETNX lock, broadcasts an accredit op   *)
(* and caches the binding for as long as HAF may lag behind the chain.  A   *)
(* metadata edit (routes/accreditation-metadata.ts) carries an account's    *)
(* ORCID over without any of this.                                          *)
(*                                                                          *)
(* Every key of the source carries the ORCID, so the module follows one.    *)
(* Timers count down in ticks; the order of the constants is the code's.    *)
(* A Redis outage is a run of commands that fail.                           *)
(***************************************************************************)
EXTENDS Naturals, Sequences, FiniteSets

CONSTANTS
    Request,            \* bind attempts, each one HTTP request
    Account,
    Plans,              \* what the requests are, see Plan
    BROADCAST_TIMEOUT,  \* DEFAULT_BROADCAST_TIMEOUT_MS (30 s), in ticks
    PROBE_TIMEOUT,      \* a HAF read: 5 s to connect, 30 s statement_timeout
    LOCK_TTL,           \* ORCID_BINDING_LOCK_TTL_SECONDS (35 s)
    HAF_LAG,            \* HAF_INDEXING_LAG_CEILING_SECONDS (120 s)
    Bounds,             \* bound: how many kinds of fault, ops of authorities
                        \* and metadata edits one behaviour has together
    None

\* Who binds, by which route; a resumed finalize first asks HAF whether an
\* earlier attempt accredited the account.
Plan == [Request -> [account : Account,
                     mode : {"accredit", "link", "finalize", "resume"}]]

ASSUME TimerAssumption ==
    /\ BROADCAST_TIMEOUT \in Nat \ {0} /\ PROBE_TIMEOUT \in Nat
    /\ LOCK_TTL \in Nat /\ BROADCAST_TIMEOUT < LOCK_TTL
    /\ HAF_LAG \in Nat /\ LOCK_TTL <= HAF_LAG
ASSUME NoneAssumption == None \notin Request /\ None \notin Account
ASSUME PlansAssumption == Plans \subseteq Plan
ASSUME BoundAssumption == Bounds \subseteq [faults : Nat, ops : Nat, edits : Nat]

VARIABLES
    plan,       \* what the requests are
    pc,         \* where each request stands
    found,      \* account whose status the check is about to read
    alone,      \* requests that run without the lock ('unavailable')
    timer,      \* what is left of the timeout of the probe or the broadcast
    flight,     \* the request's transaction, from its preflight read on
    window,     \* ticks left until HAF must show what a broadcast did
    chain,      \* authority ops about the accounts, in block order
    indexed,    \* how many of them HAF shows
    lock,       \* orcid_binding_lock: its nonce's owner and TTL
    cache,      \* orcid_binding: the cached account and TTL
    faults,     \* history: what went wrong, see Fault
    early,      \* history: checks another account's bind ran into
    late,       \* history: requests whose lock ran out while they were under it
    edit,       \* accounts whose metadata edit is about to carry the ORCID over
    carried     \* history: accounts that only a stale edit bound again

chainVars == <<flight, window, chain, indexed>>
editVars == <<edit, carried>>
vars == <<plan, pc, found, alone, timer, chainVars, lock, cache, faults,
          early, late, editVars>>

Checking == {"cache", "haf", "status", "acquire"}
Under == {"probing", "broadcasting", "caching"}    \* under the lock
Done == {"bound", "unsure", "failed", "refused", "dead"}
Stage == {"idle", "releasing", "abandoning"} \cup Checking \cup Under \cup Done

\* A request ran without the lock, the cache or the extension; the process
\* died, Redis evicted a key, or a node's error hid that the op landed.
Fault == {"noLock", "noCache", "notExtended", "crash", "eviction",
          "errorLanded"}

\* "bind" accredits with this ORCID, "other" without it or with another one.
Op == [act : {"bind", "other", "revoke"}, account : Account,
       by : Request \cup {None}]

NoLock == [by |-> None, ttl |-> 0]
NoCache == [account |-> None, ttl |-> 0]

TypeOK ==
    /\ plan \in Plans
    /\ pc \in [Request -> Stage]
    /\ found \in [Request -> Account \cup {None}]
    /\ alone \subseteq Request
    /\ timer \in [Request -> Nat]
    /\ flight \in [Request -> {"none", "flying", "landed", "void"}]
    /\ window \in [Request -> 0..HAF_LAG]
    /\ chain \in Seq(Op) /\ indexed \in 0..Len(chain)
    /\ lock \in [by : Request \cup {None}, ttl : 0..HAF_LAG]
    /\ cache \in [account : Account \cup {None}, ttl : 0..HAF_LAG]
    /\ faults \subseteq Fault
    /\ early \subseteq Request /\ late \subseteq Request
    /\ edit \subseteq Account /\ carried \subseteq Account
    /\ lock.by = None <=> lock.ttl = 0
    /\ cache.account = None <=> cache.ttl = 0

Init ==
    /\ plan \in Plans
    /\ chain = <<>> /\ indexed = 0
    /\ pc = [r \in Request |-> "idle"]
    /\ found = [r \in Request |-> None]
    /\ alone = {} /\ early = {} /\ late = {} /\ faults = {}
    /\ edit = {} /\ carried = {}
    /\ timer = [r \in Request |-> 0]
    /\ flight = [r \in Request |-> "none"]
    /\ window = [r \in Request |-> 0]
    /\ lock = NoLock /\ cache = NoCache

------------------------------------------------------------------------------
(* What the first n ops of the chain say.                                   *)

\* The accounts whose latest op does one of these.
Standing(acts, n) ==
    {a \in Account : \E i \in 1..n :
        /\ chain[i].account = a /\ chain[i].act \in acts
        /\ \A j \in (i + 1)..n : chain[j].account # a}
Bound(n) == Standing({"bind"}, n)
Accredited(n) == Standing({"bind", "other"}, n)

\* The account of the latest op that carries the ORCID, if there is one.
Carriers(n) ==
    {a \in Account : \E i \in 1..n :
        /\ chain[i].account = a /\ chain[i].act = "bind"
        /\ \A j \in (i + 1)..n : chain[j].act # "bind"}

Goto(r, stage) == pc' = [pc EXCEPT ![r] = stage]
Mine(r) == plan[r].account

\* What the behaviour has had, with these faults and so many more ops and edits,
\* is within the bounds.
Within(fs, ops, edits) ==
    LET others == {i \in DOMAIN chain : chain[i].by = None}
        carries == {i \in others : chain[i].act = "bind"}
    IN  \E b \in Bounds :
            /\ Cardinality(fs) <= b.faults
            /\ Cardinality(others \ carries) + ops <= b.ops
            /\ Cardinality(carries) + edits <= b.edits

\* A fault of this kind strikes; what it leads to is not bounded.
Fails(kind) ==
    /\ faults' = faults \cup {kind}
    /\ Within(faults', 0, 0)

------------------------------------------------------------------------------
(* The checks, before the lock.                                             *)

\* handleAccredit refuses an account it finds accredited, handleLink one it
\* does not; a stale or failed read finds nobody.  Then the check begins.
Arrive(r) ==
    /\ pc[r] = "idle"
    /\ \E accredited \in {Accredited(indexed), {}} :
          LET refused == CASE plan[r].mode = "accredit" -> accredited
                           [] plan[r].mode = "link" -> Account \ accredited
                           [] OTHER -> {}
          IN  Goto(r, IF Mine(r) \in refused THEN "refused" ELSE "cache")
    /\ early' = IF lock.by # None /\ Mine(lock.by) # Mine(r)
                  THEN early \cup {r} ELSE early
    /\ UNCHANGED <<plan, found, alone, timer, chainVars, lock, cache, faults, late,
                   editVars>>

\* getCachedOrcidBinding: a hit for another account refuses, one for this
\* account passes without a look at HAF; a failed read falls through to HAF.
ReadCache(r) ==
    /\ pc[r] = "cache"
    /\ \/ /\ Goto(r, CASE cache.account = None    -> "haf"
                       [] cache.account = Mine(r) -> "acquire"
                       [] OTHER                   -> "refused")
          /\ UNCHANGED faults
       \/ cache # NoCache /\ Goto(r, "haf") /\ Fails("noCache")
    /\ UNCHANGED <<plan, found, alone, timer, chainVars, lock, cache, early, late, editVars>>

\* findAccreditedAccountWithOrcid, first query: whose accredit op last carried
\* the ORCID.  HAF unavailable throws.
ReadCarrier(r) ==
    /\ pc[r] = "haf"
    /\ \/ /\ Carriers(indexed) = {}
          /\ Goto(r, "acquire") /\ UNCHANGED found
       \/ \E a \in Carriers(indexed) :
             found' = [found EXCEPT ![r] = a] /\ Goto(r, "status")
       \/ Goto(r, "failed") /\ UNCHANGED found
    /\ UNCHANGED <<plan, alone, timer, chainVars, lock, cache, faults, early, late, editVars>>

\* Second query: is that account's latest op still an accredit with it.
ReadStatus(r) ==
    /\ pc[r] = "status"
    /\ Goto(r, IF found[r] # Mine(r) /\ found[r] \in Bound(indexed)
                 THEN "refused" ELSE "acquire")
    /\ found' = [found EXCEPT ![r] = None]
    /\ UNCHANGED <<plan, alone, timer, chainVars, lock, cache, faults, early, late, editVars>>

------------------------------------------------------------------------------
(* withOrcidBindingLock and the broadcast.                                  *)

\* broadcastAdminCustomJson: the timeout runs from the call, over dhive's
\* preflight reads as over the POST; what it leaves behind may still be sent.
Broadcast(r) ==
    /\ Goto(r, "broadcasting")
    /\ timer' = [timer EXCEPT ![r] = BROADCAST_TIMEOUT]
    /\ flight' = [flight EXCEPT ![r] = "flying"]

\* Under the lock a resumed finalize first asks HAF for its account; the others
\* broadcast at once.
Begin(r) ==
    IF plan[r].mode = "resume"
      THEN /\ Goto(r, "probing")
           /\ timer' = [timer EXCEPT ![r] = PROBE_TIMEOUT]
           /\ UNCHANGED flight
      ELSE Broadcast(r)

\* r's bind runs into the checks of the other accounts' requests.
RunsInto(r) ==
    early' = early \cup {s \in Request : pc[s] \in Checking /\ Mine(s) # Mine(r)}

\* SET NX without the NX.
Acquire_Overwrites(r) ==
    /\ pc[r] = "acquire"
    /\ lock' = [by |-> r, ttl |-> LOCK_TTL]
    /\ Begin(r) /\ RunsInto(r)
    /\ UNCHANGED <<plan, found, alone, window, chain, indexed, cache, faults, late,
                   editVars>>

\* 'acquired'.
Acquire(r) ==
    /\ pc[r] = "acquire" /\ lock = NoLock
    /\ lock' = [by |-> r, ttl |-> LOCK_TTL]
    /\ Begin(r) /\ RunsInto(r)
    /\ UNCHANGED <<plan, found, alone, window, chain, indexed, cache, faults, late,
                   editVars>>

\* 'held': 409 at the callback, the ambiguous 504 at the finalize.
RefuseHeld(r) ==
    /\ pc[r] = "acquire" /\ lock # NoLock
    /\ Goto(r, IF plan[r].mode \in {"finalize", "resume"}
                 THEN "unsure" ELSE "refused")
    /\ UNCHANGED <<plan, found, alone, timer, chainVars, lock, cache, faults,
                   early, late, editVars>>

\* 'unavailable': Redis is down, or the SET rejected although it may have run.
AcquireFails(r) ==
    /\ pc[r] = "acquire"
    /\ lock' \in {lock} \cup (IF lock = NoLock
                                THEN {[by |-> r, ttl |-> LOCK_TTL]} ELSE {})
    /\ alone' = alone \cup {r}
    /\ Begin(r) /\ RunsInto(r) /\ Fails("noLock")
    /\ UNCHANGED <<plan, found, window, chain, indexed, cache, late, editVars>>

\* The probe finds the account accredited and the broadcast is skipped; or it
\* does not, throws or times out, and the broadcast begins.
Probe(r) ==
    /\ pc[r] = "probing"
    /\ \/ /\ Mine(r) \in Accredited(indexed) /\ Goto(r, "caching")
          /\ timer' = [timer EXCEPT ![r] = 0] /\ UNCHANGED flight
       \/ Broadcast(r)
    /\ UNCHANGED <<plan, found, alone, window, chain, indexed, lock, cache, faults,
                   early, late, editVars>>

\* The node answers with the transaction's id, before or after its block.
Resolve(r) ==
    /\ pc[r] = "broadcasting" /\ flight[r] # "void"
    /\ Goto(r, "caching")
    /\ timer' = [timer EXCEPT ![r] = 0]
    /\ window' = [window EXCEPT ![r] = HAF_LAG]
    /\ UNCHANGED <<plan, found, alone, flight, chain, indexed, lock, cache,
                   faults, early, late, editVars>>

\* An error other than the timeout: final under the lock, which is released,
\* ambiguous without it.  The node may have accepted the transaction.
Reject(r) ==
    /\ pc[r] = "broadcasting"
    /\ Goto(r, IF r \in alone THEN "unsure" ELSE "abandoning")
    /\ timer' = [timer EXCEPT ![r] = 0]
    /\ IF flight[r] = "landed" THEN Fails("errorLanded") ELSE UNCHANGED faults
    /\ UNCHANGED <<plan, found, alone, chainVars, lock, cache, early, late, editVars>>

\* The extension is retried until Redis confirms it.
Expire_Insists(r) ==
    /\ pc[r] = "broadcasting" /\ timer[r] = 0 /\ lock # NoLock
    /\ Goto(r, "unsure")
    /\ window' = [window EXCEPT ![r] = HAF_LAG]
    /\ lock' = [by |-> lock.by, ttl |-> HAF_LAG]
    /\ UNCHANGED <<plan, found, alone, timer, flight, chain, indexed, cache,
                   faults, early, late, editVars>>

\* The lock is left behind with the TTL it was taken with.
Expire_KeepsTtl(r) ==
    /\ pc[r] = "broadcasting" /\ timer[r] = 0
    /\ Goto(r, "unsure")
    /\ window' = [window EXCEPT ![r] = HAF_LAG]
    /\ UNCHANGED <<plan, found, alone, timer, flight, chain, indexed, lock,
                   cache, faults, early, late, editVars>>

\* BroadcastTimeoutError, then extendBindingLockOnTimeoutOrLog: EXPIRE whatever
\* lock is there, its owner unread; the lock is left behind (skipRelease).
Expire(r) ==
    /\ pc[r] = "broadcasting" /\ timer[r] = 0
    /\ Goto(r, "unsure")
    /\ window' = [window EXCEPT ![r] = HAF_LAG]
    /\ \/ /\ lock # NoLock
          /\ lock' = [by |-> lock.by, ttl |-> HAF_LAG]
          /\ faults' = faults \cup IF lock.by = r THEN {} ELSE {"notExtended"}
       \/ /\ lock = NoLock /\ UNCHANGED lock
          /\ faults' = faults \cup {"notExtended"}
       \/ lock # NoLock /\ UNCHANGED lock /\ Fails("notExtended")
    /\ UNCHANGED <<plan, found, alone, timer, flight, chain, indexed, cache,
                   early, late, editVars>>

\* The cascade caches nothing.
CacheBinding_Skipped(r) ==
    /\ pc[r] = "caching"
    /\ Goto(r, IF r \in alone THEN "bound" ELSE "releasing")
    /\ UNCHANGED <<plan, found, alone, timer, chainVars, lock, cache, faults,
                   early, late, editVars>>

\* cacheOrcidBinding: a Redis error is swallowed.  The account's row and the
\* seed are written after it; nothing here reads them.
CacheBinding(r) ==
    /\ pc[r] = "caching"
    /\ Goto(r, IF r \in alone THEN "bound" ELSE "releasing")
    /\ \/ cache' = [account |-> Mine(r), ttl |-> HAF_LAG] /\ UNCHANGED faults
       \/ UNCHANGED cache /\ Fails("noCache")
    /\ UNCHANGED <<plan, found, alone, timer, chainVars, lock, early, late, editVars>>

Released(r) == Goto(r, IF pc[r] = "releasing" THEN "bound" ELSE "failed")

\* releaseBindingLock: compare-and-delete on the nonce; a failure leaves the
\* lock to its TTL.
Release(r) ==
    /\ pc[r] \in {"releasing", "abandoning"} /\ Released(r)
    /\ lock' \in {lock} \cup (IF lock.by = r THEN {NoLock} ELSE {})
    /\ UNCHANGED <<plan, found, alone, timer, chainVars, cache, faults, early, late, editVars>>

------------------------------------------------------------------------------
(* The chain, HAF, Redis and the clock.                                     *)

\* A transaction enters a block: while its request waits, after the request
\* gave up, or after its process died.
Land(r) ==
    /\ flight[r] = "flying"
    /\ chain' = Append(chain, [act |-> "bind", account |-> Mine(r), by |-> r])
    /\ flight' = [flight EXCEPT ![r] = "landed"]
    /\ IF pc[r] \in {"abandoning", "failed"}
         THEN Fails("errorLanded") ELSE UNCHANGED faults
    /\ UNCHANGED <<plan, pc, found, alone, timer, window, indexed, lock, cache,
                   early, late, editVars>>

\* The node refuses the transaction, or it expires unincluded.
Vanish(r) ==
    /\ flight[r] = "flying"
    /\ flight' = [flight EXCEPT ![r] = "void"]
    /\ UNCHANGED <<plan, pc, found, alone, timer, window, chain, indexed, lock,
                   cache, faults, early, late, editVars>>

\* An authority revokes an account, or accredits it without this ORCID, as the
\* metadata edit of an account whose latest op carries none does.
Govern(a) ==
    /\ Within(faults, 1, 0)
    /\ \E act \in {"other", "revoke"} :
          chain' = Append(chain, [act |-> act, account |-> a, by |-> None])
    /\ UNCHANGED <<plan, pc, found, alone, timer, flight, window, indexed, lock,
                   cache, faults, early, late, editVars>>

\* PATCH /accreditation/metadata reads the account's latest accredit op from
\* HAF, whatever follows it: the membership read may be stale, and the check
\* for a sanction is one of the ways the edit comes to nothing.
EditReads(a) ==
    /\ \E i \in 1..indexed :
          /\ chain[i].account = a /\ chain[i].act = "bind"
          /\ \A j \in (i + 1)..indexed :
                chain[j].account = a => chain[j].act = "revoke"
    /\ edit' = edit \cup {a} /\ Within(faults, 0, Cardinality(edit'))
    /\ UNCHANGED <<plan, pc, found, alone, timer, chainVars, lock, cache, faults,
                   early, late, carried>>

\* Its op lands, after the proof, the preflight and the block, with the ORCID of
\* the op it read: no lock is taken and no binding looked up.
EditLands(a) ==
    /\ a \in edit
    /\ chain' = Append(chain, [act |-> "bind", account |-> a, by |-> None])
    /\ carried' = carried \cup ({a} \ Bound(Len(chain)))
    /\ edit' = edit \ {a}
    /\ UNCHANGED <<plan, pc, found, alone, timer, flight, window, indexed, lock,
                   cache, faults, early, late>>

\* A check, the proof, the node or the timeout ends it.
EditFails(a) ==
    /\ a \in edit /\ edit' = edit \ {a}
    /\ UNCHANGED <<plan, pc, found, alone, timer, chainVars, lock, cache, faults,
                   early, late, carried>>

Edit(a) == EditReads(a) \/ EditLands(a) \/ EditFails(a)

Index ==
    /\ indexed < Len(chain) /\ indexed' = indexed + 1
    /\ UNCHANGED <<plan, pc, found, alone, timer, flight, window, chain, lock,
                   cache, faults, early, late, editVars>>

\* maxmemory-policy allkeys-lru.
Evict ==
    /\ \/ lock # NoLock /\ lock' = NoLock /\ UNCHANGED cache
       \/ cache # NoCache /\ cache' = NoCache /\ UNCHANGED lock
    /\ Fails("eviction")
    /\ UNCHANGED <<plan, pc, found, alone, timer, chainVars, early, late, editVars>>

\* The process dies: its requests go unanswered, transactions, lock and cache
\* live on.
Crash ==
    /\ \E r \in Request : pc[r] \notin {"idle"} \cup Done
    /\ pc' = [r \in Request |->
                IF pc[r] \in {"idle"} \cup Done THEN pc[r] ELSE "dead"]
    /\ found' = [r \in Request |-> None]
    /\ timer' = [r \in Request |-> 0]
    /\ Fails("crash")
    /\ UNCHANGED <<plan, alone, chainVars, lock, cache, early, late, editVars>>

Less(n) == IF n = 0 THEN 0 ELSE n - 1
AgedLock == IF lock.ttl <= 1 THEN NoLock ELSE [by |-> lock.by, ttl |-> lock.ttl - 1]
AgedCache ==
    IF cache.ttl <= 1 THEN NoCache
    ELSE [account |-> cache.account, ttl |-> cache.ttl - 1]

\* HAF still does not show what became of r's transaction.
Unsettled(r) ==
    \/ flight[r] = "flying"
    \/ \E i \in (indexed + 1)..Len(chain) : chain[i].by = r

\* REDIS_COMMAND_TIMEOUT_MS and the timer keep a request from sleeping through
\* a tick in the middle of the sequence; HAF keeps to its ceiling.
Tick ==
    /\ \A r \in Request :
          /\ pc[r] # "caching"
          /\ pc[r] \in {"probing", "broadcasting"} => timer[r] > 0
          /\ window[r] = 1 => ~Unsettled(r)
    /\ timer' = [r \in Request |-> Less(timer[r])]
    /\ window' = [r \in Request |-> Less(window[r])]
    /\ lock' = AgedLock /\ cache' = AgedCache
    /\ late' = late \cup {r \in Request :
                   pc[r] \in Under /\ lock.by = r /\ AgedLock = NoLock}
    /\ UNCHANGED <<plan, pc, found, alone, flight, chain, indexed, faults, early,
                   editVars>>

------------------------------------------------------------------------------

Step(r) ==
    \/ ReadCache(r) \/ ReadCarrier(r) \/ ReadStatus(r)
    \/ Acquire(r) \/ RefuseHeld(r) \/ AcquireFails(r) \/ Probe(r)
    \/ Resolve(r) \/ Reject(r) \/ Expire(r)
    \/ CacheBinding(r) \/ Release(r)

Next ==
    \/ \E r \in Request : Arrive(r) \/ Step(r) \/ Land(r) \/ Vanish(r)
    \/ \E a \in Account : Govern(a) \/ Edit(a)
    \/ Index \/ Evict \/ Crash \/ Tick

Spec == Init /\ [][Next]_vars

\* A request's own steps run, HAF and Postgres answer, Redis commands answer or
\* reject, the broadcast timer fires.  The node need not answer, refuse or
\* include anything; HAF shows what the chain holds and the node drops what it
\* did not include before the ceiling (hive.ts, orcid-binding.ts).
FairSpec ==
    /\ Spec
    /\ \A r \in Request :
          /\ WF_vars(ReadCache(r) \/ ReadCarrier(r) \/ ReadStatus(r)
                     \/ Acquire(r) \/ RefuseHeld(r) \/ AcquireFails(r) \/ Probe(r)
                     \/ Expire(r) \/ CacheBinding(r) \/ Release(r))
          /\ WF_vars(Vanish(r))
    /\ WF_vars(Index) /\ WF_vars(Tick)

------------------------------------------------------------------------------
(* Properties.                                                              *)

\* The requests another account's bind ran into that went on to bind.
Overtook ==
    {r \in early : \/ flight[r] # "none"
                   \/ pc[r] \in {"probing", "caching", "releasing", "bound"}}

\* The invariant orcid-binding.ts states, one ORCID, one account, and every way
\* the code has of losing it: two accounts are bound on the chain only after a
\* fault, when a request that another account's bind ran into went on, when a
\* request outlived its lock, or when a metadata edit that had read an account's
\* ORCID before it was revoked or replaced landed after that.
OneAccount ==
    Cardinality(Bound(Len(chain))) > 1 =>
        faults # {} \/ Overtook # {} \/ late # {} \/ carried # {}

\* acquireBindingLock: two requests that took the lock are never under it at the
\* same time, as long as Redis keeps the key and neither outlived it.
LockedBroadcastsAlone ==
    \A r, s \in Request \ (alone \cup late) :
        r # s /\ {pc[r], pc[s]} \subseteq Under => "eviction" \in faults

\* extendBindingLockOnTimeoutOrLog: after a timeout, until HAF shows what became
\* of the transaction or the ceiling has passed, nobody takes the lock again.
UnsureShields ==
    \A r \in Request \ alone, s \in Request \ (alone \cup late) :
        /\ pc[r] = "unsure" /\ window[r] > 0 /\ Unsettled(r)
        /\ r # s /\ pc[s] \in Under
        => faults \cap {"eviction", "notExtended"} # {}

\* ORCID_BINDING_LOCK_TTL_SECONDS, above the broadcast's timeout "so a legitimately slow
\* broadcast does not lose its lock mid-flight": a broadcast ends before the lock it was
\* given, but for one behind the probe of a resumed finalize, which uses the margin up.
OnlyProbesLapse == \A r \in late : plan[r].mode = "resume"

\* What the binding lock is for: it separates those who hold it, outlasts a
\* timeout, and is lost by age to a probe only.
LockHolds == LockedBroadcastsAlone /\ UnsureShields /\ OnlyProbesLapse

\* Every bind is answered, whatever the node and Redis do; each request comes
\* once.
EveryBindEnds == []<>(\A r \in Request : pc[r] \in {"idle"} \cup Done)

\* signup-verify.ts:362 says the lock serializes concurrent binds so that the
\* pre-lock check and the broadcast are not a TOCTOU: with nothing failing, two
\* accounts are never bound.
NotATOCTOU ==
    Cardinality(Bound(Len(chain))) > 1 => faults # {} \/ late # {} \/ carried # {}

==============================================================================
