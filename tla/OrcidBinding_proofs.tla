------------------------ MODULE OrcidBinding_proofs ------------------------
(***************************************************************************)
(* Theorems about OrcidBinding, for every set of requests and accounts and *)
(* every timeout, lock TTL and lag ceiling in the code's order.             *)
(***************************************************************************)
EXTENDS OrcidBinding, FiniteSetTheorems, TLAPS

USE DEF vars, chainVars, editVars

(***************************************************************************)
(* The inductive invariant.                                                *)
(***************************************************************************)

\* Before its broadcast a request has no transaction, and no window before its outcome.
Fresh ==
    \A r \in Request :
        /\ pc[r] \in {"idle", "refused", "probing"} \cup Checking => flight[r] = "none"
        /\ pc[r] \in {"idle", "refused", "probing", "broadcasting"} \cup Checking => window[r] = 0
        /\ pc[r] = "broadcasting" => flight[r] # "none"

\* What a request broadcast and only that carries its name.
OpsOwned ==
    \A i \in 1..Len(chain) :
        /\ chain[i].by \in Request =>
              /\ flight[chain[i].by] = "landed"
              /\ chain[i].act = "bind" /\ chain[i].account = Mine(chain[i].by)

\* What the history of faults tells.
FaultsTold ==
    /\ alone # {} => "noLock" \in faults
    /\ \A r \in Request :
          /\ pc[r] = "dead" => "crash" \in faults
          /\ pc[r] \in {"abandoning", "failed"} /\ flight[r] = "landed" =>
                "errorLanded" \in faults

\* A request that took the lock and did not outlive it has it while it is under it.
Holder ==
    \A r \in Request \ (alone \cup late) :
        pc[r] \in Under /\ "eviction" \notin faults => lock.by = r

\* A broadcast that no probe preceded ends before its lock.
Margin ==
    /\ OnlyProbesLapse
    /\ \A r \in Request : pc[r] = "probing" => plan[r].mode = "resume"
    /\ \A r \in Request : lock.by = r =>
          /\ pc[r] \notin {"idle"} \cup Checking
          /\ pc[r] = "broadcasting" /\ plan[r].mode # "resume" => timer[r] < lock.ttl

\* After a timeout the lock outlasts the window in which HAF may not show the outcome.
Shield ==
    \A r \in Request \ alone :
        /\ pc[r] = "unsure" /\ window[r] > 0 /\ Unsettled(r)
        /\ "eviction" \notin faults /\ "notExtended" \notin faults
        => lock.by = r /\ window[r] <= lock.ttl

\* A check that no other account's bind ran into sees no such account hold the lock.
Checked ==
    \A s \in Request \ early :
        pc[s] \in Checking /\ lock.by # None => Mine(lock.by) = Mine(s)

\* Where a bind of the ORCID is, one was the last.
LastOne ==
    \A n \in 0..Len(chain) :
        (\E i \in 1..n : chain[i].act = "bind") => Carriers(n) # {}

Quiet == faults = {} /\ Overtook = {} /\ late = {} /\ carried = {}

\* The accounts bound on the chain, and nobody else.
BoundNow == Bound(Len(chain))

\* Requests whose transaction HAF does not show and that may still bind without a fault.
Binding(r) == Unsettled(r) /\ pc[r] \notin {"abandoning", "failed"}

Cached(r) == 0 < window[r] /\ cache.account = Mine(r) /\ window[r] <= cache.ttl

\* A bind HAF does not show is covered by the lock or, once confirmed, by the cache.
Covered ==
    \A r \in Request : Binding(r) =>
        \/ pc[r] = "broadcasting"
        \/ pc[r] = "caching" /\ window[r] = HAF_LAG
        \/ pc[r] \in {"releasing", "bound"} /\ Cached(r)
        \/ pc[r] = "unsure" /\ window[r] > 0

\* Requests whose check found nothing against them, and those that bind.
Trusted(s) ==
    s \notin early /\ (pc[s] \in {"haf", "status", "acquire"} \cup Under \/ Binding(s))

\* Requests past their check, and transactions that may still land.
Sure(s) ==
    \/ pc[s] \in {"acquire"} \cup Under
    \/ flight[s] = "flying" /\ pc[s] \notin {"abandoning", "failed"}

\* They agree with the cache and with whatever HAF does not show.
Agreed ==
    \A s \in Request : Trusted(s) =>
        /\ cache.account \in {None, Mine(s)}
        /\ \A r \in Request : Binding(r) => Mine(r) = Mine(s)

\* The account another request found, and nobody else, may be bound besides its own.
Found ==
    \A s \in Request \ early : pc[s] = "status" =>
        BoundNow \subseteq {Mine(s), found[s]}

\* Past the check only one's own account may be bound.
Passed ==
    \A s \in Request \ early : Sure(s) => BoundNow \subseteq {Mine(s)}

\* Nobody but the cached account is bound.
CacheTrue == cache.account # None => BoundNow \subseteq {cache.account}

\* Nobody but the latest carrier is bound.
CarrierOnly == \A n \in 0..Len(chain) : Bound(n) \subseteq Carriers(n)

\* Who is bound on the chain and not yet where HAF is owes it to a request's op since.
Shown ==
    \A n \in 0..Len(chain) : \A a \in BoundNow \ Bound(n) :
        \E k \in (n + 1)..Len(chain) :
            chain[k].act = "bind" /\ chain[k].account = a /\ chain[k].by \in Request

QuietInv == Covered /\ Agreed /\ Found /\ Passed /\ CacheTrue /\ CarrierOnly /\ Shown

IInv ==
    /\ TypeOK /\ Fresh /\ OpsOwned /\ FaultsTold
    /\ Holder /\ Margin /\ Shield /\ Checked /\ LastOne
    /\ Quiet => QuietInv

(***************************************************************************)
(* Typing.                                                                 *)
(***************************************************************************)

\* What a timer that counts down becomes.
LEMMA LessTyped ==
    /\ \A m \in Nat : Less(m) \in Nat /\ (m > 0 => Less(m) = m - 1) /\ (m = 0 => Less(m) = 0)
    /\ \A n \in Nat : \A m \in 0..n : Less(m) \in 0..n
  BY DEF Less

\* The timers' values, for the provers.
LEMMA Timers ==
    /\ BROADCAST_TIMEOUT \in Nat /\ PROBE_TIMEOUT \in Nat /\ 0 \in Nat
    /\ LOCK_TTL \in 1..HAF_LAG /\ HAF_LAG \in 1..HAF_LAG /\ 0 \in 0..HAF_LAG
    /\ BROADCAST_TIMEOUT < LOCK_TTL
  BY TimerAssumption

\* A request binds an account.
LEMMA MineTyped ==
    ASSUME TypeOK, NEW r \in Request
    PROVE  Mine(r) \in Account /\ Mine(r) # None
  BY PlansAssumption, NoneAssumption DEF TypeOK, Plan, Mine

\* Lock and cache lose a tick, and their content with the last.
LEMMA AgedTyped ==
    ASSUME TypeOK
    PROVE  /\ AgedLock \in [by : Request \cup {None}, ttl : 0..HAF_LAG]
           /\ AgedCache \in [account : Account \cup {None}, ttl : 0..HAF_LAG]
           /\ (AgedLock.by = None <=> AgedLock.ttl = 0)
           /\ (AgedCache.account = None <=> AgedCache.ttl = 0)
           /\ lock.ttl > 1 => /\ AgedLock.by = lock.by
                              /\ AgedLock.ttl = lock.ttl - 1
           /\ cache.ttl > 1 => /\ AgedCache.account = cache.account
                               /\ AgedCache.ttl = cache.ttl - 1
           /\ AgedLock.by \in {lock.by, None}
           /\ AgedCache.account \in {cache.account, None}
  BY TimerAssumption DEF TypeOK, AgedLock, AgedCache, NoLock, NoCache

\* An op at the end of the chain leaves the others where they are.
LEMMA AppendKeeps ==
    ASSUME chain \in Seq(Op), NEW o \in Op
    PROVE  /\ Append(chain, o) \in Seq(Op)
           /\ Len(chain) \in Nat
           /\ Len(Append(chain, o)) = Len(chain) + 1
           /\ Append(chain, o)[Len(chain) + 1] = o
           /\ \A i \in 1..Len(chain) : Append(chain, o)[i] = chain[i] /\ chain[i] \in Op
  OBVIOUS

\* A fault is of a kind the history knows.
LEMMA FaultsTyped ==
    ASSUME TypeOK,
           \/ \E kind \in Fault : Fails(kind)
           \/ \E kinds \in SUBSET Fault : faults' = faults \cup kinds
           \/ UNCHANGED faults
    PROVE  faults' \subseteq Fault /\ faults \subseteq faults'
  BY DEF TypeOK, Fails

\* The kinds of fault that the steps record.
LEMMA Kinds == {"noLock", "noCache", "notExtended", "crash", "eviction", "errorLanded"} \subseteq Fault
  BY DEF Fault

\* Every step keeps the history of faults, and adds what it may.
LEMMA FaultsGrow ==
    ASSUME TypeOK, [Next]_vars
    PROVE  faults' \subseteq Fault /\ faults \subseteq faults'
  <1>1. ASSUME NEW r \in Request, Arrive(r) \/ Step(r)
        PROVE  \/ \E kind \in Fault : Fails(kind)
               \/ \E kinds \in SUBSET Fault : faults' = faults \cup kinds
               \/ UNCHANGED faults
    <2>1. CASE Expire(r)
      BY <2>1, Kinds DEF Expire
    <2>2. CASE AcquireFails(r) \/ ReadCache(r) \/ Reject(r) \/ CacheBinding(r)
      BY <2>2, Kinds DEF AcquireFails, ReadCache, Reject, CacheBinding
    <2>3. CASE Arrive(r) \/ ReadCarrier(r) \/ ReadStatus(r) \/ Acquire(r) \/ RefuseHeld(r)
               \/ Probe(r) \/ Resolve(r) \/ Release(r)
      BY <2>3 DEF Arrive, ReadCarrier, ReadStatus, Acquire, RefuseHeld, Probe, Resolve, Release
    <2> QED
      BY <1>1, <2>1, <2>2, <2>3 DEF Step
  <1>2. ASSUME NEW r \in Request, Land(r) \/ Vanish(r)
        PROVE  (\E kind \in Fault : Fails(kind)) \/ UNCHANGED faults
    BY <1>2, Kinds DEF Land, Vanish
  <1>3. ASSUME (\E a \in Account : Govern(a) \/ Edit(a)) \/ Index \/ Evict \/ Crash \/ Tick \/ UNCHANGED vars
        PROVE  (\E kind \in Fault : Fails(kind)) \/ UNCHANGED faults
    BY <1>3, Kinds DEF Govern, Edit, EditReads, EditLands, EditFails, Index, Evict, Crash, Tick
  <1> QED
    BY <1>1, <1>2, <1>3, FaultsTyped DEF Next

\* Under the lock a request probes or broadcasts.
LEMMA BeginGoes ==
    ASSUME TypeOK, NEW r \in Request, Begin(r)
    PROVE  \/ /\ plan[r].mode = "resume" /\ pc' = [pc EXCEPT ![r] = "probing"]
              /\ timer' = [timer EXCEPT ![r] = PROBE_TIMEOUT] /\ flight' = flight
           \/ /\ plan[r].mode # "resume" /\ pc' = [pc EXCEPT ![r] = "broadcasting"]
              /\ timer' = [timer EXCEPT ![r] = BROADCAST_TIMEOUT]
              /\ flight' = [flight EXCEPT ![r] = "flying"]
  BY DEF Begin, Broadcast, Goto

\* The probe ends in the cache write or the broadcast.
LEMMA ProbeGoes ==
    ASSUME TypeOK, NEW r \in Request, Probe(r)
    PROVE  /\ pc[r] = "probing"
           /\ UNCHANGED <<plan, found, alone, window, chain, indexed, lock, cache, faults, early, late,
                           edit, carried>>
           /\ \/ /\ pc' = [pc EXCEPT ![r] = "caching"]
                 /\ timer' = [timer EXCEPT ![r] = 0] /\ flight' = flight
              \/ /\ pc' = [pc EXCEPT ![r] = "broadcasting"]
                 /\ timer' = [timer EXCEPT ![r] = BROADCAST_TIMEOUT]
                 /\ flight' = [flight EXCEPT ![r] = "flying"]
  BY DEF Probe, Broadcast, Goto

\* Either way its variables stay in their types.
LEMMA BeginTyped ==
    ASSUME TypeOK, NEW r \in Request, Begin(r) \/ Probe(r)
    PROVE  (/\ pc \in [Request -> Stage]
            /\ timer \in [Request -> Nat]
            /\ flight \in [Request -> {"none", "flying", "landed", "void"}])'
  <1>0. /\ pc \in [Request -> Stage] /\ timer \in [Request -> Nat]
        /\ flight \in [Request -> {"none", "flying", "landed", "void"}]
        /\ {"probing", "broadcasting", "caching"} \subseteq Stage
    BY DEF TypeOK, Stage, Under
  <1>1. CASE Begin(r)
    BY <1>0, <1>1, BeginGoes, Timers
  <1>2. CASE Probe(r)
    BY <1>0, <1>2, ProbeGoes, Timers
  <1> QED
    BY <1>1, <1>2

\* What a metadata edit leaves alone.
LEMMA EditKeeps ==
    ASSUME NEW a \in Account, Edit(a)
    PROVE  /\ UNCHANGED <<plan, pc, found, alone, timer, flight, window, indexed, lock, cache, faults,
                            early, late>>
           /\ carried \subseteq carried'
           /\ \/ UNCHANGED <<chain, carried>>
              \/ /\ chain' = Append(chain, [act |-> "bind", account |-> a, by |-> None])
                 /\ a \in BoundNow \/ carried' # {}
  BY DEF Edit, EditReads, EditLands, EditFails, BoundNow

\* Every step keeps every variable in its type.
LEMMA Typing ==
    ASSUME TypeOK, [Next]_vars
    PROVE  TypeOK'
  <1> USE DEF TypeOK, Goto, Stage, Checking, Under, Done
  <1>f. faults' \subseteq Fault
    BY FaultsGrow
  <1>1. ASSUME NEW r \in Request, Arrive(r) \/ ReadCache(r) \/ ReadStatus(r)
        PROVE  TypeOK'
    BY <1>f, <1>1 DEF Arrive, ReadCache, ReadStatus
  <1>2. ASSUME NEW r \in Request, ReadCarrier(r)
        PROVE  TypeOK'
    <2>1. Carriers(indexed) \subseteq Account
      BY DEF Carriers
    <2>2. \E stage \in {"acquire", "status", "failed"} : pc' = [pc EXCEPT ![r] = stage]
      BY <1>2 DEF ReadCarrier
    <2>3. found' = found \/ \E a \in Carriers(indexed) : found' = [found EXCEPT ![r] = a]
      BY <1>2 DEF ReadCarrier
    <2>4. UNCHANGED <<plan, alone, timer, flight, window, chain, indexed, lock, cache, early, late, edit,
                       carried>>
      BY <1>2 DEF ReadCarrier
    <2>5. pc' \in [Request -> Stage]
      BY <2>2
    <2>6. found' \in [Request -> Account \cup {None}]
      <3>1. CASE found' = found
        BY <3>1
      <3>2. ASSUME NEW a \in Account, found' = [found EXCEPT ![r] = a]
            PROVE  found' \in [Request -> Account \cup {None}]
        BY <3>2
      <3> QED
        BY <2>1, <2>3, <3>1, <3>2
    <2> QED
      BY <1>f, <2>4, <2>5, <2>6
  <1>3. ASSUME NEW r \in Request, Acquire(r) \/ AcquireFails(r)
        PROVE  TypeOK'
    <2>1. lock' \in {lock, [by |-> r, ttl |-> LOCK_TTL]}
      BY <1>3 DEF Acquire, AcquireFails
    <2>2. /\ lock' \in [by : Request \cup {None}, ttl : 0..HAF_LAG]
          /\ lock'.by = None <=> lock'.ttl = 0
      BY <2>1, Timers, NoneAssumption
    <2>3. (/\ pc \in [Request -> Stage]
           /\ timer \in [Request -> Nat]
           /\ flight \in [Request -> {"none", "flying", "landed", "void"}])'
      <3>1. Begin(r)
        BY <1>3 DEF Acquire, AcquireFails
      <3> QED
        BY <3>1, BeginTyped
    <2>4. alone' \subseteq Request /\ early' \subseteq Request
      BY <1>3 DEF Acquire, AcquireFails, RunsInto
    <2>5. UNCHANGED <<plan, found, window, chain, indexed, cache, late, edit, carried>>
      BY <1>3 DEF Acquire, AcquireFails
    <2> QED
      BY <1>f, <2>2, <2>3, <2>4, <2>5
  <1>4. ASSUME NEW r \in Request, RefuseHeld(r)
        PROVE  TypeOK'
    BY <1>4 DEF RefuseHeld
  <1>3a. ASSUME NEW r \in Request, Probe(r)
        PROVE  TypeOK'
    BY <1>3a, BeginTyped, ProbeGoes
  <1>4a. ASSUME NEW r \in Request, Resolve(r)
        PROVE  TypeOK'
    BY <1>4a, Timers DEF Resolve
  <1>4b. ASSUME NEW r \in Request, Reject(r)
        PROVE  TypeOK'
    BY <1>f, <1>4b, Timers DEF Reject
  <1>5. ASSUME NEW r \in Request, Expire(r)
        PROVE  TypeOK'
    <2>1. /\ lock' \in [by : Request \cup {None}, ttl : 0..HAF_LAG]
          /\ lock'.by = None <=> lock'.ttl = 0
      <3>1. CASE lock # NoLock /\ lock' = [by |-> lock.by, ttl |-> HAF_LAG]
        <4>1. lock.by # None
          BY <3>1 DEF NoLock
        <4> QED
          BY <3>1, <4>1, Timers
      <3>2. CASE lock' = lock
        BY <3>2
      <3> QED
        BY <1>5, <3>1, <3>2 DEF Expire
    <2>2a. pc' \in [Request -> Stage]
      BY <1>5 DEF Expire
    <2>2. window' \in [Request -> 0..HAF_LAG]
      <3>1. window' = [window EXCEPT ![r] = HAF_LAG]
        BY <1>5 DEF Expire
      <3> QED
        BY <3>1, Timers
    <2>3. UNCHANGED <<plan, found, alone, timer, flight, chain, indexed, cache, early, late, edit,
                       carried>>
      BY <1>5 DEF Expire
    <2> QED
      BY <1>f, <2>1, <2>2a, <2>2, <2>3
  <1>6. ASSUME NEW r \in Request, CacheBinding(r)
        PROVE  TypeOK'
    <2>1. /\ cache' \in [account : Account \cup {None}, ttl : 0..HAF_LAG]
          /\ cache'.account = None <=> cache'.ttl = 0
      <3>1. cache' = cache \/ cache' = [account |-> Mine(r), ttl |-> HAF_LAG]
        BY <1>6 DEF CacheBinding
      <3> QED
        BY <3>1, Timers, MineTyped
    <2> QED
      BY <1>f, <1>6, <2>1 DEF CacheBinding
  <1>6a. ASSUME NEW r \in Request, Release(r)
        PROVE  TypeOK'
    <2>1. lock' \in {lock, NoLock}
      BY <1>6a DEF Release
    <2>2. /\ lock' \in [by : Request \cup {None}, ttl : 0..HAF_LAG]
          /\ lock'.by = None <=> lock'.ttl = 0
      BY <2>1, Timers DEF NoLock
    <2> QED
      BY <1>6a, <2>2 DEF Release, Released
  <1>7. ASSUME NEW r \in Request, Land(r)
        PROVE  TypeOK'
    <2>1. [act |-> "bind", account |-> Mine(r), by |-> r] \in Op
      BY MineTyped DEF Op
    <2>2. chain' \in Seq(Op) /\ Len(chain') = Len(chain) + 1
      BY <1>7, <2>1, AppendKeeps DEF Land
    <2>3. indexed' \in 0..Len(chain')
      <3>1. indexed' = indexed
        BY <1>7 DEF Land
      <3> QED
        BY <3>1, <2>2
    <2> QED
      BY <1>f, <1>7, <2>2, <2>3 DEF Land
  <1>7a. ASSUME NEW r \in Request, Vanish(r)
        PROVE  TypeOK'
    BY <1>7a DEF Vanish
  <1>8. ASSUME NEW a \in Account, Govern(a)
        PROVE  TypeOK'
    <2>1. PICK o \in Op : chain' = Append(chain, o)
      BY <1>f, <1>8 DEF Govern, Op
    <2> QED
      BY <1>f, <1>8, <2>1, AppendKeeps DEF Govern
  <1>8a. ASSUME NEW a \in Account, Edit(a)
        PROVE  TypeOK'
    <2>1. edit' \subseteq Account /\ carried' \subseteq Account
      BY <1>8a DEF Edit, EditReads, EditLands, EditFails
    <2>2. [act |-> "bind", account |-> a, by |-> None] \in Op
      BY DEF Op
    <2>3. UNCHANGED chain \/ \E o \in Op : chain' = Append(chain, o)
      BY <1>8a, <2>2, EditKeeps
    <2>4. chain' \in Seq(Op) /\ Len(chain) \in Nat /\ Len(chain') \in {Len(chain), Len(chain) + 1}
      <3>1. CASE UNCHANGED chain
        BY <3>1
      <3>2. ASSUME NEW o \in Op, chain' = Append(chain, o)
            PROVE  chain' \in Seq(Op) /\ Len(chain) \in Nat /\ Len(chain') = Len(chain) + 1
        BY <3>2, AppendKeeps
      <3> QED
        BY <2>3, <3>1, <3>2
    <2>5. UNCHANGED <<plan, pc, found, alone, timer, flight, window, indexed, lock, cache, faults, early,
                      late>>
      BY <1>8a, EditKeeps
    <2>6. indexed' \in 0..Len(chain')
      BY <2>4, <2>5
    <2> QED
      BY <2>1, <2>4, <2>5, <2>6
  <1>9. ASSUME Index \/ Evict
        PROVE  TypeOK'
    BY <1>f, <1>9, Timers DEF Index, Evict, NoLock, NoCache
  <1>10. ASSUME Crash
        PROVE  TypeOK'
    BY <1>f, <1>10, Timers DEF Crash
  <1>11. ASSUME Tick
        PROVE  TypeOK'
    <2>1. timer' \in [Request -> Nat] /\ window' \in [Request -> 0..HAF_LAG] /\ late' \subseteq Request
      BY <1>11, LessTyped, TimerAssumption DEF Tick
    <2>2. lock' = AgedLock /\ cache' = AgedCache
      BY <1>11 DEF Tick
    <2>3. UNCHANGED <<plan, pc, found, alone, flight, chain, indexed, faults, early, edit, carried>>
      BY <1>11 DEF Tick
    <2> QED
      BY <1>f, <2>1, <2>2, <2>3, AgedTyped
  <1>12. CASE UNCHANGED vars
    BY <1>12
  <1> QED
    BY <1>1, <1>2, <1>3, <1>3a, <1>4, <1>4a, <1>4b, <1>5, <1>6, <1>6a, <1>7, <1>7a, <1>8, <1>8a, <1>9, <1>10,
       <1>11, <1>12
    DEF Next, Step

(***************************************************************************)
(* Transactions, faults and what they tell.                                *)
(***************************************************************************)

\* The functions the steps update.
LEMMA Shape ==
    ASSUME TypeOK
    PROVE  /\ pc \in [Request -> Stage] /\ timer \in [Request -> Nat]
           /\ flight \in [Request -> {"none", "flying", "landed", "void"}]
           /\ window \in [Request -> 0..HAF_LAG]
           /\ found \in [Request -> Account \cup {None}]
           /\ alone \subseteq Request /\ early \subseteq Request /\ late \subseteq Request
           /\ chain \in Seq(Op) /\ Len(chain) \in Nat /\ indexed \in 0..Len(chain)
           /\ lock.ttl \in 0..HAF_LAG /\ cache.ttl \in 0..HAF_LAG
           /\ lock.by \in Request \cup {None} /\ cache.account \in Account \cup {None}
           /\ (lock.by = None <=> lock.ttl = 0) /\ (cache.account = None <=> cache.ttl = 0)
  BY DEF TypeOK

\* Every step leaves a request that has not begun without a transaction and a window.
LEMMA FreshKept ==
    ASSUME TypeOK, Fresh, [Next]_vars
    PROVE  Fresh'
  <1> USE Shape DEF Fresh, Goto, Checking
  <1>1. ASSUME NEW r \in Request,
               Arrive(r) \/ ReadCache(r) \/ ReadCarrier(r) \/ ReadStatus(r) \/ RefuseHeld(r)
        PROVE  Fresh'
    <2>1. \E stage \in {"refused", "unsure", "failed"} \cup Checking : pc' = [pc EXCEPT ![r] = stage]
      BY <1>1 DEF Arrive, ReadCache, ReadCarrier, ReadStatus, RefuseHeld
    <2>2. pc[r] \in {"idle"} \cup Checking /\ UNCHANGED <<flight, window>>
      BY <1>1 DEF Arrive, ReadCache, ReadCarrier, ReadStatus, RefuseHeld
    <2> QED
      BY <2>1, <2>2
  <1>2. ASSUME NEW r \in Request, Acquire(r) \/ AcquireFails(r)
        PROVE  Fresh'
    <2>1. pc[r] = "acquire" /\ Begin(r) /\ UNCHANGED <<plan, window>>
      BY <1>2 DEF Acquire, AcquireFails
    <2> QED
      BY <2>1, BeginGoes
  <1>2a. ASSUME NEW r \in Request, Probe(r)
        PROVE  Fresh'
    BY <1>2a, ProbeGoes
  <1>3. ASSUME NEW r \in Request, Resolve(r) \/ Reject(r) \/ Expire(r) \/ CacheBinding(r) \/ Release(r)
        PROVE  Fresh'
    <2>1. \E stage \in {"caching", "unsure", "abandoning", "bound", "releasing", "failed"} :
              pc' = [pc EXCEPT ![r] = stage]
      BY <1>3 DEF Resolve, Reject, Expire, CacheBinding, Release, Released
    <2>2. window' \in {window, [window EXCEPT ![r] = HAF_LAG]} /\ UNCHANGED flight
      BY <1>3 DEF Resolve, Reject, Expire, CacheBinding, Release
    <2> QED
      BY <2>1, <2>2
  <1>4. ASSUME NEW r \in Request, Land(r) \/ Vanish(r)
        PROVE  Fresh'
    <2>1. \E end \in {"landed", "void"} : flight' = [flight EXCEPT ![r] = end]
      BY <1>4 DEF Land, Vanish
    <2>2. flight[r] = "flying" /\ UNCHANGED <<pc, window>>
      BY <1>4 DEF Land, Vanish
    <2> QED
      BY <2>1, <2>2
  <1>5. ASSUME (\E a \in Account : Govern(a) \/ Edit(a)) \/ Index \/ Evict \/ UNCHANGED vars
        PROVE  Fresh'
    BY <1>5 DEF Govern, Edit, EditReads, EditLands, EditFails, Index, Evict
  <1>6. ASSUME Crash
        PROVE  Fresh'
    BY <1>6 DEF Crash, Done
  <1>7. ASSUME Tick
        PROVE  Fresh'
    BY <1>7, LessTyped, TimerAssumption DEF Tick
  <1> QED
    BY <1>1, <1>2, <1>2a, <1>3, <1>4, <1>5, <1>6, <1>7 DEF Next, Step

\* Every step tells its faults.
LEMMA FaultsToldKept ==
    ASSUME TypeOK, Fresh, FaultsTold, [Next]_vars
    PROVE  FaultsTold'
  <1> USE Shape DEF Fresh, FaultsTold, Goto
  <1>1. faults \subseteq faults'
    BY FaultsGrow
  <1>2. ASSUME NEW r \in Request,
               Arrive(r) \/ ReadCache(r) \/ ReadCarrier(r) \/ ReadStatus(r) \/ RefuseHeld(r)
        PROVE  FaultsTold'
    <2>1. \E stage \in {"refused", "unsure", "failed"} \cup Checking : pc' = [pc EXCEPT ![r] = stage]
      BY <1>2 DEF Arrive, ReadCache, ReadCarrier, ReadStatus, RefuseHeld, Checking
    <2>2. pc[r] \in {"idle"} \cup Checking /\ UNCHANGED <<flight, alone>>
      BY <1>2 DEF Arrive, ReadCache, ReadCarrier, ReadStatus, RefuseHeld, Checking
    <2> QED
      BY <1>1, <2>1, <2>2 DEF Checking
  <1>3. ASSUME NEW r \in Request, Acquire(r) \/ AcquireFails(r)
        PROVE  FaultsTold'
    <2>1. pc[r] = "acquire" /\ Begin(r)
      BY <1>3 DEF Acquire, AcquireFails
    <2>2. alone' = alone \/ "noLock" \in faults'
      BY <1>3 DEF Acquire, AcquireFails, Fails
    <2>3. \A q \in Request : q # r => pc'[q] = pc[q] /\ flight'[q] = flight[q]
      BY <2>1, BeginGoes
    <2>4. pc'[r] \in {"broadcasting", "probing"}
      BY <2>1, BeginGoes
    <2> QED
      BY <1>1, <2>2, <2>3, <2>4
  <1>3a. ASSUME NEW r \in Request, Probe(r)
        PROVE  FaultsTold'
    <2>1. \E stage \in {"broadcasting", "caching"} : pc' = [pc EXCEPT ![r] = stage]
      BY <1>3a, ProbeGoes
    <2>2. /\ UNCHANGED alone /\ pc[r] = "probing"
          /\ \A q \in Request \ {r} : flight'[q] = flight[q]
      BY <1>3a, ProbeGoes
    <2> QED
      BY <1>1, <2>1, <2>2
  <1>4. ASSUME NEW r \in Request, Resolve(r) \/ Expire(r) \/ CacheBinding(r)
        PROVE  FaultsTold'
    <2>1. \E stage \in {"caching", "unsure", "bound", "releasing"} : pc' = [pc EXCEPT ![r] = stage]
      BY <1>4 DEF Resolve, Expire, CacheBinding
    <2>2. UNCHANGED <<flight, alone>>
      BY <1>4 DEF Resolve, Expire, CacheBinding
    <2> QED
      BY <1>1, <2>1, <2>2
  <1>5. ASSUME NEW r \in Request, Reject(r)
        PROVE  FaultsTold'
    <2>1. \E stage \in {"unsure", "abandoning"} : pc' = [pc EXCEPT ![r] = stage]
      BY <1>5 DEF Reject
    <2>2. UNCHANGED <<flight, alone>> /\ (flight[r] = "landed" => "errorLanded" \in faults')
      BY <1>5 DEF Reject, Fails
    <2> QED
      BY <1>1, <2>1, <2>2
  <1>6. ASSUME NEW r \in Request, Release(r)
        PROVE  FaultsTold'
    <2>1. pc[r] \in {"releasing", "abandoning"}
      BY <1>6 DEF Release
    <2>2. pc' = [pc EXCEPT ![r] = IF pc[r] = "releasing" THEN "bound" ELSE "failed"]
      BY <1>6 DEF Release, Released
    <2>3. UNCHANGED <<flight, alone>>
      BY <1>6 DEF Release
    <2> QED
      BY <1>1, <2>1, <2>2, <2>3
  <1>7. ASSUME NEW r \in Request, Land(r) \/ Vanish(r)
        PROVE  FaultsTold'
    <2>1. \E end \in {"landed", "void"} : flight' = [flight EXCEPT ![r] = end]
      BY <1>7 DEF Land, Vanish
    <2>2. UNCHANGED <<pc, alone>>
      BY <1>7 DEF Land, Vanish
    <2>3. pc[r] \in {"abandoning", "failed"} /\ flight'[r] = "landed" => "errorLanded" \in faults'
      BY <1>7 DEF Land, Vanish, Fails
    <2> QED
      BY <1>1, <2>1, <2>2, <2>3
  <1>8. ASSUME (\E a \in Account : Govern(a) \/ Edit(a)) \/ Index \/ Evict \/ Tick \/ UNCHANGED vars
        PROVE  FaultsTold'
    <2>1. UNCHANGED <<pc, flight, alone>>
      BY <1>8 DEF Govern, Edit, EditReads, EditLands, EditFails, Index, Evict, Tick
    <2> QED
      BY <1>1, <2>1
  <1>9. ASSUME Crash
        PROVE  FaultsTold'
    <2>1. "crash" \in faults' /\ UNCHANGED <<flight, alone>>
      BY <1>9 DEF Crash, Fails
    <2>2. \A q \in Request : pc'[q] \in {pc[q], "dead"}
      BY <1>9 DEF Crash
    <2> QED
      BY <1>1, <2>1, <2>2
  <1> QED
    BY <1>2, <1>3, <1>3a, <1>4, <1>5, <1>6, <1>7, <1>8, <1>9 DEF Next, Step

\* An op enters the chain that no request sent: it binds nobody who is not bound, unless an edit's.
Outside ==
    \E o \in Op : /\ o.by = None /\ chain' = Append(chain, o)
                  /\ o.act = "bind" => o.account \in BoundNow \/ carried' # {}

\* What the steps add to the chain.
LEMMA ChainSteps ==
    ASSUME TypeOK, [Next]_vars
    PROVE  \/ UNCHANGED chain
           \/ \E r \in Request : Land(r)
           \/ Outside
  <1>1. ASSUME NEW r \in Request, Arrive(r) \/ Step(r) \/ Vanish(r)
        PROVE  UNCHANGED chain
    BY <1>1 DEF Arrive, Step, Vanish, ReadCache, ReadCarrier, ReadStatus, Acquire, RefuseHeld,
                AcquireFails, Probe, Resolve, Reject, Expire, CacheBinding, Release
  <1>2. ASSUME NEW a \in Account, Govern(a)
        PROVE  Outside
    <2>1. PICK act \in {"other", "revoke"} :
              chain' = Append(chain, [act |-> act, account |-> a, by |-> None])
      BY <1>2 DEF Govern
    <2>2. [act |-> act, account |-> a, by |-> None] \in Op
      BY DEF Op
    <2> QED
      BY <1>2, <2>1, <2>2 DEF Govern, Outside
  <1>3. ASSUME NEW a \in Account, Edit(a), ~ UNCHANGED chain
        PROVE  Outside
    <2>1. /\ chain' = Append(chain, [act |-> "bind", account |-> a, by |-> None])
          /\ a \in BoundNow \/ carried' # {}
      BY <1>3, EditKeeps
    <2>2. [act |-> "bind", account |-> a, by |-> None] \in Op
      BY DEF Op
    <2> QED
      BY <1>3, <2>1, <2>2, EditKeeps DEF Outside
  <1>4. ASSUME Index \/ Evict \/ Crash \/ Tick \/ UNCHANGED vars
        PROVE  UNCHANGED chain
    BY <1>4 DEF Index, Evict, Crash, Tick
  <1> QED
    BY <1>1, <1>2, <1>3, <1>4 DEF Next

\* The chain grows by one op at a time.
LEMMA ChainAppends ==
    ASSUME TypeOK, [Next]_vars
    PROVE  UNCHANGED chain \/ \E o \in Op : chain' = Append(chain, o)
  <1>1. ASSUME NEW r \in Request, Land(r)
        PROVE  \E o \in Op : chain' = Append(chain, o)
    <2>1. [act |-> "bind", account |-> Mine(r), by |-> r] \in Op
      BY MineTyped DEF Op
    <2> QED
      BY <1>1, <2>1 DEF Land
  <1>2. ASSUME Outside
        PROVE  \E o \in Op : chain' = Append(chain, o)
    BY <1>2 DEF Outside
  <1> QED
    BY <1>1, <1>2, ChainSteps, Zenon

\* No step changes what the requests are; a transaction that landed stays landed.
LEMMA PlanStays ==
    ASSUME TypeOK, Fresh, [Next]_vars
    PROVE  /\ UNCHANGED plan
           /\ \A r \in Request :
                 /\ flight[r] # "none" => flight'[r] # "none"
                 /\ flight[r] = "landed" => flight'[r] = "landed"
  <1> USE Shape DEF Fresh, Checking
  <1>1. ASSUME NEW r \in Request, Acquire(r) \/ AcquireFails(r)
        PROVE  /\ UNCHANGED plan /\ flight[r] = "none"
               /\ \A q \in Request \ {r} : flight'[q] = flight[q]
    BY <1>1, BeginGoes DEF Acquire, AcquireFails
  <1>1a. ASSUME NEW r \in Request, Probe(r)
        PROVE  /\ UNCHANGED plan /\ flight[r] = "none"
               /\ \A q \in Request \ {r} : flight'[q] = flight[q]
    BY <1>1a, ProbeGoes
  <1>2. ASSUME NEW r \in Request, Land(r) \/ Vanish(r)
        PROVE  /\ UNCHANGED plan /\ flight[r] = "flying" /\ flight'[r] \in {"landed", "void"}
               /\ \A q \in Request \ {r} : flight'[q] = flight[q]
    BY <1>2 DEF Land, Vanish
  <1>3. ASSUME NEW r \in Request,
               \/ Arrive(r) \/ ReadCache(r) \/ ReadCarrier(r) \/ ReadStatus(r) \/ RefuseHeld(r)
               \/ Resolve(r) \/ Reject(r) \/ Expire(r) \/ CacheBinding(r) \/ Release(r)
        PROVE  UNCHANGED <<plan, flight>>
    BY <1>3 DEF Arrive, ReadCache, ReadCarrier, ReadStatus, RefuseHeld, Resolve, Reject, Expire,
                CacheBinding, Release
  <1>4. ASSUME (\E a \in Account : Govern(a) \/ Edit(a)) \/ Index \/ Evict \/ Crash \/ Tick \/ UNCHANGED vars
        PROVE  UNCHANGED <<plan, flight>>
    BY <1>4 DEF Govern, Edit, EditReads, EditLands, EditFails, Index, Evict, Crash, Tick
  <1> QED
    BY <1>1, <1>1a, <1>2, <1>3, <1>4 DEF Next, Step

\* Every step keeps the ops with the requests that sent them.
LEMMA OpsKept ==
    ASSUME TypeOK, Fresh, OpsOwned, [Next]_vars
    PROVE  OpsOwned'
  <1> USE Shape, NoneAssumption DEF OpsOwned, Mine
  <1>1. UNCHANGED plan /\ \A r \in Request : flight[r] = "landed" => flight'[r] = "landed"
    BY PlanStays
  <1>2. CASE UNCHANGED chain
    BY <1>1, <1>2
  <1>3. ASSUME NEW o \in Op, chain' = Append(chain, o),
               \/ o.by = None
               \/ /\ o.by \in Request /\ flight'[o.by] = "landed"
                  /\ o.act = "bind" /\ o.account = plan[o.by].account
        PROVE  OpsOwned'
    <2>1. /\ Len(chain') = Len(chain) + 1 /\ chain'[Len(chain) + 1] = o
          /\ \A i \in 1..Len(chain) : chain'[i] = chain[i]
      BY <1>3, AppendKeeps
    <2>2. \A i \in 1..Len(chain') : i \in 1..Len(chain) \/ i = Len(chain) + 1
      BY <2>1
    <2> QED
      BY <1>1, <1>3, <2>1, <2>2
  <1>4. ASSUME NEW r \in Request, Land(r)
        PROVE  OpsOwned'
    <2> DEFINE o == [act |-> "bind", account |-> plan[r].account, by |-> r]
    <2>1. o \in Op
      BY MineTyped DEF Op
    <2>2. chain' = Append(chain, o) /\ flight'[r] = "landed"
      BY <1>4 DEF Land
    <2>3. o.by = r /\ o.act = "bind" /\ o.account = plan[r].account
      OBVIOUS
    <2> HIDE DEF o
    <2> QED
      BY <1>3, <2>1, <2>2, <2>3
  <1>5. ASSUME Outside
        PROVE  OpsOwned'
    BY <1>3, <1>5 DEF Outside
  <1> QED
    BY <1>2, <1>4, <1>5, ChainSteps, Zenon

\* A transaction HAF does not show is one a request sent before, or one that it sends now.
LEMMA UnsettledSteps ==
    ASSUME TypeOK, Fresh, OpsOwned, [Next]_vars, NEW r \in Request, Unsettled(r)'
    PROVE  \/ Unsettled(r)
           \/ pc[r] = "acquire" /\ (Acquire(r) \/ AcquireFails(r)) /\ pc'[r] = "broadcasting"
           \/ pc[r] = "probing" /\ Probe(r) /\ pc'[r] = "broadcasting"
  <1> USE Shape, NoneAssumption
  <1>1. ASSUME flight'[r] = "flying" => flight[r] = "flying",
               UNCHANGED <<chain, indexed>> \/ Index
        PROVE  Unsettled(r)
    BY <1>1 DEF Unsettled, Index
  <1>2. ASSUME NEW q \in Request, Acquire(q) \/ AcquireFails(q)
        PROVE  Unsettled(r) \/ (pc[r] = "acquire" /\ q = r /\ pc'[r] = "broadcasting")
    <2>1. pc[q] = "acquire" /\ Begin(q) /\ UNCHANGED <<chain, indexed>>
      BY <1>2 DEF Acquire, AcquireFails
    <2>2. CASE flight'[r] = flight[r]
      BY <2>1, <2>2, <1>1
    <2>3. CASE q = r /\ pc'[r] = "broadcasting"
      BY <2>1, <2>3
    <2> QED
      BY <2>1, <2>2, <2>3, BeginGoes
  <1>2a. ASSUME NEW q \in Request, Probe(q)
        PROVE  Unsettled(r) \/ (pc[r] = "probing" /\ q = r /\ pc'[r] = "broadcasting")
    <2>1. CASE flight'[r] = flight[r]
      BY <1>2a, <2>1, <1>1, ProbeGoes
    <2>2. CASE q = r /\ pc'[r] = "broadcasting"
      BY <1>2a, <2>2, ProbeGoes
    <2> QED
      BY <1>2a, <2>1, <2>2, ProbeGoes
  <1>3. ASSUME NEW q \in Request,
               \/ Arrive(q) \/ ReadCache(q) \/ ReadCarrier(q) \/ ReadStatus(q) \/ RefuseHeld(q)
               \/ Resolve(q) \/ Reject(q) \/ Expire(q) \/ CacheBinding(q) \/ Release(q)
        PROVE  Unsettled(r)
    <2>1. UNCHANGED <<flight, chain, indexed>>
      BY <1>3 DEF Arrive, ReadCache, ReadCarrier, ReadStatus, RefuseHeld, Resolve, Reject, Expire,
                  CacheBinding, Release
    <2> QED
      BY <2>1, <1>1
  <1>4. ASSUME Evict \/ Crash \/ Tick \/ UNCHANGED vars
        PROVE  Unsettled(r)
    BY <1>4, <1>1 DEF Evict, Crash, Tick
  <1>5. ASSUME Index
        PROVE  Unsettled(r)
    BY <1>5, <1>1 DEF Index
  <1>6. ASSUME NEW q \in Request, Vanish(q)
        PROVE  Unsettled(r)
    BY <1>6, <1>1 DEF Vanish
  <1>7. ASSUME NEW o \in Op, chain' = Append(chain, o), UNCHANGED indexed, o.by # r,
               flight'[r] = flight[r]
        PROVE  Unsettled(r)
    <2>1. /\ Len(chain') = Len(chain) + 1 /\ chain'[Len(chain) + 1] = o
          /\ \A i \in 1..Len(chain) : chain'[i] = chain[i]
      BY <1>7, AppendKeeps
    <2>2. \A i \in (indexed + 1)..Len(chain') : i \in (indexed + 1)..Len(chain) \/ i = Len(chain) + 1
      BY <2>1
    <2> QED
      BY <1>7, <2>1, <2>2 DEF Unsettled
  <1>8. ASSUME NEW q \in Request, Land(q)
        PROVE  Unsettled(r)
    <2>1. CASE q = r
      BY <1>8, <2>1 DEF Land, Unsettled
    <2>2. CASE q # r
      <3> DEFINE o == [act |-> "bind", account |-> Mine(q), by |-> q]
      <3>1. o \in Op /\ o.by # r
        BY <2>2, MineTyped DEF Op
      <3>2. chain' = Append(chain, o) /\ UNCHANGED indexed /\ flight'[r] = flight[r]
        BY <1>8, <2>2 DEF Land
      <3> HIDE DEF o
      <3> QED
        BY <1>7, <3>1, <3>2
    <2> QED
      BY <2>1, <2>2
  <1>9. ASSUME NEW a \in Account, Govern(a)
        PROVE  Unsettled(r)
    <2>1. PICK act \in {"other", "revoke"} :
              chain' = Append(chain, [act |-> act, account |-> a, by |-> None])
      BY <1>9 DEF Govern
    <2> DEFINE o == [act |-> act, account |-> a, by |-> None]
    <2>2. o \in Op /\ o.by # r
      BY DEF Op
    <2>3. chain' = Append(chain, o) /\ UNCHANGED <<indexed, flight>>
      BY <1>9, <2>1 DEF Govern
    <2> HIDE DEF o
    <2> QED
      BY <1>7, <2>2, <2>3
  <1>10. ASSUME NEW a \in Account, Edit(a)
        PROVE  Unsettled(r)
    <2> DEFINE o == [act |-> "bind", account |-> a, by |-> None]
    <2>1. o \in Op /\ o.by # r
      BY DEF Op
    <2>2. UNCHANGED <<indexed, flight>> /\ (UNCHANGED chain \/ chain' = Append(chain, o))
      BY <1>10, EditKeeps
    <2> HIDE DEF o
    <2> QED
      BY <1>1, <1>7, <2>1, <2>2
  <1> QED
    BY <1>2, <1>2a, <1>3, <1>4, <1>5, <1>6, <1>8, <1>9, <1>10 DEF Next, Step

(***************************************************************************)
(* The lock.                                                               *)
(***************************************************************************)

\* Only an empty lock is taken.
LEMMA LockTaken ==
    ASSUME NEW r \in Request, Acquire(r) \/ AcquireFails(r)
    PROVE  lock' = lock \/ lock.by = None
  <1>1. CASE lock = NoLock
    BY <1>1 DEF NoLock
  <1>2. CASE lock # NoLock
    BY <1>2 DEF Acquire, AcquireFails
  <1> QED
    BY <1>1, <1>2

\* Every step keeps the lock with the request that is under it, or tells that it ran out: only an
\* empty lock is taken.
LEMMA HolderKept ==
    ASSUME TypeOK, Holder, [Next]_vars
    PROVE  Holder' /\ late \subseteq late'
  <1> USE DEF Holder, Under
  <1>0. pc \in [Request -> Stage] /\ alone \subseteq Request /\ late \subseteq Request
    BY Shape
  <1>0a. /\ lock.ttl \in 0..HAF_LAG /\ lock.by \in Request \cup {None} /\ None \notin Request
         /\ (lock.by = None <=> lock.ttl = 0)
    BY Shape, NoneAssumption
  <1> USE <1>0, <1>0a
  <1>1. faults \subseteq faults'
    BY FaultsGrow
  <1>2. ASSUME alone \subseteq alone', lock'.by = lock.by, late' = late,
               \A q \in Request \ alone' : pc'[q] \in Under => pc[q] \in Under
        PROVE  Holder' /\ late \subseteq late'
    BY <1>1, <1>2
  <1>3. ASSUME NEW r \in Request,
               \/ Arrive(r) \/ ReadCache(r) \/ ReadCarrier(r) \/ ReadStatus(r) \/ RefuseHeld(r)
               \/ Reject(r) \/ CacheBinding(r)
        PROVE  Holder' /\ late \subseteq late'
    <2>1. \E stage \in {"refused", "unsure", "failed", "abandoning", "bound", "releasing"} \cup Checking :
              pc' = [pc EXCEPT ![r] = stage]
      BY <1>3 DEF Arrive, ReadCache, ReadCarrier, ReadStatus, RefuseHeld, Reject, CacheBinding, Goto,
                  Checking
    <2>2. UNCHANGED <<lock, alone, late>>
      BY <1>3 DEF Arrive, ReadCache, ReadCarrier, ReadStatus, RefuseHeld, Reject, CacheBinding
    <2> QED
      BY <1>2, <2>1, <2>2 DEF Checking
  <1>4. ASSUME NEW r \in Request, Resolve(r) \/ Probe(r)
        PROVE  Holder' /\ late \subseteq late'
    <2>1. /\ \E stage \in {"broadcasting", "caching"} : pc' = [pc EXCEPT ![r] = stage]
          /\ pc[r] \in Under /\ UNCHANGED <<lock, alone, late>>
      BY <1>4, ProbeGoes DEF Resolve, Goto
    <2> QED
      BY <1>2, <2>1
  <1>5. ASSUME NEW r \in Request, Acquire(r)
        PROVE  Holder' /\ late \subseteq late'
    <2>1. lock.by = None /\ lock'.by = r /\ Begin(r) /\ alone' = alone /\ late' = late
      BY <1>5 DEF Acquire, NoLock
    <2>2. \A q \in Request \ {r} : pc'[q] = pc[q]
      BY <2>1, BeginGoes
    <2> QED
      BY <1>1, <2>1, <2>2
  <1>6. ASSUME NEW r \in Request, AcquireFails(r)
        PROVE  Holder' /\ late \subseteq late'
    <2>1. Begin(r) /\ alone' = alone \cup {r} /\ late' = late
      BY <1>6 DEF AcquireFails
    <2>1a. lock' = lock \/ lock.by = None
      BY <1>6, LockTaken
    <2>2. \A q \in Request \ {r} : pc'[q] = pc[q]
      BY <2>1, BeginGoes
    <2> QED
      BY <1>1, <2>1, <2>1a, <2>2
  <1>7. ASSUME NEW r \in Request, Expire(r)
        PROVE  Holder' /\ late \subseteq late'
    <2>1. lock' = lock \/ lock' = [by |-> lock.by, ttl |-> HAF_LAG]
      BY <1>7 DEF Expire
    <2>2. lock'.by = lock.by
      BY <2>1
    <2>3. pc' = [pc EXCEPT ![r] = "unsure"] /\ UNCHANGED <<alone, late>>
      BY <1>7 DEF Expire, Goto
    <2> QED
      BY <1>2, <2>2, <2>3
  <1>8. ASSUME NEW r \in Request, Release(r)
        PROVE  Holder' /\ late \subseteq late'
    <2>1. lock' = lock \/ lock.by = r
      BY <1>8 DEF Release
    <2>2. pc[r] \notin Under /\ UNCHANGED <<alone, late>>
      BY <1>8 DEF Release
    <2>3. pc' = [pc EXCEPT ![r] = IF pc[r] = "releasing" THEN "bound" ELSE "failed"]
      BY <1>8 DEF Release, Released, Goto
    <2> QED
      BY <1>1, <2>1, <2>2, <2>3
  <1>9. ASSUME NEW r \in Request, Land(r) \/ Vanish(r)
        PROVE  Holder' /\ late \subseteq late'
    BY <1>9, <1>2 DEF Land, Vanish
  <1>10. ASSUME (\E a \in Account : Govern(a) \/ Edit(a)) \/ Index \/ UNCHANGED vars
        PROVE  Holder' /\ late \subseteq late'
    BY <1>10, <1>2 DEF Govern, Edit, EditReads, EditLands, EditFails, Index
  <1>11. ASSUME Evict
        PROVE  Holder' /\ late \subseteq late'
    BY <1>11 DEF Evict, Fails
  <1>12. ASSUME Crash
        PROVE  Holder' /\ late \subseteq late'
    <2>1. UNCHANGED late /\ \A q \in Request : pc'[q] \notin Under
      BY <1>12 DEF Crash, Done
    <2> QED
      BY <2>1
  <1>13. ASSUME Tick
        PROVE  Holder' /\ late \subseteq late'
    <2>1. /\ lock' = AgedLock /\ UNCHANGED <<pc, alone>> /\ late \subseteq late'
          /\ \A q \in Request : pc[q] \in Under /\ lock.by = q /\ AgedLock = NoLock => q \in late'
      BY <1>13 DEF Tick
    <2>2. AgedLock = NoLock \/ AgedLock.by = lock.by
      BY DEF AgedLock
    <2> QED
      BY <1>1, <2>1, <2>2
  <1> QED
    BY <1>3, <1>4, <1>5, <1>6, <1>7, <1>8, <1>9, <1>10, <1>11, <1>12, <1>13 DEF Next, Step

\* Every step keeps a broadcast inside its lock, unless a probe came before it.
LEMMA MarginKept ==
    ASSUME TypeOK, Fresh, Margin, [Next]_vars
    PROVE  Margin'
  <1> USE DEF Margin, OnlyProbesLapse
  <1>0. /\ pc \in [Request -> Stage] /\ timer \in [Request -> Nat] /\ late \subseteq Request
        /\ lock.ttl \in 0..HAF_LAG /\ lock.by \in Request \cup {None} /\ None \notin Request
        /\ (lock.by = None <=> lock.ttl = 0) /\ HAF_LAG \in Nat
    BY Shape, NoneAssumption, TimerAssumption
  <1>p. UNCHANGED plan
    BY PlanStays
  <1> USE <1>0, <1>p
  <1>1. ASSUME late' = late,
               \A q \in Request : pc'[q] = "probing" => pc[q] = "probing",
               \A q \in Request : lock'.by = q =>
                   lock.by = q /\ (pc'[q] \in {"idle"} \cup Checking => pc[q] \in {"idle"} \cup Checking),
               \A q \in Request : lock'.by = q /\ pc'[q] = "broadcasting" /\ plan[q].mode # "resume" =>
                   /\ lock.by = q /\ pc[q] = "broadcasting" /\ timer'[q] = timer[q]
                   /\ lock'.ttl = lock.ttl \/ lock'.ttl = HAF_LAG
        PROVE  Margin'
    BY <1>1
  <1>2. ASSUME NEW r \in Request, NEW stage \in Stage \ {"probing", "broadcasting"},
               pc' = [pc EXCEPT ![r] = stage], late' = late,
               stage \in {"idle"} \cup Checking => pc[r] \in {"idle"} \cup Checking, lock' \in {lock, NoLock},
               \A q \in Request \ {r} : timer'[q] = timer[q]
        PROVE  Margin'
    <2>1. NoLock.by = None
      BY DEF NoLock
    <2> QED
      BY <1>1, <1>2, <2>1
  <1>3. ASSUME NEW r \in Request,
               \/ Arrive(r) \/ ReadCache(r) \/ ReadCarrier(r) \/ ReadStatus(r) \/ RefuseHeld(r)
               \/ Resolve(r) \/ Reject(r) \/ CacheBinding(r) \/ Release(r)
        PROVE  Margin'
    <2>1. \E stage \in Stage \ {"probing", "broadcasting"} :
              /\ pc' = [pc EXCEPT ![r] = stage]
              /\ stage \in {"idle"} \cup Checking => pc[r] \in {"idle"} \cup Checking
      <3>1. CASE Arrive(r) \/ ReadCache(r) \/ ReadCarrier(r) \/ ReadStatus(r) \/ RefuseHeld(r)
        BY <3>1 DEF Arrive, ReadCache, ReadCarrier, ReadStatus, RefuseHeld, Goto, Stage, Checking, Done
      <3>2. CASE Resolve(r) \/ Reject(r) \/ CacheBinding(r) \/ Release(r)
        BY <3>2 DEF Resolve, Reject, CacheBinding, Release, Released, Goto, Stage, Checking, Done, Under
      <3> QED
        BY <1>3, <3>1, <3>2
    <2>2. /\ late' = late /\ lock' \in {lock, NoLock}
          /\ \A q \in Request \ {r} : timer'[q] = timer[q]
      BY <1>3 DEF Arrive, ReadCache, ReadCarrier, ReadStatus, RefuseHeld, Resolve, Reject, CacheBinding,
                  Release
    <2> QED
      BY <1>2, <2>1, <2>2
  <1>4. ASSUME NEW r \in Request, Acquire(r) \/ AcquireFails(r)
        PROVE  Margin'
    <2>1. pc[r] = "acquire" /\ Begin(r) /\ late' = late
      BY <1>4 DEF Acquire, AcquireFails
    <2>2. lock' \in {lock, [by |-> r, ttl |-> LOCK_TTL]}
      BY <1>4 DEF Acquire, AcquireFails
    <2>3. \A q \in Request \ {r} : pc'[q] = pc[q] /\ timer'[q] = timer[q]
      BY <2>1, BeginGoes
    <2>4. /\ pc'[r] \in {"probing", "broadcasting"}
          /\ pc'[r] = "probing" => plan[r].mode = "resume"
          /\ pc'[r] = "broadcasting" => timer'[r] = BROADCAST_TIMEOUT
      BY <2>1, BeginGoes
    <2>5. CASE lock' = [by |-> r, ttl |-> LOCK_TTL]
      <3>1. lock'.by = r /\ lock'.ttl = LOCK_TTL
        BY <2>5
      <3> QED
        BY <2>1, <2>3, <2>4, <3>1, Timers DEF Checking
    <2>6. CASE lock' = lock
      <3>1. lock.by # r
        BY <2>1 DEF Checking
      <3> QED
        BY <2>1, <2>3, <2>4, <2>6, <3>1 DEF Checking
    <2> QED
      BY <2>2, <2>5, <2>6
  <1>5. ASSUME NEW r \in Request, Probe(r)
        PROVE  Margin'
    <2>1. plan[r].mode = "resume" /\ UNCHANGED <<lock, late>>
      BY <1>5, ProbeGoes
    <2>2. \A q \in Request \ {r} : pc'[q] = pc[q] /\ timer'[q] = timer[q]
      BY <1>5, ProbeGoes
    <2>3. pc'[r] \in {"broadcasting", "caching"}
      BY <1>5, ProbeGoes
    <2> QED
      BY <2>1, <2>2, <2>3 DEF Checking
  <1>6. ASSUME NEW r \in Request, Expire(r)
        PROVE  Margin'
    <2>1. lock' = lock \/ lock' = [by |-> lock.by, ttl |-> HAF_LAG]
      BY <1>6 DEF Expire
    <2>2. lock'.by = lock.by /\ (lock'.ttl = lock.ttl \/ lock'.ttl = HAF_LAG)
      BY <2>1
    <2>3. pc' = [pc EXCEPT ![r] = "unsure"] /\ UNCHANGED <<timer, late>>
      BY <1>6 DEF Expire, Goto
    <2> QED
      BY <1>1, <2>2, <2>3 DEF Checking
  <1>7. ASSUME NEW r \in Request, Land(r) \/ Vanish(r)
        PROVE  Margin'
    BY <1>1, <1>7 DEF Land, Vanish
  <1>8. ASSUME (\E a \in Account : Govern(a) \/ Edit(a)) \/ Index \/ UNCHANGED vars
        PROVE  Margin'
    BY <1>1, <1>8 DEF Govern, Edit, EditReads, EditLands, EditFails, Index
  <1>9. ASSUME Evict
        PROVE  Margin'
    <2>1. lock' \in {lock, NoLock} /\ UNCHANGED <<pc, timer, late>> /\ NoLock.by = None
      BY <1>9 DEF Evict, NoLock
    <2> QED
      BY <1>1, <2>1
  <1>10. ASSUME Crash
        PROVE  Margin'
    <2>1. /\ UNCHANGED <<lock, late>>
          /\ \A q \in Request : (pc'[q] = pc[q] /\ pc[q] \in {"idle"} \cup Done) \/ pc'[q] = "dead"
      BY <1>10 DEF Crash
    <2> QED
      BY <2>1 DEF Checking, Done
  <1>11. ASSUME Tick
        PROVE  Margin'
    <2>1. /\ lock' = AgedLock /\ UNCHANGED pc
          /\ late' = late \cup {r \in Request : pc[r] \in Under /\ lock.by = r /\ AgedLock = NoLock}
          /\ \A q \in Request : /\ pc[q] # "caching"
                                /\ pc[q] \in {"probing", "broadcasting"} => timer[q] > 0
                                /\ timer'[q] = Less(timer[q])
      BY <1>11 DEF Tick
    <2>2. \A q \in Request : timer[q] > 0 => timer'[q] = timer[q] - 1
      BY <2>1, LessTyped
    <2>3. ASSUME NEW q \in late'
          PROVE  plan[q].mode = "resume"
      <3>1. CASE q \in late
        BY <3>1
      <3>2. CASE pc[q] \in Under /\ lock.by = q /\ AgedLock = NoLock /\ q \in Request
        <4>1. lock.ttl <= 1
          <5>1. AgedLock.by = None
            BY <3>2 DEF NoLock
          <5> QED
            BY <3>2, <5>1 DEF AgedLock
        <4>2. pc[q] \in {"probing", "broadcasting"} /\ timer[q] > 0
          BY <2>1, <3>2 DEF Under
        <4> QED
          BY <3>2, <4>1, <4>2
      <3> QED
        BY <2>1, <2>3, <3>1, <3>2
    <2>4. AgedLock.by # None => AgedLock.by = lock.by /\ AgedLock.ttl = lock.ttl - 1
      BY DEF AgedLock, NoLock
    <2>5. ASSUME NEW q \in Request, lock'.by = q
          PROVE  /\ pc'[q] \notin {"idle"} \cup Checking
                 /\ pc'[q] = "broadcasting" /\ plan[q].mode # "resume" => timer'[q] < lock'.ttl
      <3>1. lock.by = q /\ lock'.ttl = lock.ttl - 1 /\ pc'[q] = pc[q]
        BY <2>1, <2>4, <2>5
      <3>2. pc[q] = "broadcasting" => timer[q] > 0 /\ timer'[q] = timer[q] - 1
        BY <2>1, <2>2
      <3> QED
        BY <3>1, <3>2
    <2> QED
      BY <2>1, <2>3, <2>5
  <1> QED
    BY <1>3, <1>4, <1>5, <1>6, <1>7, <1>8, <1>9, <1>10, <1>11 DEF Next, Step

\* Every step keeps the lock of a timed-out request over its window.
LEMMA ShieldKept ==
    ASSUME TypeOK, Fresh, OpsOwned, Shield, [Next]_vars
    PROVE  Shield'
  <1>a. \A q \in Request : pc'[q] = "unsure" /\ Unsettled(q)' => Unsettled(q)
    BY UnsettledSteps
  <1> SUFFICES ASSUME NEW q \in Request, q \notin alone', pc'[q] = "unsure", window'[q] > 0, Unsettled(q),
                      "eviction" \notin faults', "notExtended" \notin faults'
               PROVE  lock'.by = q /\ window'[q] <= lock'.ttl
    BY <1>a, Shape DEF Shield
  <1>0. /\ pc \in [Request -> Stage] /\ window \in [Request -> 0..HAF_LAG]
        /\ alone \subseteq Request
    BY Shape
  <1>0a. /\ lock.ttl \in 0..HAF_LAG /\ lock.by \in Request \cup {None} /\ None \notin Request
         /\ (lock.by = None <=> lock.ttl = 0)
    BY Shape, NoneAssumption
  <1>0b. window[q] \in 0..HAF_LAG /\ HAF_LAG \in Nat
    BY <1>0, TimerAssumption
  <1> USE <1>0, <1>0a, <1>0b
  <1>1. faults \subseteq faults' /\ "eviction" \notin faults /\ "notExtended" \notin faults
    BY FaultsGrow
  <1>2. Unsettled(q)
    OBVIOUS
  <1>3. ASSUME pc[q] = "unsure", window'[q] = window[q], alone \subseteq alone'
        PROVE  lock.by = q /\ window'[q] <= lock.ttl
    BY <1>1, <1>2, <1>3 DEF Shield
  <1>4. ASSUME pc[q] = "unsure", window'[q] = window[q], alone \subseteq alone', UNCHANGED lock
        PROVE  lock'.by = q /\ window'[q] <= lock'.ttl
    BY <1>3, <1>4
  <1>5. ASSUME NEW r \in Request,
               Arrive(r) \/ ReadCache(r) \/ ReadCarrier(r) \/ ReadStatus(r) \/ RefuseHeld(r)
        PROVE  lock'.by = q /\ window'[q] <= lock'.ttl
    <2>1. pc[r] \in {"idle"} \cup Checking /\ UNCHANGED <<window, lock, alone>>
      BY <1>5 DEF Arrive, ReadCache, ReadCarrier, ReadStatus, RefuseHeld, Checking
    <2>2. r # q
      BY <2>1 DEF Fresh
    <2>3. pc'[q] = pc[q]
      BY <1>5, <2>2 DEF Arrive, ReadCache, ReadCarrier, ReadStatus, RefuseHeld, Goto
    <2> QED
      BY <1>4, <2>1, <2>3
  <1>6. ASSUME NEW r \in Request, Acquire(r) \/ AcquireFails(r)
        PROVE  lock'.by = q /\ window'[q] <= lock'.ttl
    <2>1. pc[r] = "acquire" /\ Begin(r) /\ UNCHANGED window /\ alone \subseteq alone'
      BY <1>6 DEF Acquire, AcquireFails
    <2>2. pc'[q] = pc[q]
      BY <2>1, BeginGoes
    <2>3. lock' = lock \/ lock.by = None
      BY <1>6, LockTaken
    <2> QED
      BY <1>3, <2>1, <2>2, <2>3
  <1>6a. ASSUME NEW r \in Request, Probe(r)
        PROVE  lock'.by = q /\ window'[q] <= lock'.ttl
    BY <1>6a, <1>4, ProbeGoes
  <1>7. ASSUME NEW r \in Request, Resolve(r) \/ CacheBinding(r)
        PROVE  lock'.by = q /\ window'[q] <= lock'.ttl
    <2>1. \E stage \in {"caching", "bound", "releasing"} : pc' = [pc EXCEPT ![r] = stage]
      BY <1>7 DEF Resolve, CacheBinding, Goto
    <2>2. UNCHANGED <<lock, alone>> /\ (q # r => window'[q] = window[q])
      BY <1>7 DEF Resolve, CacheBinding
    <2> QED
      BY <1>4, <2>1, <2>2
  <1>8. ASSUME NEW r \in Request, Reject(r)
        PROVE  lock'.by = q /\ window'[q] <= lock'.ttl
    <2>1. pc' = [pc EXCEPT ![r] = IF r \in alone THEN "unsure" ELSE "abandoning"]
      BY <1>8 DEF Reject, Goto
    <2>2. UNCHANGED <<lock, alone, window>>
      BY <1>8 DEF Reject
    <2> QED
      BY <1>4, <2>1, <2>2
  <1>9. ASSUME NEW r \in Request, Expire(r)
        PROVE  lock'.by = q /\ window'[q] <= lock'.ttl
    <2>1. /\ pc[r] = "broadcasting" /\ pc' = [pc EXCEPT ![r] = "unsure"]
          /\ window' = [window EXCEPT ![r] = HAF_LAG] /\ UNCHANGED alone
      BY <1>9 DEF Expire, Goto
    <2>2. lock.by = r /\ lock' = [by |-> lock.by, ttl |-> HAF_LAG]
      BY <1>9 DEF Expire, Fails
    <2>3. CASE r = q
      BY <2>1, <2>2, <2>3, Timers
    <2>4. CASE r # q
      BY <1>3, <2>1, <2>2, <2>4
    <2> QED
      BY <2>3, <2>4
  <1>10. ASSUME NEW r \in Request, Release(r)
        PROVE  lock'.by = q /\ window'[q] <= lock'.ttl
    <2>1. /\ pc[r] \in {"releasing", "abandoning"}
          /\ pc' = [pc EXCEPT ![r] = IF pc[r] = "releasing" THEN "bound" ELSE "failed"]
      BY <1>10 DEF Release, Released, Goto
    <2>2. UNCHANGED <<alone, window>> /\ (lock' = lock \/ lock.by = r)
      BY <1>10 DEF Release
    <2>3. pc[q] = "unsure" /\ q # r
      BY <2>1
    <2> QED
      BY <1>3, <2>2, <2>3
  <1>11. ASSUME NEW r \in Request, Land(r) \/ Vanish(r)
        PROVE  lock'.by = q /\ window'[q] <= lock'.ttl
    BY <1>11, <1>4 DEF Land, Vanish
  <1>12. ASSUME (\E a \in Account : Govern(a) \/ Edit(a)) \/ Index \/ UNCHANGED vars
        PROVE  lock'.by = q /\ window'[q] <= lock'.ttl
    BY <1>12, <1>4 DEF Govern, Edit, EditReads, EditLands, EditFails, Index
  <1>13. ~Evict
    BY DEF Evict, Fails
  <1>14. ASSUME Crash
        PROVE  lock'.by = q /\ window'[q] <= lock'.ttl
    <2>1. pc'[q] = pc[q] /\ UNCHANGED <<lock, alone, window>>
      BY <1>14 DEF Crash
    <2> QED
      BY <1>4, <2>1
  <1>15. ASSUME Tick
        PROVE  lock'.by = q /\ window'[q] <= lock'.ttl
    <2>1. window[q] # 1 /\ UNCHANGED <<pc, alone>> /\ window'[q] = Less(window[q])
      BY <1>2, <1>15 DEF Tick
    <2>2. window[q] > 1 /\ window'[q] = window[q] - 1
      BY <2>1, LessTyped, TimerAssumption
    <2>3. lock.by = q /\ window[q] <= lock.ttl
      BY <1>1, <1>2, <2>1, <2>2 DEF Shield
    <2>4. lock'.by = lock.by /\ lock'.ttl = lock.ttl - 1
      BY <1>15, <2>2, <2>3, AgedTyped DEF Tick
    <2> QED
      BY <2>2, <2>3, <2>4
  <1> QED
    BY <1>5, <1>6, <1>6a, <1>7, <1>8, <1>9, <1>10, <1>11, <1>12, <1>13, <1>14, <1>15 DEF Next, Step

\* Every step keeps the checks apart from the accounts whose bind runs into them.
LEMMA CheckedKept ==
    ASSUME TypeOK, Fresh, Checked, [Next]_vars
    PROVE  Checked' /\ early \subseteq early'
  <1> USE DEF Checked
  <1>0. /\ pc \in [Request -> Stage] /\ early \subseteq Request
        /\ lock.by \in Request \cup {None} /\ None \notin Request
    BY Shape, NoneAssumption
  <1>1. UNCHANGED plan
    BY PlanStays
  <1>2. ASSUME early \subseteq early', lock'.by \in {lock.by, None},
               \A s \in Request \ early' : pc'[s] \in Checking => pc[s] \in Checking
        PROVE  Checked' /\ early \subseteq early'
    BY <1>0, <1>1, <1>2 DEF Mine
  <1>3. ASSUME NEW r \in Request, Arrive(r)
        PROVE  Checked' /\ early \subseteq early'
    <2>1. /\ UNCHANGED lock /\ early \subseteq early'
          /\ \A s \in Request \ {r} : pc'[s] = pc[s]
          /\ lock.by # None /\ Mine(lock.by) # Mine(r) => r \in early'
      BY <1>0, <1>3 DEF Arrive, Goto
    <2> QED
      BY <1>0, <1>1, <2>1 DEF Mine
  <1>4. ASSUME NEW r \in Request, ReadCache(r) \/ ReadCarrier(r) \/ ReadStatus(r)
        PROVE  Checked' /\ early \subseteq early'
    <2>1. pc[r] \in Checking /\ UNCHANGED <<lock, early>>
      BY <1>4 DEF ReadCache, ReadCarrier, ReadStatus, Checking
    <2>2. \A s \in Request \ {r} : pc'[s] = pc[s]
      BY <1>0, <1>4 DEF ReadCache, ReadCarrier, ReadStatus, Goto
    <2> QED
      BY <1>2, <2>1, <2>2
  <1>5. ASSUME NEW r \in Request, Acquire(r) \/ AcquireFails(r)
        PROVE  Checked' /\ early \subseteq early'
    <2>1. Begin(r) /\ RunsInto(r)
      BY <1>5 DEF Acquire, AcquireFails
    <2>2. /\ pc'[r] \notin Checking /\ \A s \in Request \ {r} : pc'[s] = pc[s]
          /\ early \subseteq early'
          /\ \A s \in Request : pc[s] \in Checking /\ Mine(s) # Mine(r) => s \in early'
      BY <1>0, <2>1, BeginGoes DEF RunsInto, Checking
    <2>3. lock'.by \in {lock.by, r}
      <3>1. lock' = lock \/ lock' = [by |-> r, ttl |-> LOCK_TTL]
        BY <1>5 DEF Acquire, AcquireFails
      <3> QED
        BY <3>1
    <2> QED
      BY <1>0, <1>1, <2>2, <2>3 DEF Mine
  <1>6. ASSUME NEW r \in Request,
               RefuseHeld(r) \/ Resolve(r) \/ Reject(r) \/ CacheBinding(r) \/ Release(r)
        PROVE  Checked' /\ early \subseteq early'
    <2>1. \E stage \in {"refused", "unsure", "failed", "abandoning", "caching", "bound", "releasing"} :
              pc' = [pc EXCEPT ![r] = stage]
      BY <1>6 DEF RefuseHeld, Resolve, Reject, CacheBinding, Release, Released, Goto
    <2>2. UNCHANGED early
      BY <1>6 DEF RefuseHeld, Resolve, Reject, CacheBinding, Release
    <2>3. lock' = lock \/ lock' = NoLock
      BY <1>6 DEF RefuseHeld, Resolve, Reject, CacheBinding, Release
    <2>4. lock'.by \in {lock.by, None}
      BY <2>3 DEF NoLock
    <2> QED
      BY <1>0, <1>2, <2>1, <2>2, <2>4 DEF Checking
  <1>6a. ASSUME NEW r \in Request, Probe(r)
        PROVE  Checked' /\ early \subseteq early'
    <2>1. UNCHANGED <<lock, early>> /\ pc'[r] \notin Checking /\ \A s \in Request \ {r} : pc'[s] = pc[s]
      BY <1>0, <1>6a, ProbeGoes DEF Checking
    <2> QED
      BY <1>2, <2>1
  <1>7. ASSUME NEW r \in Request, Expire(r)
        PROVE  Checked' /\ early \subseteq early'
    <2>1. pc' = [pc EXCEPT ![r] = "unsure"] /\ UNCHANGED early
      BY <1>7 DEF Expire, Goto
    <2>2. lock' = lock \/ lock' = [by |-> lock.by, ttl |-> HAF_LAG]
      BY <1>7 DEF Expire
    <2>3. lock'.by = lock.by
      BY <2>2
    <2> QED
      BY <1>0, <1>2, <2>1, <2>3 DEF Checking
  <1>8. ASSUME NEW r \in Request, Land(r) \/ Vanish(r)
        PROVE  Checked' /\ early \subseteq early'
    BY <1>8, <1>2 DEF Land, Vanish
  <1>9. ASSUME (\E a \in Account : Govern(a) \/ Edit(a)) \/ Index \/ UNCHANGED vars
        PROVE  Checked' /\ early \subseteq early'
    BY <1>9, <1>2 DEF Govern, Edit, EditReads, EditLands, EditFails, Index
  <1>10. ASSUME Evict
        PROVE  Checked' /\ early \subseteq early'
    <2>1. lock' = lock \/ lock' = NoLock
      BY <1>10 DEF Evict
    <2>2. lock'.by \in {lock.by, None} /\ UNCHANGED <<pc, early>>
      BY <1>10, <2>1 DEF Evict, NoLock
    <2> QED
      BY <1>2, <2>2
  <1>11. ASSUME Crash
        PROVE  Checked' /\ early \subseteq early'
    <2>1. /\ UNCHANGED <<lock, early>>
          /\ \A s \in Request : pc'[s] \notin Checking
      BY <1>11 DEF Crash, Done, Checking
    <2> QED
      BY <1>2, <2>1
  <1>12. ASSUME Tick
        PROVE  Checked' /\ early \subseteq early'
    <2>1. lock'.by \in {lock.by, None} /\ UNCHANGED <<pc, early>>
      BY <1>12, AgedTyped DEF Tick
    <2> QED
      BY <1>2, <2>1
  <1> QED
    BY <1>3, <1>4, <1>5, <1>6, <1>6a, <1>7, <1>8, <1>9, <1>10, <1>11, <1>12 DEF Next, Step

(***************************************************************************)
(* The chain.                                                              *)
(***************************************************************************)

\* An op at the end of the chain binds or unbinds its own account, and only an accredit op
\* with the ORCID changes who carries it.
LEMMA ChainGrows ==
    ASSUME chain \in Seq(Op), NEW o \in Op, chain' = Append(chain, o), NEW n \in Nat, n = Len(chain)
    PROVE  /\ Len(chain') = n + 1
           /\ \A k \in 0..n : Bound(k)' = Bound(k) /\ Carriers(k)' = Carriers(k)
           /\ Bound(n + 1)' \subseteq Bound(n) \cup {o.account}
           /\ o.act # "bind" => Bound(n + 1)' \subseteq Bound(n) /\ Carriers(n + 1)' = Carriers(n)
           /\ o.act = "bind" => Carriers(n + 1)' = {o.account}
  <1>1. /\ Len(chain') = n + 1 /\ chain'[n + 1] = o
        /\ \A i \in 1..n : chain'[i] = chain[i]
    BY AppendKeeps
  <1>2. o.account \in Account
    BY DEF Op
  <1>3. ASSUME NEW k \in 0..n
        PROVE  Bound(k)' = Bound(k) /\ Carriers(k)' = Carriers(k)
    <2>1. \A i \in 1..k : /\ chain'[i] = chain[i]
                          /\ \A j \in (i + 1)..k : chain'[j] = chain[j]
      BY <1>1
    <2>2. ASSUME NEW a
          PROVE  a \in Bound(k)' <=> a \in Bound(k)
      <3>1. \A i \in 1..k :
                (/\ chain'[i].account = a /\ chain'[i].act \in {"bind"}
                 /\ \A j \in (i + 1)..k : chain'[j].account # a)
            <=> (/\ chain[i].account = a /\ chain[i].act \in {"bind"}
                 /\ \A j \in (i + 1)..k : chain[j].account # a)
        BY <2>1
      <3> QED
        BY <3>1 DEF Bound, Standing
    <2>3. ASSUME NEW a
          PROVE  a \in Carriers(k)' <=> a \in Carriers(k)
      <3>1. \A i \in 1..k :
                (/\ chain'[i].account = a /\ chain'[i].act = "bind"
                 /\ \A j \in (i + 1)..k : chain'[j].act # "bind")
            <=> (/\ chain[i].account = a /\ chain[i].act = "bind"
                 /\ \A j \in (i + 1)..k : chain[j].act # "bind")
        BY <2>1
      <3> QED
        BY <3>1 DEF Carriers
    <2>4. Bound(k)' \subseteq Bound(k) /\ Bound(k) \subseteq Bound(k)'
      BY <2>2
    <2>5. Carriers(k)' \subseteq Carriers(k) /\ Carriers(k) \subseteq Carriers(k)'
      BY <2>3
    <2> QED
      BY <2>4, <2>5
  <1>4. ASSUME NEW a \in Bound(n + 1)', a # o.account \/ o.act # "bind"
        PROVE  a \in Bound(n)
    <2>1. PICK i \in 1..(n + 1) : /\ chain'[i].account = a /\ chain'[i].act = "bind"
                                 /\ \A j \in (i + 1)..(n + 1) : chain'[j].account # a
      BY <1>4 DEF Bound, Standing
    <2>2. a \in Account
      BY <1>4 DEF Bound, Standing
    <2>3. i # n + 1
      BY <1>1, <1>4, <2>1
    <2>4. i \in 1..n /\ \A j \in (i + 1)..n : j \in (i + 1)..(n + 1) /\ j \in 1..n
      BY <2>3
    <2> QED
      BY <1>1, <2>1, <2>2, <2>4 DEF Bound, Standing
  <1>5. ASSUME o.act # "bind"
        PROVE  Carriers(n + 1)' = Carriers(n)
    <2>1. ASSUME NEW a \in Account
          PROVE  a \in Carriers(n + 1)' <=> a \in Carriers(n)
      <3>1. ASSUME a \in Carriers(n + 1)'
            PROVE  a \in Carriers(n)
        <4>1. PICK i \in 1..(n + 1) : /\ chain'[i].account = a /\ chain'[i].act = "bind"
                                     /\ \A j \in (i + 1)..(n + 1) : chain'[j].act # "bind"
          BY <3>1 DEF Carriers
        <4>2. i # n + 1
          BY <1>1, <1>5, <4>1
        <4>3. i \in 1..n /\ \A j \in (i + 1)..n : j \in (i + 1)..(n + 1) /\ j \in 1..n
          BY <4>2
        <4> QED
          BY <1>1, <4>1, <4>3 DEF Carriers
      <3>2. ASSUME a \in Carriers(n)
            PROVE  a \in Carriers(n + 1)'
        <4>1. PICK i \in 1..n : /\ chain[i].account = a /\ chain[i].act = "bind"
                               /\ \A j \in (i + 1)..n : chain[j].act # "bind"
          BY <3>2 DEF Carriers
        <4>2. i \in 1..(n + 1) /\ \A j \in (i + 1)..(n + 1) : j = n + 1 \/ (j \in (i + 1)..n /\ j \in 1..n)
          OBVIOUS
        <4>3. \A j \in (i + 1)..(n + 1) : chain'[j].act # "bind"
          BY <1>1, <1>5, <4>1, <4>2
        <4> QED
          BY <1>1, <4>1, <4>2, <4>3 DEF Carriers
      <3> QED
        BY <3>1, <3>2
    <2>2. Carriers(n + 1)' \subseteq Account /\ Carriers(n) \subseteq Account
      BY DEF Carriers
    <2> QED
      BY <2>1, <2>2
  <1>6. ASSUME o.act = "bind"
        PROVE  Carriers(n + 1)' = {o.account}
    <2>1. o.account \in Carriers(n + 1)'
      <3>1. n + 1 \in 1..(n + 1) /\ \A j \in ((n + 1) + 1)..(n + 1) : FALSE
        OBVIOUS
      <3> QED
        BY <1>1, <1>2, <1>6, <3>1 DEF Carriers
    <2>2. ASSUME NEW a \in Carriers(n + 1)'
          PROVE  a = o.account
      <3>1. PICK i \in 1..(n + 1) : /\ chain'[i].account = a /\ chain'[i].act = "bind"
                                   /\ \A j \in (i + 1)..(n + 1) : chain'[j].act # "bind"
        BY <2>2 DEF Carriers
      <3>2. i = n + 1
        <4>1. CASE i \in 1..n
          <5>1. n + 1 \in (i + 1)..(n + 1)
            BY <4>1
          <5> QED
            BY <1>1, <1>6, <3>1, <5>1
        <4> QED
          BY <4>1
      <3> QED
        BY <1>1, <3>1, <3>2
    <2> QED
      BY <2>1, <2>2
  <1> QED
    BY <1>1, <1>3, <1>4, <1>5, <1>6

\* One account carries the ORCID at a time.
LEMMA OneCarrier ==
    ASSUME NEW n \in Nat, NEW a \in Carriers(n), NEW b \in Carriers(n)
    PROVE  a = b
  <1>1. PICK i \in 1..n : /\ chain[i].account = a /\ chain[i].act = "bind"
                         /\ \A k \in (i + 1)..n : chain[k].act # "bind"
    BY DEF Carriers
  <1>2. PICK j \in 1..n : /\ chain[j].account = b /\ chain[j].act = "bind"
                         /\ \A k \in (j + 1)..n : chain[k].act # "bind"
    BY DEF Carriers
  <1>3. i = j
    <2>1. CASE i < j
      <3>1. j \in (i + 1)..n
        BY <2>1
      <3> QED
        BY <1>1, <1>2, <3>1
    <2>2. CASE j < i
      <3>1. i \in (j + 1)..n
        BY <2>2
      <3> QED
        BY <1>1, <1>2, <3>1
    <2> QED
      BY <2>1, <2>2
  <1> QED
    BY <1>1, <1>2, <1>3

\* Only a metadata edit adds to the accounts that one bound again.
LEMMA CarriedGrows ==
    ASSUME [Next]_vars
    PROVE  carried \subseteq carried'
  <1>1. ASSUME NEW r \in Request, Arrive(r) \/ Step(r) \/ Land(r) \/ Vanish(r)
        PROVE  UNCHANGED carried
    BY <1>1 DEF Arrive, Step, Land, Vanish, ReadCache, ReadCarrier, ReadStatus, Acquire, RefuseHeld,
                AcquireFails, Probe, Resolve, Reject, Expire, CacheBinding, Release
  <1>2. ASSUME NEW a \in Account, Govern(a)
        PROVE  UNCHANGED carried
    BY <1>2 DEF Govern
  <1>3. ASSUME NEW a \in Account, Edit(a)
        PROVE  carried \subseteq carried'
    BY <1>3, EditKeeps
  <1>4. ASSUME Index \/ Evict \/ Crash \/ Tick \/ UNCHANGED vars
        PROVE  UNCHANGED carried
    BY <1>4 DEF Index, Evict, Crash, Tick
  <1> QED
    BY <1>1, <1>2, <1>3, <1>4 DEF Next

\* What the steps do to the accounts that are bound, unless an edit binds one again.
LEMMA BoundSteps ==
    ASSUME TypeOK, [Next]_vars, carried' = {}
    PROVE  \/ BoundNow' \subseteq BoundNow
           \/ \E r \in Request : Land(r) /\ BoundNow' \subseteq BoundNow \cup {Mine(r)}
  <1>0. chain \in Seq(Op) /\ Len(chain) \in Nat
    BY Shape
  <1>1. CASE UNCHANGED chain
    BY <1>1 DEF BoundNow, Bound, Standing
  <1>2. ASSUME NEW o \in Op, chain' = Append(chain, o)
        PROVE  /\ BoundNow' \subseteq BoundNow \cup {o.account}
               /\ o.act # "bind" => BoundNow' \subseteq BoundNow
    <2>0. PICK n \in Nat : n = Len(chain)
      BY <1>0
    <2>1. Bound(n + 1)' = BoundNow'
      <3>1. Len(chain') = n + 1
        BY <1>0, <1>2, <2>0, AppendKeeps
      <3>2. \A a : a \in Bound(n + 1)' <=> a \in BoundNow'
        BY <3>1 DEF BoundNow, Bound, Standing
      <3> QED
        BY <3>2
    <2>2. /\ Bound(n + 1)' \subseteq Bound(n) \cup {o.account}
          /\ o.act # "bind" => Bound(n + 1)' \subseteq Bound(n)
      BY <1>0, <1>2, <2>0, ChainGrows
    <2> QED
      BY <2>0, <2>1, <2>2 DEF BoundNow
  <1>3. ASSUME NEW r \in Request, Land(r)
        PROVE  BoundNow' \subseteq BoundNow \cup {Mine(r)}
    <2> DEFINE o == [act |-> "bind", account |-> Mine(r), by |-> r]
    <2>1. o \in Op /\ o.account = Mine(r)
      BY MineTyped DEF Op
    <2>2. chain' = Append(chain, o)
      BY <1>3 DEF Land
    <2> HIDE DEF o
    <2> QED
      BY <1>2, <2>1, <2>2
  <1>4. ASSUME Outside
        PROVE  BoundNow' \subseteq BoundNow
    BY <1>2, <1>4 DEF Outside
  <1> QED
    BY <1>1, <1>3, <1>4, ChainSteps, Zenon

\* Where one bind of the ORCID is, one was the last.
LEMMA LastOneKept ==
    ASSUME TypeOK, LastOne, [Next]_vars
    PROVE  LastOne'
  <1>0. chain \in Seq(Op) /\ Len(chain) \in Nat
    BY Shape
  <1>1. CASE UNCHANGED chain
    BY <1>1 DEF LastOne, Carriers
  <1>2. ASSUME NEW o \in Op, chain' = Append(chain, o)
        PROVE  LastOne'
    <2>0. PICK n \in Nat : n = Len(chain)
      BY <1>0
    <2>1. /\ Len(chain') = n + 1
          /\ \A k \in 0..n : Carriers(k)' = Carriers(k)
          /\ o.act # "bind" => Carriers(n + 1)' = Carriers(n)
          /\ o.act = "bind" => Carriers(n + 1)' = {o.account}
      BY <1>0, <1>2, <2>0, ChainGrows
    <2>2. \A i \in 1..n : chain'[i] = chain[i]
      BY <1>0, <1>2, <2>0, AppendKeeps
    <2>3. chain'[n + 1] = o
      BY <1>0, <1>2, <2>0, AppendKeeps
    <2> SUFFICES ASSUME NEW k \in 0..(n + 1), NEW i \in 1..k, chain'[i].act = "bind"
                 PROVE  Carriers(k)' # {}
      BY <2>1 DEF LastOne
    <2>4. CASE k \in 0..n
      <3>1. i \in 1..n /\ chain[i].act = "bind"
        BY <2>2, <2>4
      <3>2. Carriers(k) # {}
        BY <2>0, <2>4, <3>1 DEF LastOne
      <3> QED
        BY <2>1, <2>4, <3>2
    <2>5. CASE k = n + 1
      <3>1. CASE o.act = "bind"
        BY <2>1, <2>5, <3>1
      <3>2. CASE o.act # "bind"
        <4>1. i \in 1..n /\ chain[i].act = "bind"
          BY <2>2, <2>3, <2>5, <3>2
        <4>2. n \in 0..Len(chain) /\ Carriers(n) # {}
          BY <2>0, <4>1 DEF LastOne
        <4> QED
          BY <2>1, <2>5, <3>2, <4>2
      <3> QED
        BY <3>1, <3>2
    <2> QED
      BY <2>4, <2>5
  <1> QED
    BY <1>1, <1>2, ChainAppends

(***************************************************************************)
(* Without a fault, and with no request overtaken.                         *)
(***************************************************************************)

\* A state of the model without a fault and with no request overtaken.
Good ==
    /\ TypeOK /\ Fresh /\ OpsOwned /\ FaultsTold
    /\ Holder /\ Margin /\ Shield /\ Checked /\ LastOne
    /\ Quiet /\ QuietInv

\* What such a state is like: every request takes the lock, none died, and what is on the
\* chain was confirmed or may still be.
LEMMA QuietFacts ==
    ASSUME Good
    PROVE  /\ alone = {} /\ faults = {}
           /\ \A r \in Request :
                 /\ pc[r] # "dead"
                 /\ pc[r] \in {"abandoning", "failed"} => flight[r] # "landed"
                 /\ pc[r] \in Under => lock.by = r
                 /\ Binding(r) => Trusted(r) /\ (lock.by = r \/ Cached(r))
                 /\ r \in early => flight[r] = "none" /\ pc[r] \notin Under
  <1> USE DEF Good, Quiet
  <1>0. early \subseteq Request /\ pc \in [Request -> Stage]
    BY Shape
  <1>1. alone = {} /\ faults = {}
    BY DEF FaultsTold
  <1>2. ASSUME NEW r \in Request
        PROVE  /\ pc[r] # "dead"
               /\ pc[r] \in {"abandoning", "failed"} => flight[r] # "landed"
               /\ pc[r] \in Under => lock.by = r
               /\ r \in early => flight[r] = "none" /\ pc[r] \notin Under
    <2>1. pc[r] # "dead" /\ (pc[r] \in {"abandoning", "failed"} => flight[r] # "landed")
      BY <1>1 DEF FaultsTold
    <2>2. pc[r] \in Under => lock.by = r
      BY <1>1 DEF Holder
    <2>3. r \in early => flight[r] = "none" /\ pc[r] \notin {"probing", "caching"}
      BY DEF Overtook
    <2>4. r \in early => pc[r] \notin Under
      BY <2>3 DEF Fresh, Under
    <2> QED
      BY <2>1, <2>2, <2>3, <2>4
  <1>3. ASSUME NEW r \in Request, Unsettled(r)
        PROVE  flight[r] # "none"
    <2>1. CASE flight[r] = "flying"
      BY <2>1
    <2>2. ASSUME NEW i \in (indexed + 1)..Len(chain), chain[i].by = r
          PROVE  flight[r] = "landed"
      <3>1. i \in 1..Len(chain)
        BY Shape
      <3> QED
        BY <2>2, <3>1 DEF OpsOwned
    <2> QED
      BY <1>3, <2>1, <2>2 DEF Unsettled
  <1>4. ASSUME NEW r \in Request, Binding(r)
        PROVE  Trusted(r) /\ (lock.by = r \/ Cached(r))
    <2>1. Trusted(r)
      BY <1>2, <1>3, <1>4 DEF Trusted, Binding
    <2>2. CASE pc[r] \in {"broadcasting", "caching"}
      BY <1>2, <2>1, <2>2 DEF Under
    <2>3. CASE pc[r] \in {"releasing", "bound"} /\ Cached(r)
      BY <2>1, <2>3
    <2>4. CASE pc[r] = "unsure" /\ window[r] > 0
      BY <1>1, <1>4, <2>1, <2>4 DEF Shield, Binding
    <2> QED
      BY <1>4, <2>2, <2>3, <2>4 DEF QuietInv, Covered
  <1> QED
    BY <1>1, <1>2, <1>4

\* A step to a state without a fault and with no request overtaken comes from one.
LEMMA QuietBack ==
    ASSUME TypeOK, Fresh, Holder, Checked, [Next]_vars, Quiet'
    PROVE  Quiet
  <1>1. faults' = {} /\ faults = {}
    BY FaultsGrow DEF Quiet
  <1>2. early \subseteq early' /\ early \subseteq Request
    BY CheckedKept, Shape
  <1>3. \A r \in Request : flight[r] # "none" => flight'[r] # "none"
    BY PlanStays
  <1>4. ~Crash /\ ~Evict
    BY <1>1 DEF Crash, Evict, Fails
  <1>3a. late = {} /\ carried = {}
    BY HolderKept, CarriedGrows DEF Quiet
  <1>5. ASSUME NEW r \in Request, pc[r] \in {"probing", "caching", "releasing", "bound"}
        PROVE  pc'[r] \in {"probing", "caching", "releasing", "bound"} \/ flight'[r] # "none"
    <2>0. pc \in [Request -> Stage]
      BY Shape
    <2>1. ASSUME NEW q \in Request,
                 \/ Arrive(q) \/ ReadCache(q) \/ ReadCarrier(q) \/ ReadStatus(q) \/ RefuseHeld(q)
                 \/ Resolve(q) \/ Reject(q) \/ Expire(q)
          PROVE  pc'[r] = pc[r]
      <3>1. q # r
        BY <1>5, <2>1 DEF Arrive, ReadCache, ReadCarrier, ReadStatus, RefuseHeld, Resolve, Reject,
                          Expire
      <3> QED
        BY <2>0, <2>1, <3>1 DEF Arrive, ReadCache, ReadCarrier, ReadStatus, RefuseHeld, Resolve, Reject,
                                Expire, Goto
    <2>2. ASSUME NEW q \in Request, Acquire(q) \/ AcquireFails(q)
          PROVE  pc'[r] = pc[r]
      <3>1. q # r /\ Begin(q)
        BY <1>5, <2>2 DEF Acquire, AcquireFails
      <3> QED
        BY <2>0, <3>1, BeginGoes
    <2>2a. ASSUME NEW q \in Request, Probe(q)
          PROVE  pc'[r] \in {pc[r], "caching"} \/ flight'[r] # "none"
      BY <2>0, <2>2a, ProbeGoes, Shape
    <2>3. ASSUME NEW q \in Request, CacheBinding(q)
          PROVE  pc'[r] \in {"probing", "caching", "releasing", "bound"}
      BY <1>5, <2>0, <2>3 DEF CacheBinding, Goto
    <2>4. ASSUME NEW q \in Request, Release(q)
          PROVE  pc'[r] \in {"probing", "caching", "releasing", "bound"}
      BY <1>5, <2>0, <2>4 DEF Release, Released, Goto
    <2>5. ASSUME NEW q \in Request, Land(q) \/ Vanish(q)
          PROVE  pc'[r] = pc[r]
      BY <2>5 DEF Land, Vanish
    <2>6. ASSUME (\E a \in Account : Govern(a) \/ Edit(a)) \/ Index \/ Tick \/ UNCHANGED vars
          PROVE  pc'[r] = pc[r]
      BY <2>6 DEF Govern, Edit, EditReads, EditLands, EditFails, Index, Tick
    <2> QED
      BY <1>4, <1>5, <2>1, <2>2, <2>2a, <2>3, <2>4, <2>5, <2>6 DEF Next, Step
  <1>6. Overtook \subseteq Overtook'
    BY <1>2, <1>3, <1>5 DEF Overtook
  <1> QED
    BY <1>1, <1>3a, <1>6 DEF Quiet

\* Whoever is bound and not oneself, HAF shows it to a trusted request.
LEMMA Recent ==
    ASSUME Good, NEW s \in Request, Trusted(s), NEW b \in BoundNow, b # Mine(s)
    PROVE  b \in Bound(indexed)
  <1> USE DEF Good, Quiet
  <1>0. Len(chain) \in Nat /\ indexed \in 0..Len(chain)
    BY Shape
  <1> SUFFICES ASSUME b \notin Bound(indexed)
               PROVE  FALSE
    OBVIOUS
  <1>1. PICK i \in (indexed + 1)..Len(chain) :
            chain[i].act = "bind" /\ chain[i].account = b /\ chain[i].by \in Request
    BY <1>0 DEF QuietInv, Shown
  <1>2. PICK r \in Request : chain[i].by = r
    BY <1>1
  <1>3. i \in 1..Len(chain)
    BY <1>0
  <1>4. flight[r] = "landed" /\ Mine(r) = b
    BY <1>1, <1>2, <1>3 DEF OpsOwned
  <1>5. Unsettled(r)
    BY <1>2 DEF Unsettled
  <1>6. Binding(r)
    BY <1>4, <1>5, QuietFacts DEF Binding
  <1> QED
    BY <1>4, <1>6 DEF QuietInv, Agreed

\* Between such states a transaction becomes unsettled by an acquisition of the lock, or by the
\* probe under it.
LEMMA BindingSteps ==
    ASSUME Good, [Next]_vars, Quiet', NEW r \in Request, Binding(r)'
    PROVE  \/ Binding(r)
           \/ pc[r] = "acquire" /\ Acquire(r) /\ pc'[r] = "broadcasting"
           \/ pc[r] = "probing" /\ Probe(r) /\ pc'[r] = "broadcasting"
  <1> USE DEF Good
  <1>0. pc \in [Request -> Stage] /\ faults = {} /\ faults' = {} /\ alone = {}
    BY Shape, QuietFacts DEF Quiet
  <1>1. \/ Unsettled(r)
        \/ pc[r] = "acquire" /\ (Acquire(r) \/ AcquireFails(r)) /\ pc'[r] = "broadcasting"
        \/ pc[r] = "probing" /\ Probe(r) /\ pc'[r] = "broadcasting"
    BY UnsettledSteps DEF Binding
  <1>2. ~AcquireFails(r)
    BY <1>0 DEF AcquireFails, Fails
  <1>3. ASSUME pc[r] \in {"abandoning", "failed"}
        PROVE  pc'[r] \in {"abandoning", "failed"}
    <2>1. ASSUME NEW q \in Request,
                 \/ Arrive(q) \/ ReadCache(q) \/ ReadCarrier(q) \/ ReadStatus(q) \/ RefuseHeld(q)
                 \/ Resolve(q) \/ Reject(q) \/ Expire(q) \/ CacheBinding(q)
          PROVE  pc'[r] = pc[r]
      <3>1. q # r
        BY <1>3, <2>1 DEF Arrive, ReadCache, ReadCarrier, ReadStatus, RefuseHeld, Resolve, Reject,
                          Expire, CacheBinding
      <3> QED
        BY <1>0, <2>1, <3>1 DEF Arrive, ReadCache, ReadCarrier, ReadStatus, RefuseHeld, Resolve, Reject,
                                Expire, CacheBinding, Goto
    <2>2. ASSUME NEW q \in Request, Acquire(q) \/ AcquireFails(q)
          PROVE  pc'[r] = pc[r]
      <3>1. q # r /\ Begin(q)
        BY <1>3, <2>2 DEF Acquire, AcquireFails
      <3> QED
        BY <1>0, <3>1, BeginGoes
    <2>3. ASSUME NEW q \in Request, Probe(q)
          PROVE  pc'[r] = pc[r]
      BY <1>0, <1>3, <2>3, ProbeGoes
    <2>4. ASSUME NEW q \in Request, Release(q)
          PROVE  pc'[r] \in {"abandoning", "failed"}
      BY <1>3, <1>0, <2>4 DEF Release, Released, Goto
    <2>5. ASSUME NEW q \in Request, Land(q) \/ Vanish(q)
          PROVE  pc'[r] = pc[r]
      BY <2>5 DEF Land, Vanish
    <2>6. ASSUME (\E a \in Account : Govern(a) \/ Edit(a)) \/ Index \/ Tick \/ UNCHANGED vars
          PROVE  pc'[r] = pc[r]
      BY <2>6 DEF Govern, Edit, EditReads, EditLands, EditFails, Index, Tick
    <2>7. ~Crash /\ ~Evict
      BY <1>0 DEF Crash, Evict, Fails
    <2> QED
      BY <1>3, <2>1, <2>2, <2>3, <2>4, <2>5, <2>6, <2>7 DEF Next, Step
  <1> QED
    BY <1>1, <1>2, <1>3 DEF Binding

\* Every such step keeps unsettled binds covered: the confirmed one is cached for as long as
\* HAF may lag, and nobody caches another account meanwhile.
LEMMA CoveredKept ==
    ASSUME Good, [Next]_vars, Quiet'
    PROVE  Covered'
  <1> USE DEF Good
  <1>0. /\ pc \in [Request -> Stage] /\ window \in [Request -> 0..HAF_LAG]
        /\ faults = {} /\ faults' = {} /\ alone = {} /\ HAF_LAG \in Nat \ {0}
    BY Shape, QuietFacts, TimerAssumption DEF Quiet
  <1>p. UNCHANGED plan
    BY PlanStays
  <1>a. \A r \in Request : Binding(r)' => Binding(r) \/ pc'[r] = "broadcasting"
    BY BindingSteps
  <1> SUFFICES ASSUME NEW q \in Request, Binding(q)
               PROVE  \/ pc'[q] \in {"abandoning", "failed", "broadcasting"}
                      \/ pc'[q] = "caching" /\ window'[q] = HAF_LAG
                      \/ /\ pc'[q] \in {"releasing", "bound"}
                         /\ 0 < window'[q] /\ cache'.account = Mine(q) /\ window'[q] <= cache'.ttl
                      \/ pc'[q] = "unsure" /\ window'[q] > 0
    BY <1>a, <1>p DEF Covered, Binding, Cached, Mine
  <1> DEFINE Kept == 0 < window'[q] /\ cache'.account = Mine(q) /\ window'[q] <= cache'.ttl
  <1> DEFINE Goal == \/ pc'[q] \in {"abandoning", "failed", "broadcasting"}
                     \/ pc'[q] = "caching" /\ window'[q] = HAF_LAG
                     \/ pc'[q] \in {"releasing", "bound"} /\ Kept
                     \/ pc'[q] = "unsure" /\ window'[q] > 0
  <1>b. \/ pc[q] = "broadcasting"
        \/ pc[q] = "caching" /\ window[q] = HAF_LAG
        \/ pc[q] \in {"releasing", "bound"} /\ Cached(q)
        \/ pc[q] = "unsure" /\ window[q] > 0
    BY DEF QuietInv, Covered
  <1>1. ASSUME pc'[q] = pc[q], window'[q] = window[q], UNCHANGED cache
        PROVE  Goal
    BY <1>b, <1>1 DEF Cached
  <1>2. ASSUME NEW r \in Request,
               Arrive(r) \/ ReadCache(r) \/ ReadCarrier(r) \/ ReadStatus(r) \/ RefuseHeld(r)
        PROVE  Goal
    <2>1. r # q
      BY <1>b, <1>2 DEF Arrive, ReadCache, ReadCarrier, ReadStatus, RefuseHeld
    <2>2. pc'[q] = pc[q] /\ UNCHANGED <<window, cache>>
      BY <1>0, <1>2, <2>1 DEF Arrive, ReadCache, ReadCarrier, ReadStatus, RefuseHeld, Goto
    <2> QED
      BY <1>1, <2>2
  <1>3. ASSUME NEW r \in Request, Acquire(r)
        PROVE  Goal
    <2>1. r # q
      BY <1>b, <1>3 DEF Acquire
    <2>2. pc'[q] = pc[q] /\ UNCHANGED <<window, cache>>
      <3>1. Begin(r) /\ UNCHANGED <<window, cache>>
        BY <1>3 DEF Acquire
      <3> QED
        BY <1>0, <2>1, <3>1, BeginGoes
    <2> QED
      BY <1>1, <2>2
  <1>3a. ASSUME NEW r \in Request, Probe(r)
        PROVE  Goal
    <2>1. r # q
      BY <1>b, <1>3a, ProbeGoes
    <2>2. pc'[q] = pc[q] /\ UNCHANGED <<window, cache>>
      BY <1>0, <1>3a, <2>1, ProbeGoes
    <2> QED
      BY <1>1, <2>2
  <1>4. \A r \in Request : ~AcquireFails(r)
    BY <1>0 DEF AcquireFails, Fails
  <1>5. ASSUME NEW r \in Request, Resolve(r)
        PROVE  Goal
    <2>1. /\ pc' = [pc EXCEPT ![r] = "caching"] /\ window' = [window EXCEPT ![r] = HAF_LAG]
          /\ UNCHANGED cache
      BY <1>5 DEF Resolve, Goto
    <2>2. CASE r = q
      BY <1>0, <2>1, <2>2
    <2>3. CASE r # q
      BY <1>0, <1>1, <2>1, <2>3
    <2> QED
      BY <2>2, <2>3
  <1>6. ASSUME NEW r \in Request, Reject(r)
        PROVE  Goal
    <2>1. pc' = [pc EXCEPT ![r] = "abandoning"] /\ UNCHANGED <<window, cache>>
      BY <1>0, <1>6 DEF Reject, Goto
    <2>2. CASE r = q
      BY <1>0, <2>1, <2>2
    <2>3. CASE r # q
      BY <1>0, <1>1, <2>1, <2>3
    <2> QED
      BY <2>2, <2>3
  <1>7. ASSUME NEW r \in Request, Expire(r)
        PROVE  Goal
    <2>1. /\ pc' = [pc EXCEPT ![r] = "unsure"] /\ window' = [window EXCEPT ![r] = HAF_LAG]
          /\ UNCHANGED cache
      BY <1>7 DEF Expire, Goto
    <2>2. CASE r = q
      BY <1>0, <2>1, <2>2
    <2>3. CASE r # q
      BY <1>0, <1>1, <2>1, <2>3
    <2> QED
      BY <2>2, <2>3
  <1>8. ASSUME NEW r \in Request, CacheBinding(r)
        PROVE  Goal
    <2>1. pc[r] = "caching" /\ pc' = [pc EXCEPT ![r] = "releasing"] /\ UNCHANGED window
      BY <1>0, <1>8 DEF CacheBinding, Goto
    <2>2. cache' = [account |-> Mine(r), ttl |-> HAF_LAG]
      BY <1>0, <1>8 DEF CacheBinding, Fails
    <2>3. cache'.account = Mine(r) /\ cache'.ttl = HAF_LAG
      BY <2>2
    <2>4. CASE r = q
      <3>1. window'[q] = HAF_LAG /\ pc'[q] = "releasing"
        BY <1>b, <1>0, <2>1, <2>4
      <3> QED
        BY <1>0, <2>3, <2>4, <3>1
    <2>5. CASE r # q
      <3>1. pc'[q] = pc[q]
        BY <1>0, <2>1, <2>5
      <3>2. Trusted(r)
        BY <2>1, QuietFacts DEF Trusted, Under
      <3>3. Mine(q) = Mine(r)
        BY <3>2 DEF QuietInv, Agreed
      <3>4. Cached(q) => Kept
        BY <1>0, <2>1, <2>3, <3>3 DEF Cached
      <3> QED
        BY <1>b, <2>1, <3>1, <3>4
    <2> QED
      BY <2>4, <2>5
  <1>9. ASSUME NEW r \in Request, Release(r)
        PROVE  Goal
    <2>1. /\ pc[r] \in {"releasing", "abandoning"} /\ UNCHANGED <<window, cache>>
          /\ pc' = [pc EXCEPT ![r] = IF pc[r] = "releasing" THEN "bound" ELSE "failed"]
      BY <1>9 DEF Release, Released, Goto
    <2>2. CASE r = q
      <3>1. Cached(q)
        BY <1>b, <2>1, <2>2
      <3>2. Kept
        BY <2>1, <3>1 DEF Cached
      <3>3. pc'[q] \in {"bound", "failed"}
        BY <1>0, <2>1, <2>2
      <3> QED
        BY <3>2, <3>3
    <2>3. CASE r # q
      BY <1>0, <1>1, <2>1, <2>3
    <2> QED
      BY <2>2, <2>3
  <1>10. ASSUME NEW r \in Request, Land(r) \/ Vanish(r)
        PROVE  Goal
    BY <1>10, <1>1 DEF Land, Vanish
  <1>11. ASSUME (\E a \in Account : Govern(a) \/ Edit(a)) \/ Index \/ UNCHANGED vars
        PROVE  Goal
    BY <1>11, <1>1 DEF Govern, Edit, EditReads, EditLands, EditFails, Index
  <1>12. ~Crash /\ ~Evict
    BY <1>0 DEF Crash, Evict, Fails
  <1>13. ASSUME Tick
        PROVE  Goal
    <2>1. UNCHANGED pc /\ pc[q] # "caching" /\ window[q] # 1 /\ window'[q] = Less(window[q])
      BY <1>13 DEF Tick, Binding
    <2>2. window[q] > 1 => window'[q] = window[q] - 1
      BY <1>0, <2>1, LessTyped
    <2>3. cache.ttl > 1 => cache'.account = cache.account /\ cache'.ttl = cache.ttl - 1
      BY <1>13, AgedTyped DEF Tick
    <2>4. cache.ttl \in 0..HAF_LAG /\ window[q] \in 0..HAF_LAG
      BY <1>0, Shape
    <2>5. Cached(q) => Kept
      <3>1. SUFFICES ASSUME Cached(q)
                     PROVE  Kept
        OBVIOUS
      <3>2. window[q] > 1 /\ cache.ttl > 1 /\ cache.account = Mine(q) /\ window[q] <= cache.ttl
        BY <1>0, <2>1, <2>4, <3>1 DEF Cached
      <3>3. 0 < window'[q] /\ window'[q] <= cache'.ttl
        BY <1>0, <2>2, <2>3, <2>4, <3>2
      <3>4. cache'.account = Mine(q)
        BY <2>3, <3>2
      <3> QED
        BY <3>3, <3>4
    <2>6. window[q] > 0 => window'[q] > 0
      BY <2>1, <2>2, <2>4
    <2> QED
      BY <1>b, <2>1, <2>5, <2>6
  <1> QED
    BY <1>2, <1>3, <1>3a, <1>4, <1>5, <1>6, <1>7, <1>8, <1>9, <1>10, <1>11, <1>12, <1>13 DEF Next, Step

\* What such a step does to a request's checks and to the cache.
LEMMA QuietSteps ==
    ASSUME Good, [Next]_vars, Quiet', NEW s \in Request \ early'
    PROVE  /\ pc'[s] \in {"haf", "status", "acquire"} \cup Under =>
                  \/ pc[s] \in {"haf", "status", "acquire"} \cup Under
                  \/ pc[s] = "cache" /\ ReadCache(s)
           /\ pc'[s] = "status" => \/ pc[s] = "status" /\ found'[s] = found[s]
                                   \/ pc[s] = "haf" /\ ReadCarrier(s)
           /\ pc'[s] \in {"acquire"} \cup Under =>
                  \/ pc[s] \in {"acquire"} \cup Under
                  \/ ReadCache(s) \/ ReadCarrier(s) \/ ReadStatus(s)
  <1> USE DEF Good, Under
  <1>0. /\ pc \in [Request -> Stage] /\ found \in [Request -> Account \cup {None}]
        /\ faults = {} /\ faults' = {} /\ alone = {}
    BY Shape, QuietFacts DEF Quiet
  <1> DEFINE Goal == /\ pc'[s] \in {"haf", "status", "acquire"} \cup Under =>
                           \/ pc[s] \in {"haf", "status", "acquire"} \cup Under
                           \/ pc[s] = "cache" /\ ReadCache(s)
                     /\ pc'[s] = "status" => \/ pc[s] = "status" /\ found'[s] = found[s]
                                             \/ pc[s] = "haf" /\ ReadCarrier(s)
                     /\ pc'[s] \in {"acquire"} \cup Under =>
                           \/ pc[s] \in {"acquire"} \cup Under
                           \/ ReadCache(s) \/ ReadCarrier(s) \/ ReadStatus(s)
  <1>1. ASSUME pc'[s] = pc[s], found'[s] = found[s]
        PROVE  Goal
    BY <1>1
  <1>2. ASSUME NEW r \in Request, Arrive(r)
        PROVE  Goal
    <2>1. \E stage \in {"refused", "cache"} : pc' = [pc EXCEPT ![r] = stage]
      BY <1>2 DEF Arrive, Goto
    <2>2. UNCHANGED found
      BY <1>2 DEF Arrive
    <2> QED
      BY <1>0, <2>1, <2>2
  <1>3. ASSUME NEW r \in Request, ReadCache(r) \/ ReadCarrier(r) \/ ReadStatus(r)
        PROVE  Goal
    <2>1. CASE r = s
      <3>1. CASE ReadCache(s)
        <4>1. \E stage \in {"haf", "acquire", "refused"} : pc' = [pc EXCEPT ![s] = stage]
          BY <3>1 DEF ReadCache, Goto
        <4> QED
          BY <1>0, <3>1, <4>1 DEF ReadCache
      <3>2. CASE ReadCarrier(s)
        BY <3>2 DEF ReadCarrier
      <3>3. CASE ReadStatus(s)
        <4>1. \E stage \in {"acquire", "refused"} : pc' = [pc EXCEPT ![s] = stage]
          BY <3>3 DEF ReadStatus, Goto
        <4> QED
          BY <1>0, <3>3, <4>1 DEF ReadStatus
      <3> QED
        BY <1>3, <2>1, <3>1, <3>2, <3>3
    <2>2. CASE r # s
      BY <1>0, <1>1, <1>3, <2>2 DEF ReadCache, ReadCarrier, ReadStatus, Goto
    <2> QED
      BY <2>1, <2>2
  <1>4. ASSUME NEW r \in Request, Acquire(r) \/ AcquireFails(r)
        PROVE  Goal
    <2>1. pc[r] = "acquire" /\ Begin(r) /\ UNCHANGED found
      BY <1>4 DEF Acquire, AcquireFails
    <2>2. \E stage \in {"probing", "broadcasting"} : pc' = [pc EXCEPT ![r] = stage]
      BY <2>1, BeginGoes
    <2> QED
      BY <1>0, <2>1, <2>2
  <1>5. ASSUME NEW r \in Request,
               \/ RefuseHeld(r) \/ Reject(r) \/ Expire(r) \/ CacheBinding(r) \/ Release(r)
        PROVE  Goal
    <2>1. \E stage \in {"refused", "unsure", "abandoning", "bound", "releasing", "failed"} :
              pc' = [pc EXCEPT ![r] = stage]
      BY <1>5 DEF RefuseHeld, Reject, Expire, CacheBinding, Release, Released, Goto
    <2>2. UNCHANGED found
      BY <1>5 DEF RefuseHeld, Reject, Expire, CacheBinding, Release
    <2> QED
      BY <1>0, <2>1, <2>2
  <1>6. ASSUME NEW r \in Request, Resolve(r)
        PROVE  Goal
    BY <1>0, <1>6 DEF Resolve, Goto
  <1>6a. ASSUME NEW r \in Request, Probe(r)
        PROVE  Goal
    BY <1>0, <1>6a, ProbeGoes
  <1>7. ASSUME NEW r \in Request, Land(r) \/ Vanish(r)
        PROVE  Goal
    BY <1>1, <1>7 DEF Land, Vanish
  <1>8. ASSUME (\E a \in Account : Govern(a) \/ Edit(a)) \/ Index \/ Tick \/ UNCHANGED vars
        PROVE  Goal
    BY <1>1, <1>8 DEF Govern, Edit, EditReads, EditLands, EditFails, Index, Tick
  <1>9. ~Crash /\ ~Evict
    BY <1>0 DEF Crash, Evict, Fails
  <1> QED
    BY <1>2, <1>3, <1>4, <1>5, <1>6, <1>6a, <1>7, <1>8, <1>9 DEF Next, Step

\* Such a step leaves the cache, empties it, or has a bind that was confirmed write it.
LEMMA CacheSteps ==
    ASSUME Good, [Next]_vars, Quiet'
    PROVE  \/ cache'.account \in {cache.account, None}
           \/ \E r \in Request : /\ CacheBinding(r) /\ pc[r] = "caching"
                                 /\ cache'.account = Mine(r)
  <1> USE DEF Good
  <1>0. faults = {} /\ faults' = {} /\ alone = {}
    BY QuietFacts DEF Quiet
  <1>1. ASSUME NEW r \in Request, CacheBinding(r)
        PROVE  pc[r] = "caching" /\ cache'.account = Mine(r)
    <2>1. cache' = [account |-> Mine(r), ttl |-> HAF_LAG]
      BY <1>0, <1>1 DEF CacheBinding, Fails
    <2> QED
      BY <1>1, <2>1 DEF CacheBinding
  <1>2. ASSUME NEW r \in Request,
               \/ Arrive(r) \/ ReadCache(r) \/ ReadCarrier(r) \/ ReadStatus(r) \/ Acquire(r)
               \/ AcquireFails(r) \/ RefuseHeld(r) \/ Probe(r) \/ Resolve(r) \/ Reject(r) \/ Expire(r)
               \/ Release(r) \/ Land(r) \/ Vanish(r)
        PROVE  UNCHANGED cache
    BY <1>2 DEF Arrive, ReadCache, ReadCarrier, ReadStatus, Acquire, AcquireFails, RefuseHeld, Probe, Resolve,
                Reject, Expire, Release, Land, Vanish
  <1>3. ASSUME (\E a \in Account : Govern(a) \/ Edit(a)) \/ Index \/ UNCHANGED vars
        PROVE  UNCHANGED cache
    BY <1>3 DEF Govern, Edit, EditReads, EditLands, EditFails, Index
  <1>4. ASSUME Tick
        PROVE  cache'.account \in {cache.account, None}
    BY <1>4, AgedTyped DEF Tick
  <1>5. ~Crash /\ ~Evict
    BY <1>0 DEF Crash, Evict, Fails
  <1> QED
    BY <1>1, <1>2, <1>3, <1>4, <1>5 DEF Next, Step

\* A request that trusts its check after the step agreed with cache and transactions before it.
LEMMA AgreedBefore ==
    ASSUME Good, [Next]_vars, Quiet', NEW s \in Request, Trusted(s)'
    PROVE  /\ cache.account \in {None, Mine(s)}
           /\ \A r \in Request : Binding(r) => Mine(r) = Mine(s)
           /\ Trusted(s) \/ (pc[s] = "cache" /\ ReadCache(s))
  <1> USE DEF Good
  <1>1. s \notin early' /\ s \notin early
    BY CheckedKept DEF Trusted
  <1>2. CASE Trusted(s)
    BY <1>2 DEF QuietInv, Agreed
  <1>3. CASE pc[s] = "cache" /\ ReadCache(s) /\ ~Trusted(s)
    <2>0. /\ pc \in [Request -> Stage] /\ faults = {} /\ faults' = {}
          /\ lock.by \in Request \cup {None} /\ None \notin Request
      BY Shape, QuietFacts, NoneAssumption DEF Quiet
    <2>1. pc'[s] \in {"haf", "acquire"}
      <3>1. pc'[s] \in {"haf", "acquire", "refused"}
        BY <1>3, <2>0 DEF ReadCache, Goto
      <3>2. pc'[s] \in {"haf", "status", "acquire"} \cup Under \/ Binding(s)'
        BY DEF Trusted
      <3>3. ~Binding(s)'
        BY <1>1, <1>3, BindingSteps DEF Trusted
      <3> QED
        BY <3>1, <3>2, <3>3 DEF Under
    <2>2. cache.account \in {None, Mine(s)}
      BY <1>3, <2>0, <2>1 DEF ReadCache, Goto, Fails
    <2>3. ASSUME NEW r \in Request, Binding(r)
          PROVE  Mine(r) = Mine(s)
      <3>1. lock.by = r \/ Cached(r)
        BY <2>3, QuietFacts
      <3>2. CASE lock.by = r
        BY <1>1, <1>3, <2>0, <3>2 DEF Checked, Checking
      <3>3. CASE Cached(r)
        <4>1. cache.account = Mine(r) /\ Mine(r) # None
          BY <3>3, MineTyped DEF Cached
        <4> QED
          BY <2>2, <4>1
      <3> QED
        BY <3>1, <3>2, <3>3
    <2> QED
      BY <1>3, <2>2, <2>3
  <1>4. Trusted(s) \/ (pc[s] = "cache" /\ ReadCache(s))
    <2>1. CASE pc'[s] \in {"haf", "status", "acquire"} \cup Under
      BY <1>1, <2>1, QuietSteps DEF Trusted
    <2>2. CASE Binding(s)'
      BY <1>1, <2>2, BindingSteps DEF Trusted, Under
    <2> QED
      BY <2>1, <2>2 DEF Trusted
  <1> QED
    BY <1>2, <1>3, <1>4

\* Every such step keeps the requests that trust their check agreed.
LEMMA AgreedKept ==
    ASSUME Good, [Next]_vars, Quiet'
    PROVE  Agreed'
  <1> USE DEF Good
  <1>0. /\ early' \subseteq Request /\ early \subseteq early' /\ alone = {}
        /\ None \notin Request
    BY CheckedKept, Typing, QuietFacts, NoneAssumption DEF TypeOK, Quiet
  <1>p. \A r \in Request : Mine(r)' = Mine(r)
    BY PlanStays DEF Mine
  <1> SUFFICES ASSUME NEW s \in Request, Trusted(s)'
               PROVE  /\ cache'.account \in {None, Mine(s)}
                      /\ \A r \in Request : Binding(r)' => Mine(r) = Mine(s)
    BY <1>p DEF Agreed
  <1>1. /\ cache.account \in {None, Mine(s)}
        /\ \A r \in Request : Binding(r) => Mine(r) = Mine(s)
        /\ Trusted(s) \/ (pc[s] = "cache" /\ ReadCache(s))
    BY AgreedBefore
  <1>2. s \notin early'
    BY DEF Trusted
  \* A request that trusts its check shares the account of the one that holds the lock.
  <1>3. ASSUME NEW r \in Request, lock.by = r, Trusted(r), s # r,
               pc[s] \in Checking \/ Trusted(s)
        PROVE  Mine(r) = Mine(s)
    <2>1. CASE pc[s] \in Checking
      BY <1>0, <1>2, <1>3, <2>1 DEF Checked
    <2>2. CASE pc[s] \in Under
      BY <1>3, <2>2, QuietFacts
    <2>3. CASE Binding(s)
      BY <1>3, <2>3 DEF QuietInv, Agreed
    <2> QED
      BY <1>3, <2>1, <2>2, <2>3 DEF Trusted, Checking
  <1>4. cache'.account \in {None, Mine(s)}
    <2>1. CASE cache'.account \in {cache.account, None}
      BY <1>1, <2>1
    <2>2. ASSUME NEW r \in Request, pc[r] = "caching", cache'.account = Mine(r)
          PROVE  cache'.account = Mine(s)
      <3>1. lock.by = r /\ Trusted(r)
        BY <2>2, QuietFacts DEF Under, Trusted
      <3>2. pc[s] \in Checking \/ Trusted(s)
        BY <1>1 DEF Checking
      <3> QED
        BY <1>3, <2>2, <3>1, <3>2
    <2> QED
      BY <2>1, <2>2, CacheSteps
  <1>5. ASSUME NEW r \in Request, Binding(r)', ~Binding(r)
        PROVE  Mine(r) = Mine(s)
    <2>0. CASE pc[r] = "probing"
      <3>1. lock.by = r /\ Trusted(r)
        BY <2>0, QuietFacts DEF Under, Trusted
      <3>2. pc[s] \in Checking \/ Trusted(s)
        BY <1>1 DEF Checking
      <3> QED
        BY <1>3, <3>1, <3>2
    <2> SUFFICES ASSUME pc[r] # "probing"
                 PROVE  Mine(r) = Mine(s)
      BY <2>0
    <2>1. pc[r] = "acquire" /\ Acquire(r) /\ pc'[r] = "broadcasting"
      BY <1>5, BindingSteps
    <2>2. lock.by = None /\ RunsInto(r)
      BY <2>1 DEF Acquire, NoLock
    <2>3. pc[s] \in Checking /\ Mine(s) # Mine(r) => s \in early'
      BY <2>2 DEF RunsInto
    <2>4. Trusted(r)
      <3>1. flight'[r] # "none"
        <4>1. Fresh'
          BY FreshKept
        <4> QED
          BY <2>1, <4>1 DEF Fresh
      <3>2. r \notin early'
        BY <3>1 DEF Quiet, Overtook
      <3> QED
        BY <1>0, <2>1, <3>2 DEF Trusted
    <2>5. CASE pc[s] \in Checking
      BY <1>2, <2>3, <2>5
    <2>6. CASE pc[s] \in Under
      BY <1>0, <2>2, <2>6, QuietFacts
    <2>7. CASE Binding(s)
      BY <2>4, <2>7 DEF QuietInv, Agreed
    <2> QED
      BY <1>1, <2>5, <2>6, <2>7 DEF Trusted, Checking
  <1> QED
    BY <1>1, <1>4, <1>5

\* A transaction that lands without a fault may still bind.
LEMMA LandsBinding ==
    ASSUME Good, Quiet', NEW r \in Request, Land(r)
    PROVE  Binding(r) /\ Sure(r) /\ r \notin early
  <1>1. faults' = {} /\ flight[r] = "flying"
    BY DEF Quiet, Land
  <1>2. pc[r] \notin {"abandoning", "failed"}
    BY <1>1 DEF Land, Fails
  <1>3. r \notin early
    BY <1>1, QuietFacts
  <1> QED
    BY <1>1, <1>2, <1>3 DEF Binding, Unsettled, Sure

\* Nobody becomes bound but the account of those that agree.
LEMMA BoundStays ==
    ASSUME Good, [Next]_vars, Quiet', NEW s \in Request, NEW A,
           \A r \in Request : Binding(r) => Mine(r) = Mine(s),
           BoundNow \subseteq A, Mine(s) \in A
    PROVE  BoundNow' \subseteq A
  <1>1. CASE BoundNow' \subseteq BoundNow
    BY <1>1
  <1>2. ASSUME NEW r \in Request, Land(r), BoundNow' \subseteq BoundNow \cup {Mine(r)}
        PROVE  BoundNow' \subseteq A
    BY <1>2, LandsBinding
  <1> QED
    BY <1>1, <1>2, BoundSteps DEF Good, Quiet

\* Every such step keeps what a check finds true of the chain.
LEMMA FoundKept ==
    ASSUME Good, [Next]_vars, Quiet'
    PROVE  Found' /\ Passed'
  <1> USE DEF Good
  <1>0. /\ early \subseteq early' /\ indexed \in 0..Len(chain) /\ Len(chain) \in Nat
        /\ found \in [Request -> Account \cup {None}] /\ pc \in [Request -> Stage]
        /\ faults = {} /\ faults' = {}
    BY CheckedKept, Shape, QuietFacts DEF Quiet
  <1>p. \A r \in Request : Mine(r)' = Mine(r)
    BY PlanStays DEF Mine
  <1>1. ASSUME NEW s \in Request \ early', pc'[s] = "status"
        PROVE  BoundNow' \subseteq {Mine(s), found'[s]}
    <2>1. Trusted(s)'
      BY <1>1 DEF Trusted
    <2>2. \A r \in Request : Binding(r) => Mine(r) = Mine(s)
      BY <2>1, AgreedBefore
    <2>3. BoundNow \subseteq {Mine(s), found'[s]}
      <3>1. CASE pc[s] = "status" /\ found'[s] = found[s]
        BY <1>0, <3>1 DEF QuietInv, Found
      <3>2. CASE pc[s] = "haf" /\ ReadCarrier(s)
        <4>1. PICK a \in Carriers(indexed) : found'[s] = a
          BY <1>0, <1>1, <3>2 DEF ReadCarrier, Goto
        <4>2. Trusted(s)
          BY <1>0, <3>2 DEF Trusted
        <4>3. ASSUME NEW b \in BoundNow, b # Mine(s)
              PROVE  b = a
          <5>1. b \in Carriers(indexed)
            BY <1>0, <4>2, <4>3, Recent DEF QuietInv, CarrierOnly
          <5> QED
            BY <1>0, <5>1, OneCarrier
        <4> QED
          BY <4>1, <4>3
      <3> QED
        BY <1>1, <3>1, <3>2, QuietSteps
    <2> QED
      BY <2>2, <2>3, BoundStays
  <1>2. ASSUME NEW s \in Request \ early', Sure(s)'
        PROVE  BoundNow' \subseteq {Mine(s)}
    <2>1. Trusted(s)'
      <3>1. CASE pc'[s] \in {"acquire"} \cup Under
        BY <1>2, <3>1 DEF Trusted
      <3>2. CASE flight'[s] = "flying" /\ pc'[s] \notin {"abandoning", "failed"}
        BY <1>2, <3>2 DEF Trusted, Binding, Unsettled
      <3> QED
        BY <1>2, <3>1, <3>2 DEF Sure
    <2>2. /\ \A r \in Request : Binding(r) => Mine(r) = Mine(s)
          /\ cache.account \in {None, Mine(s)}
          /\ Trusted(s) \/ (pc[s] = "cache" /\ ReadCache(s))
      BY <2>1, AgreedBefore
    <2>3. BoundNow \subseteq {Mine(s)}
      <3>1. CASE Sure(s)
        BY <1>0, <3>1 DEF QuietInv, Passed
      <3>2. CASE ReadCache(s) /\ pc'[s] = "acquire"
        <4>1. cache.account = Mine(s)
          BY <1>0, <2>2, <3>2 DEF ReadCache, Goto, Fails
        <4>2. Mine(s) # None
          BY MineTyped
        <4> QED
          BY <4>1, <4>2 DEF QuietInv, CacheTrue
      <3>3. CASE ReadCarrier(s) /\ pc'[s] = "acquire"
        <4>1. Carriers(indexed) = {}
          BY <1>0, <3>3 DEF ReadCarrier, Goto
        <4>2. Trusted(s)
          BY <1>0, <3>3 DEF Trusted, ReadCarrier
        <4>3. ASSUME NEW b \in BoundNow, b # Mine(s)
              PROVE  FALSE
          <5>1. b \in Bound(indexed)
            BY <4>2, <4>3, Recent
          <5> QED
            BY <1>0, <4>1, <5>1 DEF QuietInv, CarrierOnly
        <4> QED
          BY <4>3
      <3>4. CASE ReadStatus(s) /\ pc'[s] = "acquire"
        <4>1. pc[s] = "status" /\ (found[s] = Mine(s) \/ found[s] \notin Bound(indexed))
          BY <1>0, <3>4 DEF ReadStatus, Goto
        <4>2. Trusted(s)
          BY <1>0, <4>1 DEF Trusted
        <4>3. BoundNow \subseteq {Mine(s), found[s]}
          BY <1>0, <4>1 DEF QuietInv, Found
        <4>4. ASSUME NEW b \in BoundNow, b # Mine(s)
              PROVE  FALSE
          <5>1. b \in Bound(indexed)
            BY <4>2, <4>4, Recent
          <5> QED
            BY <4>1, <4>3, <4>4, <5>1
        <4> QED
          BY <4>4
      <3>5. CASE pc'[s] \in {"acquire"} \cup Under /\ ~Sure(s)
        <4>1. ReadCache(s) \/ ReadCarrier(s) \/ ReadStatus(s)
          BY <3>5, QuietSteps DEF Sure
        <4>2. pc'[s] \notin Under
          BY <1>0, <4>1 DEF ReadCache, ReadCarrier, ReadStatus, Goto, Under
        <4> QED
          BY <3>2, <3>3, <3>4, <3>5, <4>1, <4>2
      <3>6. CASE flight'[s] = "flying" /\ pc'[s] \notin {"abandoning", "failed"} /\ ~Sure(s)
        <4>1. Binding(s)'
          BY <3>6 DEF Binding, Unsettled
        <4>2. Binding(s)
          BY <3>6, <4>1, BindingSteps DEF Sure, Under
        <4>3. flight[s] = "flying"
          <5>1. flight[s] # "landed" /\ flight[s] # "none"
            <6>1. flight[s] # "landed"
              BY <3>6, PlanStays
            <6>2. flight[s] # "none"
              BY <4>2, Shape DEF Binding, Unsettled, OpsOwned
            <6> QED
              BY <6>1, <6>2
          <5> QED
            BY <4>2, <5>1, Shape DEF Binding, Unsettled, OpsOwned
        <4> QED
          BY <3>6, <4>2, <4>3 DEF Sure, Binding
      <3> QED
        BY <1>2, <3>1, <3>5, <3>6 DEF Sure
    <2> QED
      BY <2>2, <2>3, BoundStays
  <1>3. Found'
    BY <1>1, <1>p DEF Found
  <1>4. Passed'
    BY <1>2, <1>p DEF Passed
  <1> QED
    BY <1>3, <1>4

\* Every such step keeps the cache true.
LEMMA CacheTrueKept ==
    ASSUME Good, [Next]_vars, Quiet'
    PROVE  CacheTrue'
  <1> USE DEF Good
  <1> SUFFICES ASSUME cache'.account # None
               PROVE  BoundNow' \subseteq {cache'.account}
    BY DEF CacheTrue
  <1>1. ASSUME NEW r \in Request, pc[r] = "caching", cache'.account = Mine(r)
        PROVE  BoundNow' \subseteq {cache'.account}
    <2>1. Trusted(r) /\ Sure(r) /\ r \notin early
      BY <1>1, QuietFacts DEF Trusted, Sure, Under
    <2>2. BoundNow \subseteq {Mine(r)} /\ \A q \in Request : Binding(q) => Mine(q) = Mine(r)
      BY <2>1 DEF QuietInv, Passed, Agreed
    <2>3. BoundNow' \subseteq {Mine(r)}
      BY <2>2, BoundStays
    <2> QED
      BY <1>1, <2>3
  <1>2. CASE cache'.account = cache.account
    <2>1. BoundNow \subseteq {cache.account}
      BY <1>2 DEF QuietInv, CacheTrue
    <2>2. ASSUME NEW r \in Request, Land(r), BoundNow' \subseteq BoundNow \cup {Mine(r)}
          PROVE  BoundNow' \subseteq {cache.account}
      <3>1. Trusted(r)
        BY <2>2, LandsBinding DEF Trusted
      <3>2. Mine(r) = cache.account
        BY <1>2, <3>1 DEF QuietInv, Agreed
      <3> QED
        BY <2>1, <2>2, <3>2
    <2> QED
      BY <1>2, <2>1, <2>2, BoundSteps DEF Quiet
  <1> QED
    BY <1>1, <1>2, CacheSteps

\* Every such step keeps everybody but the latest carrier unbound.
LEMMA CarrierOnlyKept ==
    ASSUME Good, [Next]_vars, Quiet'
    PROVE  CarrierOnly'
  <1> USE DEF Good
  <1>0. chain \in Seq(Op) /\ Len(chain) \in Nat
    BY Shape
  <1>1. CASE UNCHANGED chain
    <2>1. ASSUME NEW n \in 0..Len(chain)
          PROVE  Bound(n)' \subseteq Carriers(n)'
      BY <1>1 DEF QuietInv, CarrierOnly, Bound, Standing, Carriers
    <2> QED
      BY <1>1, <2>1 DEF CarrierOnly
  <1>2. ASSUME NEW o \in Op, chain' = Append(chain, o), o.act = "bind" => BoundNow \subseteq {o.account}
        PROVE  CarrierOnly'
    <2>0. PICK n \in Nat : n = Len(chain)
      BY <1>0
    <2>1. /\ Len(chain') = n + 1
          /\ \A k \in 0..n : Bound(k)' = Bound(k) /\ Carriers(k)' = Carriers(k)
          /\ Bound(n + 1)' \subseteq Bound(n) \cup {o.account}
          /\ o.act # "bind" => Bound(n + 1)' \subseteq Bound(n) /\ Carriers(n + 1)' = Carriers(n)
          /\ o.act = "bind" => Carriers(n + 1)' = {o.account}
      BY <1>0, <1>2, <2>0, ChainGrows
    <2>2. Bound(n) = BoundNow
      BY <2>0 DEF BoundNow
    <2>3. \A k \in 0..n : Bound(k) \subseteq Carriers(k)
      BY <2>0 DEF QuietInv, CarrierOnly
    <2> SUFFICES ASSUME NEW k \in 0..(n + 1)
                 PROVE  Bound(k)' \subseteq Carriers(k)'
      BY <2>1 DEF CarrierOnly
    <2>4. CASE k \in 0..n
      BY <2>1, <2>3, <2>4
    <2>5. CASE k = n + 1
      <3>1. n \in 0..n
        OBVIOUS
      <3>2. CASE o.act = "bind"
        BY <1>2, <2>1, <2>2, <2>5, <3>2
      <3>3. CASE o.act # "bind"
        BY <2>1, <2>3, <2>5, <3>1, <3>3
      <3> QED
        BY <3>2, <3>3
    <2> QED
      BY <2>4, <2>5
  <1>3. ASSUME NEW r \in Request, Land(r)
        PROVE  CarrierOnly'
    <2> DEFINE o == [act |-> "bind", account |-> Mine(r), by |-> r]
    <2>1. o \in Op /\ o.account = Mine(r)
      BY MineTyped DEF Op
    <2>2. chain' = Append(chain, o)
      BY <1>3 DEF Land
    <2>3. BoundNow \subseteq {Mine(r)}
      BY <1>3, LandsBinding DEF QuietInv, Passed
    <2> HIDE DEF o
    <2> QED
      BY <1>2, <2>1, <2>2, <2>3
  <1>4. ASSUME NEW o \in Op, chain' = Append(chain, o), o.act = "bind" => o.account \in BoundNow
        PROVE  CarrierOnly'
    <2>1. ASSUME o.account \in BoundNow, NEW b \in BoundNow
          PROVE  b = o.account
      <3>1. BoundNow \subseteq Carriers(Len(chain))
        BY <1>0 DEF QuietInv, CarrierOnly, BoundNow
      <3> QED
        BY <1>0, <2>1, <3>1, OneCarrier
    <2> QED
      BY <1>2, <1>4, <2>1
  <1>5. ASSUME Outside
        PROVE  CarrierOnly'
    BY <1>4, <1>5 DEF Outside, Quiet
  <1> QED
    BY <1>1, <1>3, <1>5, ChainSteps, Zenon

\* Every such step keeps who is bound since HAF's last block bound by a request.
LEMMA ShownKept ==
    ASSUME Good, [Next]_vars, Quiet'
    PROVE  Shown'
  <1> USE DEF Good
  <1>0. chain \in Seq(Op) /\ Len(chain) \in Nat
    BY Shape
  <1>1. CASE UNCHANGED chain
    <2>1. \A n \in 0..Len(chain) : Bound(n)' = Bound(n)
      BY <1>1 DEF Bound, Standing
    <2>2. BoundNow' = BoundNow
      BY <1>1 DEF BoundNow, Bound, Standing
    <2> QED
      BY <1>1, <2>1, <2>2 DEF QuietInv, Shown
  <1>2. ASSUME NEW o \in Op, chain' = Append(chain, o),
               o.act = "bind" => o.by \in Request \/ o.account \in BoundNow
        PROVE  Shown'
    <2>0. PICK n \in Nat : n = Len(chain)
      BY <1>0
    <2>1. /\ Len(chain') = n + 1
          /\ \A k \in 0..n : Bound(k)' = Bound(k)
          /\ Bound(n + 1)' \subseteq Bound(n) \cup {o.account}
          /\ o.act # "bind" => Bound(n + 1)' \subseteq Bound(n)
      BY <1>0, <1>2, <2>0, ChainGrows
    <2>2. \A i \in 1..n : chain'[i] = chain[i]
      BY <1>0, <1>2, <2>0, AppendKeeps
    <2>3. chain'[n + 1] = o
      BY <1>0, <1>2, <2>0, AppendKeeps
    <2>4. BoundNow = Bound(n)
      BY <2>0 DEF BoundNow
    <2>5. Bound(n + 1)' = BoundNow'
      <3>1. \A a : a \in Bound(n + 1)' <=> a \in BoundNow'
        BY <2>1 DEF BoundNow, Bound, Standing
      <3> QED
        BY <3>1
    <2> SUFFICES ASSUME NEW k \in 0..(n + 1), NEW a \in BoundNow', a \notin Bound(k)'
                 PROVE  \E i \in (k + 1)..(n + 1) :
                            chain'[i].act = "bind" /\ chain'[i].account = a /\ chain'[i].by \in Request
      BY <2>1 DEF Shown
    <2>6. k \in 0..n /\ a \notin Bound(k)
      <3>1. k # n + 1
        BY <2>5
      <3> QED
        BY <2>1, <3>1
    <2>7. CASE a \in BoundNow
      <3>1. PICK i \in (k + 1)..n :
                chain[i].act = "bind" /\ chain[i].account = a /\ chain[i].by \in Request
        BY <2>0, <2>6, <2>7 DEF QuietInv, Shown
      <3>2. i \in 1..n /\ i \in (k + 1)..(n + 1)
        BY <2>6
      <3> QED
        BY <2>2, <3>1, <3>2
    <2>8. CASE a \notin BoundNow
      <3>1. o.act = "bind" /\ o.account = a /\ o.by \in Request
        BY <1>2, <2>1, <2>4, <2>5, <2>8
      <3>2. n + 1 \in (k + 1)..(n + 1)
        BY <2>6
      <3> QED
        BY <2>3, <3>1, <3>2
    <2> QED
      BY <2>7, <2>8
  <1>3. ASSUME NEW r \in Request, Land(r)
        PROVE  Shown'
    <2> DEFINE o == [act |-> "bind", account |-> Mine(r), by |-> r]
    <2>1. o \in Op /\ o.by \in Request
      BY MineTyped DEF Op
    <2>2. chain' = Append(chain, o)
      BY <1>3 DEF Land
    <2> HIDE DEF o
    <2> QED
      BY <1>2, <2>1, <2>2
  <1>4. ASSUME Outside
        PROVE  Shown'
    BY <1>2, <1>4 DEF Outside, Quiet
  <1> QED
    BY <1>1, <1>3, <1>4, ChainSteps, Zenon

(***************************************************************************)
(* The theorems.                                                           *)
(***************************************************************************)

\* The invariant holds of an empty chain with nobody asking.
LEMMA InitHolds == Init => IInv
  <1> SUFFICES ASSUME Init
               PROVE  IInv
    OBVIOUS
  <1>0. chain = <<>> /\ Len(chain) = 0 /\ indexed = 0 /\ chain \in Seq(Op)
    BY DEF Init
  <1>1. TypeOK
    <2>1. lock \in [by : Request \cup {None}, ttl : 0..HAF_LAG] /\ (lock.by = None <=> lock.ttl = 0)
      BY Timers DEF Init, NoLock
    <2>2. /\ cache \in [account : Account \cup {None}, ttl : 0..HAF_LAG]
          /\ (cache.account = None <=> cache.ttl = 0)
      BY Timers DEF Init, NoCache
    <2>3. /\ plan \in Plans /\ pc \in [Request -> Stage] /\ found \in [Request -> Account \cup {None}]
          /\ flight \in [Request -> {"none", "flying", "landed", "void"}]
      BY DEF Init, Stage
    <2>4. /\ timer \in [Request -> Nat] /\ window \in [Request -> 0..HAF_LAG]
      BY Timers DEF Init
    <2>5. /\ alone = {} /\ early = {} /\ late = {} /\ faults = {}
          /\ edit = {} /\ carried = {}
      BY DEF Init
    <2> QED
      BY <1>0, <2>1, <2>2, <2>3, <2>4, <2>5 DEF TypeOK
  <1>2. \A r \in Request : pc[r] = "idle" /\ flight[r] = "none" /\ window[r] = 0
    BY DEF Init
  <1>3. Fresh /\ OpsOwned /\ FaultsTold /\ Holder /\ Shield /\ Checked /\ LastOne
    BY <1>0, <1>2 DEF Init, Fresh, OpsOwned, FaultsTold, Holder, Shield, Checked, LastOne, Under, Checking
  <1>3a. Margin
    <2>1. lock.by = None /\ late = {} /\ None \notin Request
      BY NoneAssumption DEF Init, NoLock
    <2> QED
      BY <1>2, <2>1 DEF Margin, OnlyProbesLapse
  <1>4. \A n \in 0..Len(chain) : Bound(n) = {}
    BY <1>0 DEF Bound, Standing
  <1>5. \A r \in Request : ~Unsettled(r) /\ ~Binding(r) /\ ~Sure(r) /\ ~Trusted(r)
    BY <1>0, <1>2 DEF Unsettled, Binding, Sure, Trusted, Under
  <1>6. cache.account = None
    BY DEF Init, NoCache
  <1>7. QuietInv
    <2>1. BoundNow = {}
      BY <1>0, <1>4 DEF BoundNow
    <2> QED
      BY <1>2, <1>4, <1>5, <1>6, <2>1
         DEF QuietInv, Covered, Agreed, Found, Passed, CacheTrue, CarrierOnly, Shown
  <1> QED
    BY <1>1, <1>3, <1>3a, <1>7 DEF IInv

\* Each step keeps the invariant.
LEMMA NextKeeps == IInv /\ [Next]_vars => IInv'
  <1> SUFFICES ASSUME IInv, [Next]_vars
               PROVE  IInv'
    OBVIOUS
  <1> USE DEF IInv
  <1>1. (TypeOK /\ Fresh /\ OpsOwned /\ FaultsTold /\ Holder /\ Margin /\ Shield /\ Checked /\ LastOne)'
    BY Typing, FreshKept, OpsKept, FaultsToldKept, HolderKept, MarginKept, ShieldKept, CheckedKept, LastOneKept
  <1>2. ASSUME Quiet'
        PROVE  QuietInv'
    <2>1. Good
      BY <1>2, QuietBack DEF Good
    <2> QED
      BY <1>2, <2>1, CoveredKept, AgreedKept, FoundKept, CacheTrueKept, CarrierOnlyKept, ShownKept
         DEF QuietInv
  <1> QED
    BY <1>1, <1>2

\* The inductive invariant behind the theorems: whatever requests, node, HAF, Redis and the
\* clock do, in any order.
THEOREM Invariance == Spec => []IInv
  <1>1. IInv /\ [Next]_vars => IInv'
    BY NextKeeps
  <1> QED
    BY InitHolds, <1>1, PTL DEF Spec

\* Every variable stays in its type.
THEOREM Typed == Spec => []TypeOK
  <1>1. IInv => TypeOK
    BY DEF IInv
  <1> QED
    BY Invariance, <1>1, PTL

\* acquireBindingLock and extendBindingLockOnTimeoutOrLog: the lock keeps those who hold it apart,
\* outlasts a timeout until HAF must show what became of the transaction, and is lost by its age to
\* the probe of a resumed finalize only.
THEOREM Locked == Spec => []LockHolds
  <1>1. IInv => LockHolds
    <2> SUFFICES ASSUME IInv
                 PROVE  LockHolds
      OBVIOUS
    <2>1. LockedBroadcastsAlone
      BY DEF IInv, Holder, LockedBroadcastsAlone
    <2>2. UnsureShields
      <3> SUFFICES ASSUME NEW r \in Request \ alone, NEW s \in Request \ (alone \cup late),
                          pc[r] = "unsure", window[r] > 0, Unsettled(r), r # s, pc[s] \in Under,
                          "eviction" \notin faults, "notExtended" \notin faults
                   PROVE  FALSE
        BY DEF UnsureShields
      <3> QED
        BY DEF IInv, Holder, Shield
    <2>3. OnlyProbesLapse
      BY DEF IInv, Margin
    <2> QED
      BY <2>1, <2>2, <2>3 DEF LockHolds
  <1> QED
    BY Invariance, <1>1, PTL

\* orcid-binding.ts: without a fault, and unless a request whose check another account's bind ran
\* into goes on, one outlives its lock, or an edit carries an ORCID over that the account has lost
\* meanwhile, the ORCID is never bound to two accounts.
THEOREM OneBound == Spec => []OneAccount
  <1>1. IInv => OneAccount
    <2> SUFFICES ASSUME IInv, Quiet
                 PROVE  ~(Cardinality(Bound(Len(chain))) > 1)
      BY DEF OneAccount, Quiet
    <2>0. Len(chain) \in Nat
      BY Shape DEF IInv
    <2>1. Bound(Len(chain)) \subseteq Carriers(Len(chain))
      BY <2>0 DEF IInv, QuietInv, CarrierOnly
    <2> DEFINE B == Bound(Len(chain))
    <2>2. \A a, b \in B : a = b
      BY <2>0, <2>1, OneCarrier
    <2> HIDE DEF B
    <2>3. Cardinality(B) \in {0, 1}
      <3>1. CASE B = {}
        BY <3>1, FS_EmptySet
      <3>2. ASSUME NEW a \in B
            PROVE  Cardinality(B) = 1
        <4>1. B = {a}
          BY <2>2, <3>2
        <4> QED
          BY <4>1, FS_Singleton
      <3> QED
        BY <3>1, <3>2
    <2> QED
      BY <2>3 DEF B
  <1> QED
    BY Invariance, <1>1, PTL

=============================================================================
