----------------------------- MODULE BridgeQueue -----------------------------
(***************************************************************************)
(* The bridge import queue: POST /bridge/register (routes/bridge.ts) and   *)
(* its enqueue transaction (bridge-queue.ts), the worker that leases one   *)
(* entry per chain cooldown and broadcasts it (bridge-worker.ts), and what *)
(* it depends on: Postgres writes that fail or fail after committing, a    *)
(* broadcast whose outcome is unknown, a node's word that is not a block,  *)
(* HAF behind the chain, and restarts.                                     *)
(*                                                                         *)
(* Timestamps are kept as the ticks left until they pass.  A tick is 15 s, *)
(* the smallest backoff (30 * 2^(attempts - 1) seconds at 0 attempts).     *)
(***************************************************************************)
EXTENDS Naturals, FiniteSets

CONSTANTS
    Request,                    \* /register requests; one that gets a row is
                                \* numbered as its row is, so it needs no other id
    User, Permlink,             \* who submits each, and for which preprint
    Submissions,                \* the assignments of both to the requests
    BRIDGE_QUEUE_USER_CAP,
    BRIDGE_QUEUE_MAX_ATTEMPTS,
    BRIDGE_CHAIN_COOLDOWN,      \* ticks
    BRIDGE_QUEUE_LEASE,         \* ticks
    TX_EXPIRY                   \* ticks a transaction sent may still reach a block

ASSUME RequestAssumption ==
    /\ IsFiniteSet(Request) /\ Request \subseteq Nat
    /\ Submissions \subseteq [Request -> [user : User, permlink : Permlink]]
ASSUME QueueAssumption ==
    /\ BRIDGE_QUEUE_USER_CAP \in Nat \ {0}
    /\ BRIDGE_QUEUE_MAX_ATTEMPTS \in Nat
    /\ BRIDGE_CHAIN_COOLDOWN \in Nat \ {0}
    /\ BRIDGE_QUEUE_LEASE \in Nat \ {0}
    /\ TX_EXPIRY \in Nat \ {0}

VARIABLES
    submission, \* what each request asks for
    rpc,        \* where each request stands
    state,      \* of its row; "none" before the insert and after the purge
    attempts,
    wait,       \* scheduled_at
    lease,      \* lease_expires_at
    done,       \* completed_at + BRIDGE_CHAIN_COOLDOWN_MS; no other row's is read
    txid,       \* rows with a tx_id
    ahead,      \* pairs of active rows, as ORDER BY scheduled_at, id has them
    revived,    \* history: active rows that were put back after their completion
    stage,      \* how far the worker's dispatch of a row has come
    cool,       \* lastBroadcastMs + BRIDGE_CHAIN_COOLDOWN_MS
    posted,     \* permlinks the bridge account has posted
    seen,       \* those HAF has indexed
    out,        \* of each row's signed transaction: until when it may reach a block
    landed,     \* rows being sent whose transaction has
    taken,      \* history: rows whose transaction a node said it took
    latest,     \* history, while chainCool runs: the row behind that root post
    chainCool,  \* the chain's own root-post interval for the bridge account
    known,      \* history: rows the gate was closed for whose transaction is out
    missed,     \* history, while chainCool runs: the process cannot know of it
    calm        \* from here on the database, the sources and the process hold

requestVars == <<submission, rpc>>
rowVars == <<state, attempts, wait, lease, done, txid, ahead, revived>>
workerVars == <<stage, cool>>
chainVars == <<posted, seen, out, landed, taken, latest, chainCool>>
gateVars == <<known, missed>>
vars == <<requestVars, rowVars, workerVars, chainVars, gateVars, calm>>

Terminal == {"completed", "failed"}
Stage == {"none", "looking", "sending", "counting", "recording", "reconciling"}

TypeOK ==
    /\ submission \in Submissions
    /\ rpc \in [Request -> {"idle", "passed", "counted", "enqueued", "refused"}]
    /\ state \in [Request -> {"none", "pending", "in_progress"} \cup Terminal]
    /\ attempts \in [Request -> 0..(BRIDGE_QUEUE_MAX_ATTEMPTS + 1)]
    /\ wait \in [Request -> Nat]
    /\ lease \in [Request -> 0..BRIDGE_QUEUE_LEASE]
    /\ done \in [Request -> 0..BRIDGE_CHAIN_COOLDOWN]
    /\ txid \subseteq Request
    /\ ahead \subseteq Request \X Request
    /\ revived \subseteq Request
    /\ stage \in [Request -> Stage]
    /\ {cool, chainCool} \subseteq 0..BRIDGE_CHAIN_COOLDOWN
    /\ seen \subseteq posted /\ posted \subseteq Permlink
    /\ out \in [Request -> 0..TX_EXPIRY]
    /\ landed \subseteq Request /\ taken \subseteq Request
    /\ latest \subseteq Request /\ known \subseteq Request
    /\ {missed, calm} \subseteq BOOLEAN

Init ==
    /\ submission \in Submissions
    /\ rpc = [r \in Request |-> "idle"]
    /\ state = [r \in Request |-> "none"]
    /\ attempts = [r \in Request |-> 0]
    /\ wait = [r \in Request |-> 0]
    /\ lease = [r \in Request |-> 0]
    /\ done = [r \in Request |-> 0]
    /\ txid = {} /\ ahead = {} /\ revived = {}
    /\ stage = [r \in Request |-> "none"]
    /\ cool = 0 /\ chainCool = 0
    /\ posted = {} /\ seen = {}
    /\ out = [r \in Request |-> 0]
    /\ landed = {} /\ taken = {} /\ latest = {} /\ known = {}
    /\ missed = FALSE /\ calm = FALSE

UserOf(r) == submission[r].user
PermlinkOf(r) == submission[r].permlink

Active(i) == state[i] \in {"pending", "in_progress"}
ActiveOf(user) == {i \in Request : Active(i) /\ UserOf(i) = user}
\* Rows the partial unique index on permlink would collide with.
Rivals(i) == {j \in Request \ {i} : Active(j) /\ PermlinkOf(j) = PermlinkOf(i)}

------------------------------------------------------------------------------
(* POST /register.  The duplicate check reads HAF, or a result cached up to  *)
(* 30 s earlier: either way it is some earlier moment's answer by the time   *)
(* the transaction runs.  The Redis lock around both is left out: the route  *)
(* goes on without it when Redis is away, so every behaviour it allows is    *)
(* one of these.                                                             *)

Check(r) ==
    /\ rpc[r] = "idle"
    /\ rpc' = [rpc EXCEPT ![r] =
                 IF PermlinkOf(r) \in seen THEN "refused" ELSE "passed"]
    /\ UNCHANGED <<submission, rowVars, workerVars, chainVars, gateVars, calm>>

\* The transaction up to its two reads, without the advisory lock.
Begin_Unlocked(r) ==
    /\ rpc[r] = "passed"
    /\ rpc' = [rpc EXCEPT ![r] =
                 IF \/ Rivals(r) # {}
                    \/ Cardinality(ActiveOf(UserOf(r))) >= BRIDGE_QUEUE_USER_CAP
                 THEN "refused" ELSE "counted"]
    /\ UNCHANGED <<submission, rowVars, workerVars, chainVars, gateVars, calm>>

\* BEGIN, the user's advisory lock, the duplicate and the cap queries.
Begin(r) ==
    /\ rpc[r] = "passed"
    /\ \A q \in Request : rpc[q] = "counted" => UserOf(q) # UserOf(r)
    /\ rpc' = [rpc EXCEPT ![r] =
                 IF \/ Rivals(r) # {}
                    \/ Cardinality(ActiveOf(UserOf(r))) >= BRIDGE_QUEUE_USER_CAP
                 THEN "refused" ELSE "counted"]
    /\ UNCHANGED <<submission, rowVars, workerVars, chainVars, gateVars, calm>>

\* The order without row i, and with it behind exactly the active rows given.
Without(i) == {p \in ahead : i \notin {p[1], p[2]}}

Placed(i, before) ==
    LET others == {j \in Request \ {i} : Active(j)}
    IN  Without(i) \cup ((before \ {i}) \X {i}) \cup ({i} \X (others \ before))

\* The next of the BIGSERIAL ids is r's; it is scheduled now, behind what is due.
NewRow(r) ==
    /\ \A q \in Request : q < r => rpc[q] = "enqueued"
    /\ rpc' = [rpc EXCEPT ![r] = "enqueued"]
    /\ state' = [state EXCEPT ![r] = "pending"]
    /\ ahead' = Placed(r, {j \in Request : Active(j) /\ wait[j] = 0})
    /\ UNCHANGED <<submission, attempts, wait, lease, done, txid, revived, workerVars,
                   chainVars, gateVars, calm>>

\* INSERT and COMMIT.  The unique index sees what committed since the reads.
Insert(r) ==
    /\ rpc[r] = "counted"
    /\ Rivals(r) = {}
    /\ NewRow(r)

\* Redis says held, HAF or the database fails, or the index refuses the row.
Refuse(r) ==
    /\ \/ rpc[r] \in {"idle", "passed", "counted"} /\ ~calm
       \/ rpc[r] = "counted" /\ Rivals(r) # {}
    /\ rpc' = [rpc EXCEPT ![r] = "refused"]
    /\ UNCHANGED <<submission, rowVars, workerVars, chainVars, gateVars, calm>>

Register(r) == Check(r) \/ Begin(r) \/ Insert(r)

------------------------------------------------------------------------------
(* The row updates of bridge-queue.ts.  All are WHERE id = $1: none looks at *)
(* the state it overwrites.                                                  *)

\* markCompleted, markCompletedExisting, markFailed
Finish(i, outcome) ==
    /\ state' = [state EXCEPT ![i] = outcome]
    /\ wait' = [wait EXCEPT ![i] = 0]
    /\ lease' = [lease EXCEPT ![i] = 0]
    /\ done' = [done EXCEPT ![i] = IF outcome = "completed" THEN BRIDGE_CHAIN_COOLDOWN ELSE 0]
    /\ ahead' = Without(i)
    /\ revived' = revived \ {i}

Backoff(n) == 2 ^ n

\* Powers of two are naturals, which the provers are told.
ASSUME BackoffAssumption ==
    \A n \in 0..BRIDGE_QUEUE_MAX_ATTEMPTS : Backoff(n) \in Nat

\* rescheduleForRetry's second UPDATE: tx_id stays, and completed_at until a completion
\* writes it again.  The index can refuse a revived row.
Reschedule(i, n) ==
    /\ Rivals(i) = {}
    /\ state' = [state EXCEPT ![i] = "pending"]
    /\ wait' = [wait EXCEPT ![i] = Backoff(n)]
    /\ lease' = [lease EXCEPT ![i] = 0]
    /\ ahead' = Placed(i, {j \in Request : /\ Active(j)
                                           /\ \/ wait[j] < Backoff(n)
                                              \/ wait[j] = Backoff(n) /\ j < i})
    /\ revived' = IF Active(i) THEN revived ELSE revived \cup {i}
    /\ done' = [done EXCEPT ![i] = 0]

To(i, s) == stage' = [stage EXCEPT ![i] = s]

------------------------------------------------------------------------------
(* runWorkerTick and dispatchEntry, split at the awaits whose order matters. *)

\* A crashed worker's entry is never leased again.
Due_PendingOnly(i) == state[i] = "pending" /\ wait[i] = 0

Due(i) ==
    \/ state[i] = "pending" /\ wait[i] = 0
    \/ state[i] = "in_progress" /\ lease[i] = 0

TickInFlight == \E i \in Request : stage[i] # "none"

LeaseFirst ==
    /\ cool = 0
    /\ \E i \in Request :
         /\ Due(i)
         /\ \A j \in Request : Due(j) => <<j, i>> \notin ahead
         /\ state' = [state EXCEPT ![i] = "in_progress"]
         /\ lease' = [lease EXCEPT ![i] = BRIDGE_QUEUE_LEASE]
         /\ To(i, "looking")
    /\ UNCHANGED <<requestVars, attempts, wait, done, txid, ahead, revived, cool, chainVars,
                   gateVars, calm>>

\* No re-entrancy guard: a slow tick stacks a second one.
Lease_Reentrant == LeaseFirst

Lease == ~TickInFlight /\ LeaseFirst

\* Identifier or preprint gone, or no posting key: markFailed and return.
Unresolvable(i) ==
    /\ stage[i] = "looking"
    /\ Finish(i, "failed")
    /\ To(i, "none")
    /\ UNCHANGED <<requestVars, attempts, txid, cool, chainVars, gateVars, calm>>

FoundOnChain(i) ==
    /\ stage[i] = "looking"
    /\ PermlinkOf(i) \in seen
    /\ Finish(i, "completed")
    /\ To(i, "none")
    /\ UNCHANGED <<requestVars, attempts, txid, cool, chainVars, gateVars, calm>>

\* Metadata source or HAF unavailable: retried without spending an attempt.
SourceDown(i) ==
    /\ stage[i] = "looking" /\ ~calm
    /\ Reschedule(i, attempts[i])
    /\ To(i, "none")
    /\ UNCHANGED <<requestVars, attempts, txid, cool, chainVars, gateVars, calm>>

\* No await between the duplicate check's answer and the broadcast.
Send(i) ==
    /\ stage[i] = "looking"
    /\ PermlinkOf(i) \notin seen
    /\ To(i, "sending")
    /\ out' = [out EXCEPT ![i] = TX_EXPIRY]
    /\ known' = known \ {i}
    /\ UNCHANGED <<requestVars, rowVars, cool, posted, seen, landed, taken, latest,
                   chainCool, missed, calm>>

\* lastBroadcastMs = Date.now()
CloseGate(i) ==
    /\ cool' = BRIDGE_CHAIN_COOLDOWN /\ missed' = FALSE
    /\ known' = IF out[i] > 0 THEN known \cup {i} ELSE known

\* The broadcast's promise settles.
Settle(i, s) ==
    /\ To(i, s)
    /\ landed' = landed \ {i}
    /\ UNCHANGED <<posted, seen, out, latest, chainCool>>

\* broadcast_transaction answers once a node has taken the transaction; no block need
\* hold it yet, nor ever.
ReplyOk(i) ==
    /\ stage[i] = "sending" /\ (out[i] > 0 \/ i \in landed)
    /\ CloseGate(i)
    /\ Settle(i, "recording")
    /\ taken' = taken \cup {i}
    /\ UNCHANGED <<requestVars, rowVars, calm>>

\* Any other error: refused by the chain, or the reply lost on the way.
ReplyError(i) ==
    /\ stage[i] = "sending"
    /\ Settle(i, "counting")
    /\ missed' = (missed \/ i \in landed \cap latest)
    /\ UNCHANGED <<requestVars, rowVars, cool, taken, known, calm>>

\* A timed-out broadcast taken for a completed one.
ReplyTimeout_AsOk(i) ==
    /\ stage[i] = "sending"
    /\ CloseGate(i)
    /\ Settle(i, "recording")
    /\ UNCHANGED <<requestVars, rowVars, taken, calm>>

\* Only a confirmed broadcast closes the gate.
ReplyTimeout_GateOpen(i) ==
    /\ stage[i] = "sending"
    /\ Settle(i, "counting")
    /\ UNCHANGED <<requestVars, rowVars, cool, taken, gateVars, calm>>

ReplyTimeout(i) ==
    /\ stage[i] = "sending"
    /\ CloseGate(i)
    /\ Settle(i, "counting")
    /\ UNCHANGED <<requestVars, rowVars, taken, calm>>

\* rescheduleForRetry with incrementAttempts
CountAttempt(i) ==
    /\ stage[i] = "counting"
    /\ attempts' = [attempts EXCEPT ![i] = attempts[i] + 1]
    /\ IF attempts[i] + 1 > BRIDGE_QUEUE_MAX_ATTEMPTS
         THEN Finish(i, "failed")
         ELSE Reschedule(i, attempts[i] + 1)
    /\ To(i, "none")
    /\ UNCHANGED <<requestVars, txid, cool, chainVars, gateVars, calm>>

Record(i) ==
    /\ stage[i] = "recording"
    /\ Finish(i, "completed")
    /\ txid' = txid \cup {i}
    /\ To(i, "none")
    /\ UNCHANGED <<requestVars, attempts, cool, chainVars, gateVars, calm>>

\* markCompleted throws: before its UPDATE ran, or after it committed.
RecordThrows(i) ==
    /\ stage[i] = "recording" /\ ~calm
    /\ \/ UNCHANGED <<state, wait, lease, done, txid, ahead, revived>>
       \/ Finish(i, "completed") /\ txid' = txid \cup {i}
    /\ To(i, "reconciling")
    /\ UNCHANGED <<requestVars, attempts, cool, chainVars, gateVars, calm>>

\* rescheduleForRetry without incrementAttempts, after COMPLETION_WRITE_FAILED
Reconcile(i) ==
    /\ stage[i] = "reconciling"
    /\ Reschedule(i, attempts[i])
    /\ To(i, "none")
    /\ UNCHANGED <<requestVars, attempts, txid, cool, chainVars, gateVars, calm>>

\* The dispatch's write throws (on a revived row the index always refuses it):
\* runWorkerTick swallows it and the row keeps its lease.
TickThrows(i) ==
    /\ \/ stage[i] \in {"looking", "counting", "reconciling"} /\ ~calm
       \/ stage[i] \in {"counting", "reconciling"} /\ Rivals(i) # {}
    /\ To(i, "none")
    /\ UNCHANGED <<requestVars, rowVars, cool, chainVars, gateVars, calm>>

\* purgeAgedTerminalEntries: 30 days on, every cooldown is long over and the
\* row's transaction has expired.
Purge(i) ==
    /\ state[i] \in Terminal /\ stage[i] = "none"
    /\ done[i] = 0 /\ out[i] = 0 /\ i \notin latest
    /\ state' = [state EXCEPT ![i] = "none"]
    /\ attempts' = [attempts EXCEPT ![i] = 0]
    /\ txid' = txid \ {i} /\ taken' = taken \ {i}
    /\ UNCHANGED <<requestVars, wait, lease, done, ahead, revived, workerVars,
                   posted, seen, out, landed, latest, chainCool, gateVars, calm>>

Dispatch(i) ==
    \/ Unresolvable(i) \/ FoundOnChain(i) \/ Send(i)
    \/ ReplyOk(i) \/ ReplyError(i) \/ ReplyTimeout(i)
    \/ CountAttempt(i) \/ Record(i) \/ Reconcile(i)
    \/ TickThrows(i) /\ Rivals(i) # {}

Worker == Lease \/ \E i \in Request : Dispatch(i)

------------------------------------------------------------------------------
(* The chain, HAF, time and the process.                                     *)

\* A new root post waits out the chain's interval; an edit does not.
Land(i) ==
    /\ out[i] > 0
    /\ out' = [out EXCEPT ![i] = 0]
    /\ known' = known \ {i}
    /\ landed' = IF stage[i] = "sending" THEN landed \cup {i} ELSE landed
    /\ IF PermlinkOf(i) \in posted
         THEN UNCHANGED <<posted, latest, chainCool, missed>>
         ELSE /\ chainCool = 0
              /\ posted' = posted \cup {PermlinkOf(i)}
              /\ latest' = {i}
              /\ chainCool' = BRIDGE_CHAIN_COOLDOWN
              /\ missed' = (stage[i] # "sending" /\ i \notin known)
    /\ UNCHANGED <<requestVars, rowVars, workerVars, seen, taken, calm>>

\* Refused by the node, never delivered, or left out by the blocks.
Drop(i) ==
    /\ out[i] > 0
    /\ out' = [out EXCEPT ![i] = 0]
    /\ known' = known \ {i}
    /\ UNCHANGED <<requestVars, rowVars, workerVars, posted, seen, landed, taken,
                   latest, chainCool, missed, calm>>

Index(p) ==
    /\ p \in posted \ seen
    /\ seen' = seen \cup {p}
    /\ UNCHANGED <<requestVars, rowVars, workerVars, posted, out, landed, taken, latest,
                   chainCool, gateVars, calm>>

Less(n) == IF n = 0 THEN 0 ELSE n - 1

Tick ==
    /\ \/ cool + chainCool > 0
       \/ \E i \in Request : wait[i] + lease[i] + done[i] + out[i] > 0
    /\ wait' = [i \in Request |-> Less(wait[i])]
    /\ lease' = [i \in Request |-> Less(lease[i])]
    /\ done' = [i \in Request |-> Less(done[i])]
    /\ out' = [i \in Request |-> Less(out[i])]
    /\ cool' = Less(cool) /\ chainCool' = Less(chainCool)
    /\ known' = {i \in known : out[i] > 1}
    /\ latest' = IF chainCool > 1 THEN latest ELSE {}
    /\ missed' = (missed /\ chainCool > 1)
    /\ UNCHANGED <<requestVars, state, attempts, txid, ahead, revived, stage, posted, seen,
                   landed, taken, calm>>

Die ==
    /\ ~calm
    /\ stage' = [i \in Request |-> "none"]
    /\ rpc' = [r \in Request |->
                 IF rpc[r] \in {"passed", "counted"} THEN "refused" ELSE rpc[r]]
    /\ landed' = {}
    /\ UNCHANGED <<submission, rowVars, posted, seen, out, taken, latest, chainCool, calm>>

\* getLastSuccessfulBroadcastAt reads state = 'completed' AND tx_id IS NOT NULL.
Recorded == {i \in Request : state[i] = "completed" /\ i \in txid}

\* startBridgeWorker seeds the gate from the newest of them.
Restart ==
    /\ Die
    /\ \E newest \in 0..BRIDGE_CHAIN_COOLDOWN :
         /\ \A i \in Recorded : done[i] <= newest
         /\ newest = 0 \/ \E i \in Recorded : done[i] = newest
         /\ cool' = newest
    /\ known' = {i \in Recorded : out[i] > 0}
    /\ missed' = (missed \/ ~(latest \subseteq Recorded))

\* The seed query fails: the gate starts open.
RestartUnseeded == Die /\ cool' = 0 /\ known' = {} /\ missed' = (chainCool > 0)

CalmDown ==
    /\ ~calm /\ calm' = TRUE
    /\ UNCHANGED <<requestVars, rowVars, workerVars, chainVars, gateVars>>

Next ==
    \/ \E r \in Request : Register(r) \/ Refuse(r)
    \/ Worker
    \/ \E i \in Request :
         SourceDown(i) \/ RecordThrows(i) \/ TickThrows(i) \/ Purge(i)
           \/ Land(i) \/ Drop(i)
    \/ \E p \in Permlink : Index(p)
    \/ Tick \/ Restart \/ RestartUnseeded \/ CalmDown

Spec == Init /\ [][Next]_vars

\* setInterval keeps ticking, and every step of a dispatch is bounded in time:
\* fetches and the broadcast carry timeouts.
FairSpec == Spec /\ WF_vars(Tick) /\ WF_vars(Worker)

------------------------------------------------------------------------------
(* What the queue promises.                                                  *)

\* BRIDGE_QUEUE_USER_CAP rows in flight per user: the advisory lock keeps the
\* count true until the insert.  The one way over it is a row whose completion
\* committed, lost its reply and was put back in the queue.
CapHolds ==
    \A r \in Request :
        Cardinality(ActiveOf(UserOf(r)) \ revived) <= BRIDGE_QUEUE_USER_CAP

\* The row updates are unguarded, so the dispatch alone must own its row: one
\* dispatch at a time, of a leased row nobody else has finished or requeued.
DispatchOwnsRow ==
    \A i \in Request : stage[i] # "none" =>
        /\ state[i] = "in_progress" \/ stage[i] = "reconciling"
        /\ \A j \in Request \ {i} : stage[j] = "none"

\* An import is reported completed only when its paper is on the chain or a node said it
\* took it: no timed-out, refused or abandoned broadcast is taken for one that was.  A
\* node's word is no block ("Broadcast landed", bridge-worker.ts): blocks may leave out what
\* it took, and the row stays completed.
CompletedIsTaken ==
    \A i \in Request : state[i] = "completed" => PermlinkOf(i) \in posted \/ i \in taken

\* Between broadcasts the worker's cooldown covers the chain's but for the time a
\* transaction may take to its block, except after a root post the process could not know
\* of: one that landed behind an error reply, or whose row a restart did not find completed
\* (startBridgeWorker's seed "closes the restart-bypass window" for completed rows only).
GateHolds ==
    (\A i \in Request : stage[i] # "sending") /\ ~missed => chainCool <= cool + TX_EXPIRY

\* Both limits on what users and the worker may start: rows per user, and posts in time.
LimitsHold == CapHolds /\ GateHolds

\* A row is written by its dispatch alone, and completed by it only with a paper posted or
\* taken for posting.
RowsSound == DispatchOwnsRow /\ CompletedIsTaken

\* Once the infrastructure holds, every queued import reaches its outcome,
\* those a dead worker had leased included: no restart, lost write, backoff or
\* re-lease loses or starves a row.
EveryImportEnds ==
    \A i \in Request : calm /\ Active(i) ~> state[i] \in Terminal

==============================================================================
