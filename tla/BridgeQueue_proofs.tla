------------------------- MODULE BridgeQueue_proofs -------------------------
(***************************************************************************)
(* Theorems about BridgeQueue, for every set of requests, cap, number of    *)
(* attempts, cooldown and lease.                                            *)
(***************************************************************************)
EXTENDS BridgeQueue, FiniteSetTheorems, TLAPS

USE DEF vars, requestVars, rowVars, workerVars, chainVars, gateVars

(***************************************************************************)
(* The inductive invariant.                                                *)
(***************************************************************************)

\* A request has a row only once it is enqueued.
RowsEnqueued == \A r \in Request : state[r] # "none" => rpc[r] = "enqueued"

\* Under the advisory lock one transaction of a user stands between its count and its
\* insert, and while it does the count leaves room for its row.
RoomKept ==
    \A r \in Request : rpc[r] = "counted" =>
        /\ Cardinality(ActiveOf(UserOf(r)) \ revived) < BRIDGE_QUEUE_USER_CAP
        /\ \A q \in Request \ {r} : rpc[q] = "counted" => UserOf(q) # UserOf(r)

\* Only a row that was given up has used more attempts than it has.
AttemptsLeft ==
    \A i \in Request : attempts[i] > BRIDGE_QUEUE_MAX_ATTEMPTS => state[i] = "failed"

\* A dispatch is left with a finished row only by a completion that committed and threw.
ReconciledRow ==
    \A i \in Request : stage[i] = "reconciling" => state[i] \in {"in_progress", "completed"}

\* What a dispatch takes for broadcast a node has taken.
SentIsTaken ==
    \A i \in Request : stage[i] \in {"recording", "reconciling"} => i \in taken

\* A transaction the gate was closed for reaches its block within TX_EXPIRY of the closing.
KnownCovered ==
    \A i \in known : cool + TX_EXPIRY >= BRIDGE_CHAIN_COOLDOWN + out[i]

\* So does one whose row is recorded as completed, of what a restart would seed.
RecordedCovers ==
    \A i \in Recorded :
        /\ out[i] > 0 => done[i] + TX_EXPIRY >= BRIDGE_CHAIN_COOLDOWN + out[i]
        /\ i \in latest => chainCool <= done[i] + TX_EXPIRY

\* The chain's interval runs from some row's root post.
IntervalHasRow == chainCool > 0 => latest # {}

\* While a broadcast is out, the gate covers the chain's interval or the post is its own.
SendCovered ==
    \A i \in Request :
        stage[i] = "sending" /\ ~missed => chainCool <= cool + TX_EXPIRY \/ i \in landed \cap latest

IInv ==
    /\ TypeOK /\ RowsEnqueued /\ AttemptsLeft /\ DispatchOwnsRow /\ ReconciledRow
    /\ CapHolds /\ RoomKept
    /\ CompletedIsTaken /\ SentIsTaken
    /\ GateHolds /\ KnownCovered /\ RecordedCovers /\ IntervalHasRow /\ SendCovered

(***************************************************************************)
(* Typing.                                                                 *)
(***************************************************************************)

\* What a timer that counts down becomes.
LEMMA LessBounds ==
    ASSUME NEW n \in Nat
    PROVE  Less(n) \in Nat /\ Less(n) <= n /\ (n > 0 => Less(n) = n - 1)
  BY DEF Less

\* The values the cooldowns of the gate and of the chain take.
LEMMA CooldownTyped ==
    /\ 0 \in 0..BRIDGE_CHAIN_COOLDOWN
    /\ BRIDGE_CHAIN_COOLDOWN \in 0..BRIDGE_CHAIN_COOLDOWN
    /\ \A n \in 0..BRIDGE_CHAIN_COOLDOWN : Less(n) \in 0..BRIDGE_CHAIN_COOLDOWN
    /\ 0 \in 0..TX_EXPIRY /\ TX_EXPIRY \in 0..TX_EXPIRY
    /\ \A n \in 0..TX_EXPIRY : Less(n) \in 0..TX_EXPIRY
  BY QueueAssumption DEF Less

\* A submission names a user and a permlink.
LEMMA SubmissionTyped ==
    ASSUME TypeOK, NEW i \in Request
    PROVE  UserOf(i) \in User /\ PermlinkOf(i) \in Permlink
  BY RequestAssumption DEF TypeOK, UserOf, PermlinkOf

\* The row updates keep the columns they write typed.
LEMMA FinishTyped ==
    ASSUME TypeOK, NEW i \in Request, NEW outcome \in Terminal, Finish(i, outcome)
    PROVE  (/\ state \in [Request -> {"none", "pending", "in_progress"} \cup Terminal]
            /\ wait \in [Request -> Nat]
            /\ lease \in [Request -> 0..BRIDGE_QUEUE_LEASE]
            /\ done \in [Request -> 0..BRIDGE_CHAIN_COOLDOWN]
            /\ ahead \subseteq Request \X Request
            /\ revived \subseteq Request)'
  BY QueueAssumption DEF TypeOK, Finish, Without, Terminal

\* A row put into the lease order keeps the order typed.
LEMMA PlacedTyped ==
    ASSUME TypeOK, NEW i \in Request, NEW before \in SUBSET Request
    PROVE  Placed(i, before) \subseteq Request \X Request
  BY DEF TypeOK, Placed, Without

\* A row put back keeps its columns typed; its backoff is a number of ticks.
LEMMA RescheduleTyped ==
    ASSUME TypeOK, NEW i \in Request, NEW n \in 0..BRIDGE_QUEUE_MAX_ATTEMPTS,
           Reschedule(i, n)
    PROVE  (/\ state \in [Request -> {"none", "pending", "in_progress"} \cup Terminal]
            /\ wait \in [Request -> Nat]
            /\ lease \in [Request -> 0..BRIDGE_QUEUE_LEASE]
            /\ done \in [Request -> 0..BRIDGE_CHAIN_COOLDOWN]
            /\ ahead \subseteq Request \X Request
            /\ revived \subseteq Request)'
  <1>1. ahead' \subseteq Request \X Request
    BY PlacedTyped DEF Reschedule
  <1>2. wait' \in [Request -> Nat]
    BY BackoffAssumption DEF Reschedule, TypeOK
  <1> QED
    BY <1>1, <1>2, QueueAssumption DEF TypeOK, Reschedule

\* A dispatched row has attempts left.
LEMMA DispatchedHasAttempts ==
    ASSUME TypeOK, AttemptsLeft, DispatchOwnsRow, ReconciledRow,
           NEW i \in Request, stage[i] # "none"
    PROVE  attempts[i] \in 0..BRIDGE_QUEUE_MAX_ATTEMPTS
  BY QueueAssumption DEF TypeOK, AttemptsLeft, DispatchOwnsRow, ReconciledRow

\* Every step keeps every variable in its type.
LEMMA Typing ==
    ASSUME TypeOK, AttemptsLeft, DispatchOwnsRow, ReconciledRow, [Next]_vars
    PROVE  TypeOK'
  <1> USE DEF TypeOK
  <1>1. ASSUME NEW r \in Request, Check(r) \/ Begin(r) \/ Refuse(r)
        PROVE  TypeOK'
    BY <1>1 DEF Check, Begin, Refuse
  <1>2. ASSUME NEW r \in Request, Insert(r)
        PROVE  TypeOK'
    <2>1. ahead' \subseteq Request \X Request
      BY <1>2, PlacedTyped DEF Insert, NewRow
    <2> QED
      BY <1>2, <2>1 DEF Insert, NewRow
  <1>3. ASSUME Lease
        PROVE  TypeOK'
    BY <1>3, QueueAssumption DEF Lease, LeaseFirst, To, Stage
  <1>4. ASSUME NEW i \in Request, Unresolvable(i) \/ FoundOnChain(i) \/ Record(i)
        PROVE  TypeOK'
    <2>1. \E outcome \in Terminal : Finish(i, outcome)
      BY <1>4 DEF Unresolvable, FoundOnChain, Record, Terminal
    <2> QED
      BY <1>4, <2>1, FinishTyped, CooldownTyped
      DEF Unresolvable, FoundOnChain, Record, To, Stage
  <1>5. ASSUME NEW i \in Request, SourceDown(i) \/ Reconcile(i)
        PROVE  TypeOK'
    <2>1. attempts[i] \in 0..BRIDGE_QUEUE_MAX_ATTEMPTS /\ Reschedule(i, attempts[i])
      BY <1>5, DispatchedHasAttempts DEF SourceDown, Reconcile
    <2> QED
      BY <1>5, <2>1, RescheduleTyped DEF SourceDown, Reconcile, To, Stage
  <1>6. ASSUME NEW i \in Request, CountAttempt(i)
        PROVE  TypeOK'
    <2>1. attempts[i] \in 0..BRIDGE_QUEUE_MAX_ATTEMPTS
      BY <1>6, DispatchedHasAttempts DEF CountAttempt
    <2>2. attempts' \in [Request -> 0..(BRIDGE_QUEUE_MAX_ATTEMPTS + 1)]
      BY <1>6, <2>1, QueueAssumption DEF CountAttempt
    <2>3. CASE attempts[i] + 1 > BRIDGE_QUEUE_MAX_ATTEMPTS
      <3>1. Finish(i, "failed")
        BY <1>6, <2>3 DEF CountAttempt
      <3> QED
        BY <1>6, <2>2, <3>1, FinishTyped DEF CountAttempt, To, Stage, Terminal
    <2>4. CASE ~(attempts[i] + 1 > BRIDGE_QUEUE_MAX_ATTEMPTS)
      <3>1. attempts[i] + 1 \in 0..BRIDGE_QUEUE_MAX_ATTEMPTS /\ Reschedule(i, attempts[i] + 1)
        BY <1>6, <2>1, <2>4, QueueAssumption DEF CountAttempt
      <3> QED
        BY <1>6, <2>2, <3>1, RescheduleTyped DEF CountAttempt, To, Stage
    <2> QED
      BY <2>3, <2>4
  <1>7. ASSUME NEW i \in Request, RecordThrows(i)
        PROVE  TypeOK'
    <2>1. CASE UNCHANGED <<state, wait, lease, done, txid, ahead, revived>>
      BY <1>7, <2>1 DEF RecordThrows, To, Stage
    <2>2. CASE Finish(i, "completed") /\ txid' = txid \cup {i}
      BY <1>7, <2>2, FinishTyped, CooldownTyped DEF RecordThrows, To, Stage, Terminal
    <2> QED
      BY <1>7, <2>1, <2>2 DEF RecordThrows
  <1>8. ASSUME NEW i \in Request, Send(i) \/ ReplyOk(i) \/ ReplyError(i) \/ ReplyTimeout(i)
        PROVE  TypeOK'
    <2>1. CASE Send(i)
      BY <2>1, CooldownTyped DEF Send, To, Stage
    <2>2. CASE ReplyOk(i)
      BY <2>2, CooldownTyped DEF ReplyOk, Settle, CloseGate, To, Stage
    <2>3. CASE ReplyError(i)
      <3>1. missed' \in BOOLEAN
        BY <2>3 DEF ReplyError
      <3> QED
        BY <2>3, <3>1 DEF ReplyError, Settle, To, Stage
    <2>4. CASE ReplyTimeout(i)
      BY <2>4, CooldownTyped DEF ReplyTimeout, Settle, CloseGate, To, Stage
    <2> QED
      BY <1>8, <2>1, <2>2, <2>3, <2>4
  <1>9. ASSUME NEW i \in Request, TickThrows(i) \/ Purge(i)
        PROVE  TypeOK'
    BY <1>9, QueueAssumption DEF TickThrows, Purge, To, Stage
  <1>10. ASSUME NEW i \in Request, Land(i) \/ Drop(i)
        PROVE  TypeOK'
    <2>1. latest' \subseteq Request /\ known' \subseteq Request /\ landed' \subseteq Request
      BY <1>10 DEF Land, Drop
    <2>0. missed' \in BOOLEAN
      BY <1>10 DEF Land, Drop
    <2>3. out' \in [Request -> 0..TX_EXPIRY]
      BY <1>10, CooldownTyped DEF Land, Drop
    <2>2. posted' \subseteq Permlink /\ seen' \subseteq posted' /\ chainCool' \in 0..BRIDGE_CHAIN_COOLDOWN
      BY <1>10, SubmissionTyped, CooldownTyped DEF Land, Drop
    <2> QED
      BY <1>10, <2>0, <2>1, <2>2, <2>3 DEF Land, Drop
  <1>11. ASSUME NEW p \in Permlink, Index(p)
        PROVE  TypeOK'
    BY <1>11 DEF Index
  <1>12. ASSUME Tick
        PROVE  TypeOK'
    <2>1. wait' \in [Request -> Nat] /\ lease' \in [Request -> 0..BRIDGE_QUEUE_LEASE]
      BY <1>12, QueueAssumption DEF Tick, Less
    <2>2. done' \in [Request -> 0..BRIDGE_CHAIN_COOLDOWN] /\ out' \in [Request -> 0..TX_EXPIRY]
      BY <1>12, CooldownTyped DEF Tick
    <2>3. latest' \subseteq Request /\ known' \subseteq Request
      BY <1>12 DEF Tick
    <2> QED
      BY <1>12, <2>1, <2>2, <2>3, CooldownTyped DEF Tick
  <1>13. ASSUME Restart \/ RestartUnseeded
        PROVE  TypeOK'
    <2>1. missed' \in BOOLEAN
      <3>1. CASE missed' = (missed \/ ~(latest \subseteq Recorded))
        BY <3>1
      <3>2. CASE missed' = (chainCool > 0)
        BY <3>2
      <3> QED
        BY <1>13, <3>1, <3>2 DEF Restart, RestartUnseeded
    <2>2. cool' \in 0..BRIDGE_CHAIN_COOLDOWN
      BY <1>13, CooldownTyped DEF Restart, RestartUnseeded
    <2>3. known' \subseteq Request
      BY <1>13 DEF Restart, RestartUnseeded, Recorded
    <2> QED
      BY <1>13, <2>1, <2>2, <2>3 DEF Restart, RestartUnseeded, Die, Stage
  <1>14. ASSUME CalmDown \/ UNCHANGED vars
        PROVE  TypeOK'
    BY <1>14 DEF CalmDown
  <1> QED
    BY <1>1, <1>2, <1>3, <1>4, <1>5, <1>6, <1>7, <1>8, <1>9, <1>10, <1>11, <1>12,
       <1>13, <1>14
    DEF Next, Register, Worker, Dispatch

(***************************************************************************)
(* A dispatch owns its row.                                                *)
(***************************************************************************)

\* The steps that end a dispatch.
LEMMA EndsDispatch ==
    ASSUME TypeOK, DispatchOwnsRow, NEW i \in Request, stage[i] # "none", To(i, "none")
    PROVE  \A j \in Request : stage'[j] = "none"
  BY DEF TypeOK, DispatchOwnsRow, To

\* Every step keeps the row and its dispatch in step: only Lease hands a row out, and only
\* while no dispatch runs.
LEMMA RowsKept ==
    ASSUME TypeOK, RowsEnqueued, AttemptsLeft, DispatchOwnsRow, ReconciledRow, [Next]_vars
    PROVE  RowsEnqueued' /\ AttemptsLeft' /\ DispatchOwnsRow' /\ ReconciledRow'
  <1> USE DEF TypeOK, RowsEnqueued, AttemptsLeft, DispatchOwnsRow, ReconciledRow
  <1> DEFINE Goal == RowsEnqueued' /\ AttemptsLeft' /\ DispatchOwnsRow' /\ ReconciledRow'
  <1>1. ASSUME NEW r \in Request, Check(r) \/ Begin(r) \/ Refuse(r)
        PROVE  Goal
    BY <1>1 DEF Check, Begin, Refuse
  <1>2. ASSUME NEW r \in Request, Insert(r)
        PROVE  Goal
    <2>1. state[r] = "none" /\ stage[r] = "none" /\ attempts[r] <= BRIDGE_QUEUE_MAX_ATTEMPTS
      BY <1>2, QueueAssumption DEF Insert
    <2> QED
      BY <1>2, <2>1 DEF Insert, NewRow
  <1>3. ASSUME Lease
        PROVE  Goal
    <2>1. PICK i \in Request : /\ Due(i)
                              /\ state' = [state EXCEPT ![i] = "in_progress"]
                              /\ To(i, "looking")
      BY <1>3 DEF Lease, LeaseFirst
    <2>2. rpc' = rpc /\ attempts' = attempts /\ \A j \in Request : stage[j] = "none"
      BY <1>3 DEF Lease, LeaseFirst, TickInFlight
    <2>3. state[i] \in {"pending", "in_progress"}
      BY <2>1 DEF Due
    <2> QED
      BY <2>1, <2>2, <2>3, QueueAssumption DEF To
  <1>4. ASSUME NEW i \in Request, NEW outcome \in Terminal, Finish(i, outcome),
               stage[i] # "none", To(i, "none"), rpc' = rpc, attempts' = attempts
        PROVE  Goal
    <2>1. attempts[i] <= BRIDGE_QUEUE_MAX_ATTEMPTS
      BY <1>4, DispatchedHasAttempts, QueueAssumption
    <2> QED
      BY <1>4, <2>1, EndsDispatch DEF Finish, Terminal
  <1>5. ASSUME NEW i \in Request, SourceDown(i) \/ Reconcile(i)
        PROVE  Goal
    <2>1. attempts[i] <= BRIDGE_QUEUE_MAX_ATTEMPTS
      BY <1>5, DispatchedHasAttempts, QueueAssumption DEF SourceDown, Reconcile
    <2> QED
      BY <1>5, <2>1, EndsDispatch DEF SourceDown, Reconcile, Reschedule
  <1>6. ASSUME NEW i \in Request, CountAttempt(i)
        PROVE  Goal
    <2>1. rpc' = rpc /\ rpc[i] = "enqueued" /\ attempts' = [attempts EXCEPT ![i] = attempts[i] + 1]
      BY <1>6 DEF CountAttempt
    <2>2. \A j \in Request : stage'[j] = "none"
      BY <1>6, EndsDispatch DEF CountAttempt
    <2>3. CASE attempts[i] + 1 > BRIDGE_QUEUE_MAX_ATTEMPTS
      BY <1>6, <2>1, <2>2, <2>3 DEF CountAttempt, Finish, Terminal
    <2>4. CASE ~(attempts[i] + 1 > BRIDGE_QUEUE_MAX_ATTEMPTS)
      BY <1>6, <2>1, <2>2, <2>4 DEF CountAttempt, Reschedule
    <2> QED
      BY <2>3, <2>4
  <1>7. ASSUME NEW i \in Request, RecordThrows(i)
        PROVE  Goal
    <2>1. attempts[i] <= BRIDGE_QUEUE_MAX_ATTEMPTS
      BY <1>7, DispatchedHasAttempts, QueueAssumption DEF RecordThrows
    <2> QED
      BY <1>7, <2>1 DEF RecordThrows, Finish, To
  <1>8. ASSUME NEW i \in Request, Send(i) \/ ReplyOk(i) \/ ReplyError(i) \/ ReplyTimeout(i)
        PROVE  Goal
    BY <1>8 DEF Send, ReplyOk, ReplyError, ReplyTimeout, Settle, To
  <1>9. ASSUME NEW i \in Request, TickThrows(i) \/ Purge(i)
        PROVE  Goal
    BY <1>9, QueueAssumption DEF TickThrows, Purge, To, Terminal
  <1>10. ASSUME UNCHANGED <<rpc, state, attempts, stage>>
        PROVE  Goal
    BY <1>10
  <1>11. ASSUME Restart \/ RestartUnseeded
        PROVE  Goal
    BY <1>11 DEF Restart, RestartUnseeded, Die
  <1>12. ASSUME NEW i \in Request, Unresolvable(i) \/ FoundOnChain(i) \/ Record(i)
        PROVE  Goal
    BY <1>12, <1>4 DEF Unresolvable, FoundOnChain, Record, Terminal
  <1>13. ASSUME NEW i \in Request, Land(i) \/ Drop(i)
        PROVE  Goal
    BY <1>13, <1>10 DEF Land, Drop
  <1>14. ASSUME (\E p \in Permlink : Index(p)) \/ Tick \/ CalmDown \/ UNCHANGED vars
        PROVE  Goal
    BY <1>14, <1>10 DEF Index, Tick, CalmDown
  <1> QED
    BY <1>1, <1>2, <1>3, <1>5, <1>6, <1>7, <1>8, <1>9, <1>11, <1>12, <1>13, <1>14
    DEF Next, Register, Worker, Dispatch

(***************************************************************************)
(* The cap.                                                                *)
(***************************************************************************)

\* The rows of r's user that the cap counts.
Counted(r) == ActiveOf(UserOf(r)) \ revived

\* The rows counted are finitely many.
LEMMA CountedFinite ==
    ASSUME NEW r \in Request
    PROVE  /\ IsFiniteSet(Counted(r)) /\ Cardinality(Counted(r)) \in Nat
           /\ Counted(r) \subseteq Request
  <1>1. Counted(r) \subseteq Request
    BY DEF Counted, ActiveOf
  <1> QED
    BY <1>1, RequestAssumption, FS_Subset, FS_CardinalityType

\* Rows that end or are revived leave the count.
LEMMA CountShrinks ==
    ASSUME submission' = submission,
           \A i \in Request : Active(i)' /\ i \notin revived' => Active(i) /\ i \notin revived,
           NEW r \in Request
    PROVE  Cardinality(Counted(r)') \in Nat /\ Cardinality(Counted(r)') <= Cardinality(Counted(r))
  <1>1. Counted(r)' \subseteq Counted(r)
    BY DEF Counted, ActiveOf, UserOf
  <1> QED
    BY <1>1, CountedFinite, FS_Subset, FS_CardinalityType

\* One more row adds at most one.
LEMMA CountGrows ==
    ASSUME submission' = submission, NEW q \in Request,
           \A i \in Request \ {q} : Active(i)' /\ i \notin revived' => Active(i) /\ i \notin revived,
           NEW r \in Request
    PROVE  /\ Cardinality(Counted(r)') \in Nat
           /\ Cardinality(Counted(r)') <= Cardinality(Counted(r)) + 1
           /\ UserOf(q) # UserOf(r) => Cardinality(Counted(r)') <= Cardinality(Counted(r))
  <1>1. Counted(r)' \subseteq Counted(r) \cup {q}
    BY DEF Counted, ActiveOf, UserOf
  <1>2. UserOf(q) # UserOf(r) => Counted(r)' \subseteq Counted(r)
    BY <1>1 DEF Counted, ActiveOf, UserOf
  <1>3. /\ IsFiniteSet(Counted(r) \cup {q})
        /\ Cardinality(Counted(r) \cup {q}) \in Nat
        /\ Cardinality(Counted(r) \cup {q}) <= Cardinality(Counted(r)) + 1
    <2>1. IsFiniteSet(Counted(r)) /\ Cardinality(Counted(r)) \in Nat
      BY CountedFinite
    <2> HIDE DEF Counted
    <2>2. /\ IsFiniteSet(Counted(r) \cup {q})
          /\ \/ Cardinality(Counted(r) \cup {q}) = Cardinality(Counted(r))
             \/ Cardinality(Counted(r) \cup {q}) = Cardinality(Counted(r)) + 1
      BY <2>1, FS_AddElement
    <2> QED
      BY <2>1, <2>2
  <1>4. Cardinality(Counted(r)') \in Nat /\ Cardinality(Counted(r)') <= Cardinality(Counted(r) \cup {q})
    BY <1>1, <1>3, FS_Subset, FS_CardinalityType
  <1> QED
    BY <1>2, <1>3, <1>4, CountedFinite, FS_Subset, FS_CardinalityType

\* Every step keeps the cap: only the insert adds a row, and the advisory lock kept room for it.
LEMMA CapKept ==
    ASSUME TypeOK, CapHolds, RoomKept, [Next]_vars
    PROVE  CapHolds' /\ RoomKept'
  <1> USE DEF TypeOK
  <1>a. CapHolds <=> \A r \in Request : Cardinality(Counted(r)) <= BRIDGE_QUEUE_USER_CAP
    BY DEF CapHolds, Counted
  <1>b. CapHolds' <=> \A r \in Request : Cardinality(Counted(r)') <= BRIDGE_QUEUE_USER_CAP
    BY DEF CapHolds, Counted, UserOf
  <1>c. RoomKept <=> \A r \in Request : rpc[r] = "counted" =>
                        /\ Cardinality(Counted(r)) < BRIDGE_QUEUE_USER_CAP
                        /\ \A q \in Request \ {r} : rpc[q] = "counted" => UserOf(q) # UserOf(r)
    BY DEF RoomKept, Counted
  <1>d. RoomKept' <=> \A r \in Request : rpc'[r] = "counted" =>
                        /\ Cardinality(Counted(r)') < BRIDGE_QUEUE_USER_CAP
                        /\ \A q \in Request \ {r} : rpc'[q] = "counted" => UserOf(q)' # UserOf(r)'
    BY DEF RoomKept, Counted
  <1>1. ASSUME submission' = submission,
               \A i \in Request : Active(i)' /\ i \notin revived' => Active(i) /\ i \notin revived,
               \A r \in Request : rpc'[r] = "counted" => rpc[r] = "counted"
        PROVE  CapHolds' /\ RoomKept'
    BY <1>1, <1>a, <1>b, <1>c, <1>d, CountShrinks, CountedFinite, QueueAssumption DEF UserOf
  <1>2. ASSUME NEW r \in Request, Begin(r)
        PROVE  CapHolds' /\ RoomKept'
    <2>1. submission' = submission /\ \A q \in Request : Counted(q)' = Counted(q) /\ UserOf(q)' = UserOf(q)
      BY <1>2 DEF Begin, Counted, ActiveOf, Active, UserOf
    <2>2. CapHolds'
      BY <2>1, <1>a, <1>b
    <2>3. \A q \in Request : rpc'[q] = "counted" =>
             \/ rpc[q] = "counted" /\ q # r
             \/ q = r /\ \A s \in Request : rpc[s] = "counted" => UserOf(s) # UserOf(r)
      BY <1>2 DEF Begin
    <2>4. rpc'[r] = "counted" => Cardinality(Counted(r)) < BRIDGE_QUEUE_USER_CAP
      <3>1. SUFFICES ASSUME rpc'[r] = "counted"
                     PROVE  Cardinality(Counted(r)) < BRIDGE_QUEUE_USER_CAP
        OBVIOUS
      <3>2. ~(Cardinality(ActiveOf(UserOf(r))) >= BRIDGE_QUEUE_USER_CAP)
        BY <1>2, <3>1 DEF Begin
      <3>3. ActiveOf(UserOf(r)) \subseteq Request
        BY DEF ActiveOf
      <3>4. IsFiniteSet(ActiveOf(UserOf(r))) /\ Counted(r) \subseteq ActiveOf(UserOf(r))
        BY <3>3, RequestAssumption, FS_Subset DEF Counted
      <3>5. /\ Cardinality(Counted(r)) <= Cardinality(ActiveOf(UserOf(r)))
            /\ Cardinality(Counted(r)) \in Nat /\ Cardinality(ActiveOf(UserOf(r))) \in Nat
        BY <3>4, FS_Subset, FS_CardinalityType
      <3> QED
        BY <3>2, <3>5, QueueAssumption
    <2> QED
      BY <2>1, <2>2, <2>3, <2>4, <1>c, <1>d
  <1>3. ASSUME NEW r \in Request, Insert(r)
        PROVE  CapHolds' /\ RoomKept'
    <2>1. /\ submission' = submission /\ rpc[r] = "counted"
          /\ \A q \in Request : rpc'[q] = "counted" => q # r /\ rpc[q] = "counted"
          /\ \A i \in Request \ {r} : Active(i)' /\ i \notin revived' => Active(i) /\ i \notin revived
      BY <1>3 DEF Insert, NewRow, Active
    <2>2. \A q \in Request : /\ Cardinality(Counted(q)') \in Nat
                             /\ Cardinality(Counted(q)') <= Cardinality(Counted(q)) + 1
                             /\ UserOf(r) # UserOf(q) => Cardinality(Counted(q)') <= Cardinality(Counted(q))
      BY <2>1, CountGrows
    <2>3. \A q \in Request : UserOf(q) = UserOf(r) => Counted(q) = Counted(r)
      BY DEF Counted
    <2>4. \A q \in Request : Cardinality(Counted(q)') <= BRIDGE_QUEUE_USER_CAP
      <3>1. TAKE q \in Request
      <3>2. CASE UserOf(q) = UserOf(r)
        BY <2>1, <2>2, <2>3, <3>2, <1>c, CountedFinite, QueueAssumption
      <3>3. CASE UserOf(q) # UserOf(r)
        BY <2>2, <3>3, <1>a, CountedFinite, QueueAssumption
      <3> QED
        BY <3>2, <3>3
    <2>5. \A q \in Request : UserOf(q)' = UserOf(q)
      BY <2>1 DEF UserOf
    <2>6. RoomKept'
      BY <2>1, <2>2, <2>5, <1>c, <1>d, CountedFinite, QueueAssumption
    <2> QED
      BY <2>4, <2>6, <1>b
  <1>4. ASSUME NEW r \in Request, Check(r) \/ Refuse(r)
        PROVE  CapHolds' /\ RoomKept'
    BY <1>4, <1>1 DEF Check, Refuse, Active
  <1>5. ASSUME Lease
        PROVE  CapHolds' /\ RoomKept'
    BY <1>5, <1>1 DEF Lease, LeaseFirst, Due, Active
  <1>6. ASSUME NEW i \in Request, NEW outcome \in Terminal, Finish(i, outcome),
               submission' = submission, rpc' = rpc
        PROVE  CapHolds' /\ RoomKept'
    BY <1>6, <1>1 DEF Finish, Active, Terminal
  <1>7. ASSUME NEW i \in Request, NEW n, Reschedule(i, n), submission' = submission, rpc' = rpc
        PROVE  CapHolds' /\ RoomKept'
    BY <1>7, <1>1 DEF Reschedule, Active
  <1>8. ASSUME UNCHANGED <<submission, rpc, state, revived>>
        PROVE  CapHolds' /\ RoomKept'
    BY <1>8, <1>1 DEF Active
  <1>9. ASSUME NEW i \in Request, Dispatch(i) \/ SourceDown(i) \/ RecordThrows(i) \/ TickThrows(i)
        PROVE  CapHolds' /\ RoomKept'
    <2>1. UNCHANGED <<submission, rpc>>
      BY <1>9 DEF Dispatch, Unresolvable, FoundOnChain, Send, ReplyOk, ReplyError, ReplyTimeout,
                  CountAttempt, Record, Reconcile, SourceDown, RecordThrows, TickThrows
    <2>2. \/ \E outcome \in Terminal : Finish(i, outcome)
          \/ \E n \in Nat : Reschedule(i, n)
          \/ UNCHANGED <<state, revived>>
      BY <1>9, QueueAssumption
      DEF Dispatch, Unresolvable, FoundOnChain, Send, ReplyOk, ReplyError, ReplyTimeout,
          CountAttempt, Record, Reconcile, SourceDown, RecordThrows, TickThrows, Terminal
    <2> QED
      BY <2>1, <2>2, <1>6, <1>7, <1>8
  <1>10. ASSUME NEW i \in Request, Purge(i)
        PROVE  CapHolds' /\ RoomKept'
    BY <1>10, <1>1 DEF Purge, Active
  <1>11. ASSUME Restart \/ RestartUnseeded
        PROVE  CapHolds' /\ RoomKept'
    BY <1>11, <1>1 DEF Restart, RestartUnseeded, Die, Active
  <1>12. ASSUME \/ \E i \in Request : Land(i) \/ Drop(i)
                \/ \E p \in Permlink : Index(p)
                \/ Tick \/ CalmDown \/ UNCHANGED vars
        PROVE  CapHolds' /\ RoomKept'
    BY <1>12, <1>8 DEF Land, Drop, Index, Tick, CalmDown
  <1> QED
    BY <1>2, <1>3, <1>4, <1>5, <1>9, <1>10, <1>11, <1>12 DEF Next, Register, Worker

(***************************************************************************)
(* Completed rows and their posts.                                         *)
(***************************************************************************)

\* Every step keeps completed rows posted or taken: a row is completed only from what HAF
\* shows or a node confirmed.
LEMMA PostsKept ==
    ASSUME TypeOK, CompletedIsTaken, SentIsTaken, [Next]_vars
    PROVE  CompletedIsTaken' /\ SentIsTaken'
  <1> USE DEF TypeOK, CompletedIsTaken, SentIsTaken, PermlinkOf
  <1> DEFINE Goal == CompletedIsTaken' /\ SentIsTaken'
  <1>1. ASSUME submission' = submission, posted \subseteq posted', taken \subseteq taken',
               \A i \in Request : state'[i] = "completed" =>
                   state[i] = "completed" \/ PermlinkOf(i) \in posted \/ i \in taken,
               \A i \in Request : stage'[i] \in {"recording", "reconciling"} =>
                   stage[i] \in {"recording", "reconciling"} \/ i \in taken'
        PROVE  Goal
    BY <1>1
  <1>2. ASSUME NEW r \in Request, Register(r) \/ Refuse(r)
        PROVE  Goal
    BY <1>2, <1>1 DEF Register, Check, Begin, Insert, NewRow, Refuse
  <1>3. ASSUME Lease
        PROVE  Goal
    BY <1>3, <1>1 DEF Lease, LeaseFirst, To
  <1>4. ASSUME NEW i \in Request, Unresolvable(i) \/ FoundOnChain(i) \/ Record(i)
        PROVE  Goal
    BY <1>4, <1>1 DEF Unresolvable, FoundOnChain, Record, Finish, To
  <1>5. ASSUME NEW i \in Request, SourceDown(i) \/ Reconcile(i)
        PROVE  Goal
    BY <1>5, <1>1 DEF SourceDown, Reconcile, Reschedule, To
  <1>6. ASSUME NEW i \in Request, CountAttempt(i)
        PROVE  Goal
    BY <1>6, <1>1 DEF CountAttempt, Finish, Reschedule, To
  <1>7. ASSUME NEW i \in Request, RecordThrows(i)
        PROVE  Goal
    BY <1>7, <1>1 DEF RecordThrows, Finish, To
  <1>8. ASSUME NEW i \in Request, Send(i) \/ ReplyOk(i) \/ ReplyError(i) \/ ReplyTimeout(i)
        PROVE  Goal
    BY <1>8, <1>1 DEF Send, ReplyOk, ReplyError, ReplyTimeout, Settle, To
  <1>9. ASSUME NEW i \in Request, TickThrows(i)
        PROVE  Goal
    BY <1>9, <1>1 DEF TickThrows, To
  <1>10. ASSUME NEW i \in Request, Purge(i)
        PROVE  Goal
    BY <1>10 DEF Purge
  <1>11. ASSUME NEW i \in Request, Land(i) \/ Drop(i)
        PROVE  Goal
    BY <1>11, <1>1 DEF Land, Drop
  <1>12. ASSUME Restart \/ RestartUnseeded
        PROVE  Goal
    BY <1>12, <1>1 DEF Restart, RestartUnseeded, Die
  <1>13. ASSUME (\E p \in Permlink : Index(p)) \/ Tick \/ CalmDown \/ UNCHANGED vars
        PROVE  Goal
    BY <1>13, <1>1 DEF Index, Tick, CalmDown
  <1> QED
    BY <1>2, <1>3, <1>4, <1>5, <1>6, <1>7, <1>8, <1>9, <1>10, <1>11, <1>12, <1>13
    DEF Next, Worker, Dispatch

(***************************************************************************)
(* The gate.                                                               *)
(***************************************************************************)

\* While one dispatch runs, it is the one that sends.
LEMMA OthersRest ==
    ASSUME TypeOK, DispatchOwnsRow, NEW i \in Request, stage[i] # "none"
    PROVE  \A j \in Request \ {i} : stage[j] = "none"
  BY DEF DispatchOwnsRow

\* An interval that is over is covered by any gate.
LEMMA NothingLeft == \A m \in Nat, n \in Nat : 0 <= m + n
  OBVIOUS

\* Every step keeps the gate over the interval the chain enforces.
LEMMA GateKept ==
    ASSUME TypeOK, DispatchOwnsRow, GateHolds, KnownCovered, SendCovered, IntervalHasRow,
           RecordedCovers, [Next]_vars
    PROVE  GateHolds' /\ KnownCovered' /\ SendCovered' /\ IntervalHasRow'
  <1> USE DEF TypeOK, GateHolds, KnownCovered, SendCovered, IntervalHasRow
  <1> DEFINE Goal == GateHolds' /\ KnownCovered' /\ SendCovered' /\ IntervalHasRow'
  <1>1. ASSUME UNCHANGED <<cool, chainCool, latest, missed, landed, out, known>>,
               \A i \in Request : stage'[i] = "sending" <=> stage[i] = "sending"
        PROVE  Goal
    BY <1>1
  <1>2. ASSUME NEW r \in Request, Register(r) \/ Refuse(r)
        PROVE  Goal
    BY <1>2, <1>1 DEF Register, Check, Begin, Insert, NewRow, Refuse
  <1>3. ASSUME Lease
        PROVE  Goal
    <2>1. \A i \in Request : stage[i] = "none"
      BY <1>3 DEF Lease, TickInFlight
    <2> QED
      BY <1>3, <1>1, <2>1 DEF Lease, LeaseFirst, To
  <1>4. ASSUME NEW i \in Request,
               \/ Unresolvable(i) \/ FoundOnChain(i) \/ SourceDown(i) \/ CountAttempt(i)
               \/ Reconcile(i) \/ TickThrows(i) \/ Record(i) \/ RecordThrows(i)
        PROVE  Goal
    BY <1>4, <1>1
    DEF Unresolvable, FoundOnChain, SourceDown, CountAttempt, Reconcile, TickThrows, Record,
        RecordThrows, To
  <1>5. ASSUME NEW i \in Request, Send(i)
        PROVE  Goal
    <2>1. /\ UNCHANGED <<cool, chainCool, latest, missed, landed>> /\ known' = known \ {i}
          /\ stage[i] = "looking" /\ \A j \in Request \ {i} : out'[j] = out[j] /\ stage'[j] = stage[j]
      BY <1>5 DEF Send, To
    <2>2. \A j \in Request : stage[j] # "sending"
      BY <2>1, OthersRest
    <2> QED
      BY <2>1, <2>2
  <1>6. ASSUME NEW i \in Request, ReplyOk(i) \/ ReplyTimeout(i)
        PROVE  Goal
    <2>1. /\ cool' = BRIDGE_CHAIN_COOLDOWN /\ UNCHANGED <<chainCool, latest, out>>
          /\ known' \subseteq known \cup {i}
      BY <1>6 DEF ReplyOk, ReplyTimeout, CloseGate, Settle
    <2>2. \A j \in Request : out[j] \in Nat /\ out[j] <= TX_EXPIRY
      BY QueueAssumption
    <2>3. KnownCovered'
      BY <2>1, <2>2, QueueAssumption
    <2>4. chainCool' <= cool' + TX_EXPIRY
      BY <2>1, QueueAssumption
    <2> QED
      BY <2>1, <2>3, <2>4
  <1>7. ASSUME NEW i \in Request, ReplyError(i)
        PROVE  Goal
    <2>1. /\ UNCHANGED <<cool, chainCool, latest, out, known>> /\ landed' = landed \ {i}
          /\ missed' = (missed \/ i \in landed \cap latest) /\ stage[i] = "sending"
      BY <1>7 DEF ReplyError, Settle
    <2>2. \A j \in Request : stage'[j] # "sending"
      BY <1>7, OthersRest DEF ReplyError, Settle, To
    <2> QED
      BY <2>1, <2>2
  <1>8. ASSUME NEW i \in Request, Purge(i)
        PROVE  Goal
    BY <1>8, <1>1 DEF Purge
  <1>9. ASSUME NEW i \in Request, Drop(i)
        PROVE  Goal
    <2>1. /\ UNCHANGED <<cool, chainCool, latest, missed, landed, stage>> /\ known' = known \ {i}
          /\ \A j \in Request \ {i} : out'[j] = out[j]
      BY <1>9 DEF Drop
    <2> QED
      BY <2>1
  <1>10. ASSUME NEW i \in Request, Land(i)
        PROVE  Goal
    <2>1. /\ UNCHANGED <<stage, cool>> /\ landed \subseteq landed' /\ known' = known \ {i} /\ out[i] > 0
          /\ \A j \in Request \ {i} : out'[j] = out[j]
      BY <1>10 DEF Land
    <2>2. KnownCovered'
      BY <2>1
    <2>3. CASE PermlinkOf(i) \in posted
      BY <1>10, <2>1, <2>2, <2>3 DEF Land
    <2>4. CASE PermlinkOf(i) \notin posted
      <3>1. /\ missed' = (stage[i] # "sending" /\ i \notin known) /\ latest' = {i}
            /\ chainCool' = BRIDGE_CHAIN_COOLDOWN
        BY <1>10, <2>4 DEF Land
      <3>2. CASE stage[i] = "sending"
        <4>1. i \in landed' /\ \A j \in Request \ {i} : stage[j] # "sending"
          BY <1>10, <3>2, OthersRest DEF Land
        <4> QED
          BY <2>1, <2>2, <3>1, <3>2, <4>1
      <3>3. CASE stage[i] # "sending" /\ i \notin known
        BY <2>1, <2>2, <3>1, <3>3
      <3>4. CASE i \in known
        <4>1. chainCool' <= cool' + TX_EXPIRY
          BY <2>1, <3>1, <3>4, QueueAssumption
        <4> QED
          BY <2>1, <2>2, <3>1, <4>1
      <3> QED
        BY <3>2, <3>3, <3>4
    <2> QED
      BY <2>3, <2>4
  <1>11. ASSUME Tick
        PROVE  Goal
    <2>1. /\ cool' = Less(cool) /\ chainCool' = Less(chainCool)
          /\ latest' = (IF chainCool > 1 THEN latest ELSE {}) /\ missed' = (missed /\ chainCool > 1)
          /\ stage' = stage /\ landed' = landed /\ known' = {i \in known : out[i] > 1}
          /\ \A i \in Request : out'[i] = Less(out[i])
      BY <1>11 DEF Tick
    <2>2. cool \in Nat /\ chainCool \in Nat /\ TX_EXPIRY \in Nat /\ BRIDGE_CHAIN_COOLDOWN \in Nat
          /\ \A i \in Request : out[i] \in Nat
      BY QueueAssumption
    <2>3. KnownCovered'
      <3>1. ASSUME NEW i \in known, out[i] > 1
            PROVE  Less(cool) + TX_EXPIRY >= BRIDGE_CHAIN_COOLDOWN + Less(out[i])
        <4>1. cool + TX_EXPIRY >= BRIDGE_CHAIN_COOLDOWN + out[i] /\ out[i] \in Nat
          BY <2>2
        <4> QED
          BY <2>2, <3>1, <4>1 DEF Less
      <3> QED
        BY <2>1, <3>1
    <2>4. CASE chainCool > 1
      <3>1. latest' = latest /\ missed' = missed
        BY <2>1, <2>4
      <3>2. chainCool <= cool + TX_EXPIRY => chainCool' <= cool' + TX_EXPIRY
        BY <2>1, <2>2, <2>4 DEF Less
      <3>3. IntervalHasRow'
        BY <2>2, <2>4, <3>1
      <3> QED
        BY <2>1, <2>3, <3>1, <3>2, <3>3
    <2>5. CASE ~(chainCool > 1)
      <3>1. chainCool' <= cool' + TX_EXPIRY /\ ~(chainCool' > 0)
        BY <2>1, <2>2, <2>5 DEF Less
      <3> QED
        BY <2>1, <2>3, <3>1
    <2> QED
      BY <2>4, <2>5
  <1>12. ASSUME Restart
        PROVE  Goal
    <2>1. \A i \in Request : stage'[i] = "none"
      BY <1>12 DEF Restart, Die
    <2>2. /\ UNCHANGED <<chainCool, latest, out>> /\ known' = {i \in Recorded : out[i] > 0}
          /\ missed' = (missed \/ ~(latest \subseteq Recorded))
      BY <1>12 DEF Restart, Die
    <2>3. cool' \in 0..BRIDGE_CHAIN_COOLDOWN /\ \A i \in Recorded : done[i] <= cool'
      BY <1>12 DEF Restart
    <2>4. \A i \in Recorded : i \in Request /\ done[i] \in Nat /\ out[i] \in Nat
      BY DEF Recorded
    <2>5. KnownCovered'
      BY <2>2, <2>3, <2>4, QueueAssumption DEF RecordedCovers
    <2>6. ~missed' => chainCool <= cool' + TX_EXPIRY
      <3>1. CASE latest = {}
        <4>1. chainCool = 0
          BY <3>1, QueueAssumption
        <4>2. cool' \in Nat /\ TX_EXPIRY \in Nat
          BY <2>3, QueueAssumption
        <4>3. chainCool <= cool' + TX_EXPIRY
          BY <4>1, <4>2, NothingLeft
        <4> QED
          BY <4>3
      <3>2. ASSUME NEW i \in latest, latest \subseteq Recorded
            PROVE  chainCool <= cool' + TX_EXPIRY
        <4>1. chainCool <= done[i] + TX_EXPIRY /\ done[i] <= cool' /\ done[i] \in Nat
          BY <2>3, <2>4, <3>2 DEF RecordedCovers
        <4> QED
          BY <2>3, <4>1, QueueAssumption
      <3> QED
        BY <2>2, <3>1, <3>2
    <2> QED
      BY <2>1, <2>2, <2>5, <2>6
  <1>13. ASSUME RestartUnseeded
        PROVE  Goal
    <2>1. \A i \in Request : stage'[i] = "none"
      BY <1>13 DEF RestartUnseeded, Die
    <2>2. cool' = 0 /\ known' = {} /\ UNCHANGED <<chainCool, latest>> /\ missed' = (chainCool > 0)
      BY <1>13 DEF RestartUnseeded, Die
    <2>3. CASE chainCool > 0
      <3>1. missed' = TRUE
        BY <2>2, <2>3
      <3> QED
        BY <2>1, <2>2, <3>1
    <2>4. CASE ~(chainCool > 0)
      <3>1. chainCool' <= cool' + TX_EXPIRY
        BY <2>2, <2>4, QueueAssumption
      <3> QED
        BY <2>1, <2>2, <3>1
    <2> QED
      BY <2>3, <2>4
  <1>14. ASSUME (\E p \in Permlink : Index(p)) \/ CalmDown \/ UNCHANGED vars
        PROVE  Goal
    BY <1>14, <1>1 DEF Index, CalmDown
  <1> QED
    BY <1>2, <1>3, <1>4, <1>5, <1>6, <1>7, <1>8, <1>9, <1>10, <1>11, <1>12, <1>13, <1>14
    DEF Next, Worker, Dispatch

\* Every step keeps what a restart would seed over the interval, for the rows it finds.
LEMMA SeedKept ==
    ASSUME TypeOK, RowsEnqueued, DispatchOwnsRow, RecordedCovers, [Next]_vars
    PROVE  RecordedCovers'
  <1> USE DEF TypeOK, RecordedCovers
  <1>1. ASSUME UNCHANGED <<chainCool, latest, out>>,
               \A i \in Recorded' : (i \in Recorded /\ done'[i] = done[i]) \/ done'[i] = BRIDGE_CHAIN_COOLDOWN
        PROVE  RecordedCovers'
    <2>1. \A i \in Request : out[i] \in Nat /\ out[i] <= TX_EXPIRY
      BY QueueAssumption
    <2>2. \A i \in Recorded' : i \in Request
      BY DEF Recorded
    <2> QED
      BY <1>1, <2>1, <2>2, QueueAssumption
  <1>2. ASSUME UNCHANGED <<chainCool, latest, out, done>>, Recorded' \subseteq Recorded
        PROVE  RecordedCovers'
    BY <1>2
  <1>3. ASSUME UNCHANGED <<chainCool, latest, out, done, state, txid>>
        PROVE  RecordedCovers'
    BY <1>3, <1>2 DEF Recorded
  <1>4. ASSUME NEW i \in Request, NEW outcome \in Terminal, Finish(i, outcome),
               txid' \subseteq txid \cup {i}, UNCHANGED <<chainCool, latest, out>>
        PROVE  RecordedCovers'
    <2>1. \A j \in Recorded' : j = i \/ (j \in Recorded /\ done'[j] = done[j])
      BY <1>4 DEF Recorded, Finish
    <2>2. i \in Recorded' => done'[i] = BRIDGE_CHAIN_COOLDOWN
      BY <1>4 DEF Recorded, Finish
    <2> QED
      BY <1>1, <1>4, <2>1, <2>2
  <1>5. ASSUME NEW i \in Request, NEW n, Reschedule(i, n), UNCHANGED <<txid, chainCool, latest, out>>
        PROVE  RecordedCovers'
    <2>1. \A j \in Recorded' : j \in Recorded /\ done'[j] = done[j]
      BY <1>5 DEF Recorded, Reschedule
    <2> QED
      BY <1>1, <1>5, <2>1
  <1>6. ASSUME NEW r \in Request, Register(r) \/ Refuse(r)
        PROVE  RecordedCovers'
    BY <1>6, <1>2 DEF Register, Check, Begin, Insert, NewRow, Refuse, Recorded
  <1>7. ASSUME Lease
        PROVE  RecordedCovers'
    BY <1>7, <1>2 DEF Lease, LeaseFirst, Recorded
  <1>8. ASSUME NEW i \in Request, Unresolvable(i) \/ FoundOnChain(i) \/ Record(i)
        PROVE  RecordedCovers'
    BY <1>8, <1>4 DEF Unresolvable, FoundOnChain, Record, Terminal
  <1>9. ASSUME NEW i \in Request, SourceDown(i) \/ Reconcile(i)
        PROVE  RecordedCovers'
    BY <1>9, <1>5 DEF SourceDown, Reconcile
  <1>10. ASSUME NEW i \in Request, CountAttempt(i)
        PROVE  RecordedCovers'
    BY <1>10, <1>4, <1>5 DEF CountAttempt, Terminal
  <1>11. ASSUME NEW i \in Request, RecordThrows(i)
        PROVE  RecordedCovers'
    BY <1>11, <1>3, <1>4 DEF RecordThrows, Terminal
  <1>12. ASSUME NEW i \in Request, Send(i)
        PROVE  RecordedCovers'
    <2>1. i \notin Recorded
      BY <1>12 DEF Send, DispatchOwnsRow, Recorded
    <2>2. /\ Recorded' = Recorded /\ UNCHANGED <<done, latest, chainCool>>
          /\ \A j \in Request \ {i} : out'[j] = out[j]
      BY <1>12 DEF Send, Recorded
    <2> QED
      BY <2>1, <2>2 DEF Recorded
  <1>13. ASSUME NEW i \in Request, ReplyOk(i) \/ ReplyError(i) \/ ReplyTimeout(i) \/ TickThrows(i)
        PROVE  RecordedCovers'
    BY <1>13, <1>3 DEF ReplyOk, ReplyError, ReplyTimeout, Settle, TickThrows
  <1>14. ASSUME NEW i \in Request, Purge(i)
        PROVE  RecordedCovers'
    BY <1>14, <1>2 DEF Purge, Recorded
  <1>15. ASSUME NEW i \in Request, Drop(i)
        PROVE  RecordedCovers'
    <2>1. /\ Recorded' = Recorded /\ UNCHANGED <<done, latest, chainCool>>
          /\ \A j \in Request : out'[j] = out[j] \/ out'[j] = 0
      BY <1>15 DEF Drop, Recorded
    <2> QED
      BY <2>1 DEF Recorded
  <1>16. ASSUME NEW i \in Request, Land(i)
        PROVE  RecordedCovers'
    <2>1. /\ Recorded' = Recorded /\ UNCHANGED done /\ out[i] > 0 /\ out'[i] = 0
          /\ \A j \in Request \ {i} : out'[j] = out[j]
      BY <1>16 DEF Land, Recorded
    <2>2. \A j \in Recorded : j \in Request /\ done[j] \in Nat /\ out[j] \in Nat
      BY DEF Recorded
    <2>3. \A j \in Recorded : out'[j] > 0 => done[j] + TX_EXPIRY >= BRIDGE_CHAIN_COOLDOWN + out'[j]
      BY <2>1, <2>2
    <2>4. CASE PermlinkOf(i) \in posted
      BY <1>16, <2>1, <2>3, <2>4 DEF Land
    <2>5. CASE PermlinkOf(i) \notin posted
      <3>1. latest' = {i} /\ chainCool' = BRIDGE_CHAIN_COOLDOWN
        BY <1>16, <2>5 DEF Land
      <3>2. i \in Recorded => BRIDGE_CHAIN_COOLDOWN <= done[i] + TX_EXPIRY
        BY <2>1, <2>2, QueueAssumption
      <3> QED
        BY <2>1, <2>3, <3>1, <3>2
    <2> QED
      BY <2>4, <2>5
  <1>17. ASSUME Tick
        PROVE  RecordedCovers'
    <2>1. /\ Recorded' = Recorded /\ chainCool' = Less(chainCool)
          /\ latest' = (IF chainCool > 1 THEN latest ELSE {})
          /\ \A j \in Request : out'[j] = Less(out[j]) /\ done'[j] = Less(done[j])
      BY <1>17 DEF Tick, Recorded
    <2>2. chainCool \in Nat /\ TX_EXPIRY \in Nat /\ BRIDGE_CHAIN_COOLDOWN \in Nat
          /\ \A j \in Request : done[j] \in Nat /\ out[j] \in Nat
      BY QueueAssumption
    <2>3. ASSUME NEW j \in Recorded, Less(out[j]) > 0
          PROVE  Less(done[j]) + TX_EXPIRY >= BRIDGE_CHAIN_COOLDOWN + Less(out[j])
      <3>1. j \in Request /\ out[j] \in Nat /\ done[j] \in Nat
        BY <2>2 DEF Recorded
      <3>2. out[j] > 0
        BY <2>3, <3>1 DEF Less
      <3>3. done[j] + TX_EXPIRY >= BRIDGE_CHAIN_COOLDOWN + out[j]
        BY <3>2
      <3> QED
        BY <2>2, <2>3, <3>1, <3>3 DEF Less
    <2>4. ASSUME NEW j \in Recorded, j \in latest, chainCool > 1
          PROVE  Less(chainCool) <= Less(done[j]) + TX_EXPIRY
      <3>1. j \in Request /\ done[j] \in Nat /\ chainCool <= done[j] + TX_EXPIRY
        BY <2>2, <2>4 DEF Recorded
      <3> QED
        BY <2>2, <2>4, <3>1 DEF Less
    <2>5. \A j \in Recorded : j \in Request
      BY DEF Recorded
    <2> QED
      BY <2>1, <2>3, <2>4, <2>5
  <1>18. ASSUME Restart \/ RestartUnseeded \/ CalmDown \/ (\E p \in Permlink : Index(p)) \/ UNCHANGED vars
        PROVE  RecordedCovers'
    BY <1>18, <1>3 DEF Restart, RestartUnseeded, Die, CalmDown, Index
  <1> QED
    BY <1>6, <1>7, <1>8, <1>9, <1>10, <1>11, <1>12, <1>13, <1>14, <1>15, <1>16, <1>17, <1>18
    DEF Next, Worker, Dispatch

(***************************************************************************)
(* The theorems.                                                           *)
(***************************************************************************)

\* The invariant holds of an empty queue.
LEMMA InitHolds == Init => IInv
  <1> SUFFICES ASSUME Init
               PROVE  IInv
    OBVIOUS
  <1>1. TypeOK
    <2>1. {missed, calm} \subseteq BOOLEAN
      BY DEF Init
    <2>2. {cool, chainCool} \subseteq 0..BRIDGE_CHAIN_COOLDOWN
      BY CooldownTyped DEF Init
    <2> QED
      BY <2>1, <2>2, QueueAssumption DEF Init, TypeOK, Stage
  <1>2. CapHolds /\ RoomKept
    <2>1. \A r \in Request : ActiveOf(UserOf(r)) \ revived = {}
      BY DEF Init, ActiveOf, Active
    <2> QED
      BY <2>1, FS_EmptySet, QueueAssumption DEF Init, CapHolds, RoomKept
  <1> QED
    BY <1>1, <1>2, QueueAssumption
    DEF Init, IInv, RowsEnqueued, AttemptsLeft, DispatchOwnsRow, ReconciledRow, CompletedIsTaken,
        SentIsTaken, GateHolds, KnownCovered, RecordedCovers, Recorded, IntervalHasRow, SendCovered

\* Each step keeps the invariant.
LEMMA NextKeeps == IInv /\ [Next]_vars => IInv'
  BY Typing, RowsKept, CapKept, PostsKept, GateKept, SeedKept DEF IInv

\* The inductive invariant behind the theorems: whatever users register, whatever the worker,
\* the node and HAF do and however often the process restarts.
THEOREM Invariance == Spec => []IInv
  <1>1. IInv /\ [Next]_vars => IInv'
    BY NextKeeps
  <1> QED
    BY InitHolds, <1>1, PTL DEF Spec

\* Every variable stays in its type.
THEOREM Typed == Spec => []TypeOK
  <1>1. IInv => TypeOK
    BY DEF IInv
  <1> QED
    BY Invariance, <1>1, PTL

\* Both limits on what users and the worker may start hold: the rows of a user in flight
\* stay within the cap, and the gate covers the interval of the chain but for the time a
\* transaction may take to its block.
THEOREM Limited == Spec => []LimitsHold
  <1>1. IInv => LimitsHold
    BY DEF IInv, LimitsHold
  <1> QED
    BY Invariance, <1>1, PTL

\* A dispatch owns its row, and completes it only with a paper posted or taken by a node.
THEOREM RowsOwned == Spec => []RowsSound
  <1>1. IInv => RowsSound
    BY DEF IInv, RowsSound
  <1> QED
    BY Invariance, <1>1, PTL

=============================================================================
