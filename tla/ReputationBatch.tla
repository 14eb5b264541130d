-------------------------- MODULE ReputationBatch --------------------------
(* The cycle batch of reputation.  Cycle n is scored from the scores of cycle  *)
(* n - 1; its values are staged in Redis, one script renames them into place   *)
(* and moves the cursor, and the accounts that lost their accreditation are    *)
(* pruned from an index of the score keys.  When the weights are not those the *)
(* stamp names, every cycle is scored again from the first.  Accreditation     *)
(* seeds a provisional score, a sanction deletes one, in two commands each.    *)
(*                                                                             *)
(* What a score was computed from stands for its value.  One process runs the  *)
(* batch; its lock can only outlive it.  The in-progress sentinel is written   *)
(* for the operator alone and is left out.                                     *)
EXTENDS Integers

CONSTANTS User,       \* accounts
          None,       \* no key, no stamp
          Weights,    \* on-chain weight sets (and the defaults a failed query yields)
          MaxCycle,   \* bound on the elapsed cycles
          MaxGov,     \* bound on changes of the accredited set and of the weights
          MaxHands,   \* bound on seeds and sanctions
          MaxFaults   \* bound on failed commands and restarts

\* What an instance must give them.
BatchAssumption ==
  /\ Weights # {} /\ None \notin Weights /\ MaxCycle \in Nat
  /\ MaxGov \in Nat /\ MaxHands \in Nat /\ MaxFaults \in Nat

VARIABLES
  accredited,  \* getAllAccreditedAccounts
  weights,     \* getReputationWeights
  elapsed,     \* the cycles fully elapsed
  prod,        \* the score key of each account
  staged,      \* the accounts that have a staging key
  members,     \* the index of the score keys
  last,        \* cycle:last, -1 when unset
  stamp,       \* calc:version
  lock,        \* reputation:lock
  run,         \* the batch
  hand,        \* what is under way for an account: a seed, a sanction
  committed,   \* history: the cycles swapped whole, and under which weights
  moved,       \* history: the weights under which cycle:last was last moved
  excused,     \* history: accounts whose index entry a fault or a race took
  lapsed,      \* history: scores were left unread, or stale ones unpruned or indexed again
  reverted,    \* history: the weights came back while a replay was unfinished
  govs, hands, faults  \* history: counts

vars == <<accredited, weights, elapsed, prod, staged, members, last, stamp, lock, run, hand,
          committed, moved, excused, lapsed, reverted, govs, hands, faults>>

world == <<accredited, weights, elapsed, govs>>
handlers == <<hand, hands, excused>>
cursor == <<last, committed, moved>>

\* A cycle score, or the provisional one (cycle -1).
Score == [cycle : -1..MaxCycle, ver : Weights \cup {None}, sound : BOOLEAN]
Provisional == [cycle |-> -1, ver |-> None, sound |-> TRUE]

Stages == {"idle", "loading", "cycle", "staging", "swapping", "listing", "pruning", "stamping", "releasing"}
Run == [pc : Stages, ver : Weights \cup {None}, replay : BOOLEAN, cycle : 0..(MaxCycle + 1), upto : 0..(MaxCycle + 1),
        base : SUBSET Score, users : SUBSET User, score : Score, stale : SUBSET User]
Resting == [pc |-> "idle", ver |-> None, replay |-> FALSE, cycle |-> 0, upto |-> 0, base |-> {},
            users |-> {}, score |-> Provisional, stale |-> {}]

TypeOK ==
  /\ accredited \subseteq User /\ weights \in Weights /\ elapsed \in 0..(MaxCycle + 1)
  /\ prod \in [User -> Score \cup {None}] /\ staged \subseteq User /\ members \subseteq User
  /\ last \in -1..MaxCycle /\ stamp \in Weights \cup {None} /\ lock \in BOOLEAN
  /\ run \in Run /\ hand \in [User -> {"none", "seeding", "sanctioning"}]
  /\ committed \subseteq Weights \X (0..MaxCycle) /\ moved \in Weights \cup {None} /\ excused \subseteq User
  /\ lapsed \in BOOLEAN /\ reverted \in BOOLEAN
  /\ govs \in 0..MaxGov /\ hands \in 0..MaxHands /\ faults \in 0..MaxFaults

Fault == faults < MaxFaults /\ faults' = faults + 1
NoFault == UNCHANGED faults

Scored == {u \in User : prod[u] # None}

\* A score outside the index comes back into it with accounts us.
Revives(us) == \E u \in us \ members : prod[u] # None /\ prod[u].cycle >= 0

-----------------------------------------------------------------------------
(* runBatchComputation *)

\* An exit of the run, which then releases the lock.
Exit == run' = [run EXCEPT !.pc = "releasing"]

\* A changed version starts over in memory; the cursor in Redis stays.
FirstCycle(replay) == IF replay THEN 0 ELSE last + 1

\* The lock, the clearing of what a dead run staged, and the reads that decide where to
\* start.
Start ==
  LET replay == stamp # weights IN
  /\ run.pc = "idle" /\ ~lock /\ lock' = TRUE /\ staged' = {}
  /\ run' = [Resting EXCEPT !.pc = IF FirstCycle(replay) > 0 THEN "loading" ELSE "cycle",
                            !.ver = weights, !.replay = replay, !.cycle = FirstCycle(replay), !.upto = elapsed]
  /\ reverted' = (reverted \/ (~replay /\ moved # weights))
  /\ NoFault /\ UNCHANGED <<world, handlers, prod, members, cursor, stamp, lapsed>>

\* The scores that the index us reads.
ScoresOf(us) == {prod[u] : u \in Scored \cap us}

\* getBatchReputationMap: an empty index is rebuilt from the keys; an error is no scores.
Load ==
  /\ run.pc = "loading"
  /\ \/ /\ members' = IF members = {} THEN Scored ELSE members
        /\ run' = [run EXCEPT !.pc = "cycle", !.base = ScoresOf(members')]
        /\ NoFault /\ lapsed' = (lapsed \/ Revives(members'))
     \/ /\ Fault /\ lapsed' = TRUE /\ run' = [run EXCEPT !.pc = "cycle"] /\ UNCHANGED members
  /\ UNCHANGED <<world, handlers, prod, staged, cursor, stamp, lock, reverted>>

\* Voter weights of cycle n under v are sound when they are scores of earlier cycles.
Sound(base, n, v) == \A s \in base : s.cycle = -1 \/ (s.cycle < n /\ s.ver = v /\ s.sound)

\* The head of the loop: the cycle has not elapsed, nobody is accredited, which prunes
\* nobody either, or it is scored; or the time cap or a failing HAF ends the run.
Cycle ==
  /\ run.pc = "cycle"
  /\ \/ /\ run.cycle >= run.upto /\ UNCHANGED <<cursor, lapsed>>
        /\ run' = [run EXCEPT !.pc = IF run.replay THEN "stamping" ELSE "releasing"]
     \/ /\ run.cycle < run.upto /\ accredited = {}
        /\ last' = run.cycle /\ moved' = run.ver /\ UNCHANGED committed
        /\ run' = [run EXCEPT !.cycle = @ + 1] /\ lapsed' = (lapsed \/ run.replay)
     \/ /\ run.cycle < run.upto /\ accredited # {} /\ UNCHANGED <<cursor, lapsed>>
        /\ run' = [run EXCEPT !.pc = "staging", !.users = accredited,
                     !.score = [cycle |-> run.cycle, ver |-> run.ver, sound |-> Sound(run.base, run.cycle, run.ver)]]
     \/ Exit /\ UNCHANGED <<cursor, lapsed>>
  /\ NoFault /\ UNCHANGED <<world, handlers, prod, staged, members, stamp, lock, reverted>>

\* Seeded fault: the replies of the pipeline are not looked at.
AllStaged_Unchecked(done) == TRUE

\* Every reply of the staging pipeline must be without error.
AllStaged(done) == done = run.users

\* The staging pipeline; a command of it may fail alone.
Stage ==
  /\ run.pc = "staging"
  /\ \E done \in SUBSET run.users :
       /\ IF done = run.users THEN NoFault ELSE Fault
       /\ staged' = done
       /\ run' = [run EXCEPT !.pc = IF AllStaged(done) THEN "swapping" ELSE "releasing"]
  /\ UNCHANGED <<world, handlers, prod, members, cursor, stamp, lock, lapsed, reverted>>

\* Seeded fault: the script renames and leaves the index to its caller.
Indexed_ByCaller(us) == members

\* The script adds every key it renames.
Indexed(us) == members \cup us

Renames(us) ==
  /\ prod' = [u \in User |-> IF u \in us THEN run.score ELSE prod[u]] /\ staged' = staged \ us
  /\ members' = Indexed(us)
  /\ excused' = (excused \ us) \cup {u \in us : hand[u] = "sanctioning"}

\* CYCLE_SWAP: a RENAME of a missing key stops the script where it is.  The reply may be
\* lost, or the script may not run.
Swap ==
  /\ run.pc = "swapping"
  /\ \/ /\ run.users \subseteq staged /\ Renames(run.users) /\ last' = run.cycle
        /\ committed' = committed \cup {<<run.ver, run.cycle>>} /\ moved' = run.ver
        /\ \/ run' = [run EXCEPT !.pc = "listing"] /\ NoFault
           \/ Exit /\ Fault
     \/ /\ ~(run.users \subseteq staged) /\ \E us \in SUBSET staged : Renames(us)
        /\ Exit /\ NoFault /\ UNCHANGED cursor
     \/ Exit /\ Fault /\ UNCHANGED <<prod, staged, members, excused, cursor>>
  /\ UNCHANGED <<world, hand, hands, stamp, lock, lapsed, reverted>>

\* The next cycle is weighted by this one.
NextCycle == [run EXCEPT !.pc = "cycle", !.cycle = @ + 1, !.base = {run.score}, !.users = {}, !.stale = {}]

\* pruneDeAccreditedMembers: the index is read ...
PruneList ==
  /\ run.pc = "listing"
  /\ LET stale == members \ run.users IN
     \/ stale # {} /\ run' = [run EXCEPT !.pc = "pruning", !.stale = stale] /\ NoFault
     \/ stale = {} /\ run' = NextCycle /\ NoFault
     \/ run' = NextCycle /\ Fault
  /\ lapsed' = (lapsed \/ faults' # faults)
  /\ UNCHANGED <<world, handlers, prod, staged, members, cursor, stamp, lock, reverted>>

\* ... and what is stale leaves it, with its key; a DEL may fail alone, or all of it.
Prune ==
  /\ run.pc = "pruning" /\ run' = NextCycle
  /\ \/ \E left \in SUBSET run.stale :
          /\ IF left = {} THEN NoFault ELSE Fault
          /\ members' = members \ run.stale
          /\ prod' = [u \in User |-> IF u \in run.stale \ left THEN None ELSE prod[u]]
          /\ excused' = excused \cup left
     \/ Fault /\ UNCHANGED <<prod, members, excused>>
  /\ lapsed' = (lapsed \/ faults' # faults)
  /\ UNCHANGED <<world, hand, hands, staged, cursor, stamp, lock, reverted>>

\* Only a replay that reached the latest elapsed cycle is stamped.
Stamp ==
  /\ run.pc = "stamping" /\ Exit
  /\ (stamp' = run.ver /\ NoFault) \/ (UNCHANGED stamp /\ Fault)
  /\ UNCHANGED <<world, handlers, prod, staged, members, cursor, lock, lapsed, reverted>>

Release ==
  /\ run.pc = "releasing" /\ run' = Resting
  /\ (lock' = FALSE /\ NoFault) \/ (UNCHANGED lock /\ Fault)
  /\ UNCHANGED <<world, handlers, prod, staged, members, cursor, stamp, lapsed, reverted>>

Batch == Start \/ Load \/ Cycle \/ Stage \/ Swap \/ PruneList \/ Prune \/ Stamp \/ Release

-----------------------------------------------------------------------------
(* Seeds and sanctions, one at a time for an account *)

Provision(us) == prod' = [u \in User |-> IF u \in us /\ prod[u] = None THEN Provisional ELSE prod[u]]

\* seedAccreditationBonus: SET NX ...
Seed(u) ==
  /\ hand[u] = "none" /\ hands < MaxHands /\ hands' = hands + 1
  /\ Provision({u}) /\ hand' = [hand EXCEPT ![u] = "seeding"]
  /\ NoFault /\ UNCHANGED <<world, staged, members, cursor, stamp, lock, run, excused, lapsed, reverted>>

\* ... and the index, whether or not the key was there; or the command fails.
SeedIndex(u) ==
  /\ hand[u] = "seeding" /\ hand' = [hand EXCEPT ![u] = "none"]
  /\ \/ members' = members \cup {u} /\ excused' = excused \ {u} /\ NoFault
     \/ Fault /\ excused' = excused \cup {u} /\ UNCHANGED members
  /\ lapsed' = (lapsed \/ Revives(members'))
  /\ UNCHANGED <<world, prod, staged, cursor, stamp, lock, run, hands, reverted>>

\* invalidateOnRevocation: the key ...
Sanction(u) ==
  /\ hand[u] = "none" /\ hands < MaxHands /\ hands' = hands + 1
  /\ \/ prod' = [prod EXCEPT ![u] = None] /\ hand' = [hand EXCEPT ![u] = "sanctioning"] /\ NoFault
     \/ Fault /\ UNCHANGED <<prod, hand>>
  /\ UNCHANGED <<world, staged, members, cursor, stamp, lock, run, excused, lapsed, reverted>>

\* ... and the index.
SanctionIndex(u) ==
  /\ hand[u] = "sanctioning" /\ hand' = [hand EXCEPT ![u] = "none"]
  /\ (members' = members \ {u} /\ NoFault) \/ (UNCHANGED members /\ Fault)
  /\ UNCHANGED <<world, prod, staged, cursor, stamp, lock, run, hands, excused, lapsed, reverted>>

-----------------------------------------------------------------------------
(* The world *)

\* What HAF says of an account's accreditation changes.
Membership(u) == accredited' = (accredited \ {u}) \cup ({u} \ accredited) /\ UNCHANGED weights

\* An update_weights op is indexed, or a query of the weights fails and yields defaults.
Reweigh(w) == w # weights /\ weights' = w /\ UNCHANGED accredited

Govern ==
  /\ govs < MaxGov /\ govs' = govs + 1
  /\ (\E u \in User : Membership(u)) \/ (\E w \in Weights : Reweigh(w))
  /\ NoFault
  /\ UNCHANGED <<elapsed, handlers, prod, staged, members, cursor, stamp, lock, run, lapsed, reverted>>

Elapse ==
  /\ elapsed <= MaxCycle /\ elapsed' = elapsed + 1 /\ NoFault
  /\ UNCHANGED <<accredited, weights, govs, handlers, prod, staged, members, cursor, stamp, lock, run,
                 lapsed, reverted>>

\* The TTL of a lock whose run is gone passes.
Expire ==
  /\ lock /\ run.pc = "idle" /\ lock' = FALSE /\ NoFault
  /\ UNCHANGED <<world, handlers, prod, staged, members, cursor, stamp, run, lapsed, reverted>>

\* The process dies and boots: repairAbandonedBatchState and backfillAccreditationSeeds.
Restart ==
  /\ run.pc # "idle" \/ \E u \in User : hand[u] # "none"
  /\ Fault /\ run' = Resting /\ hand' = [u \in User |-> "none"]
  /\ excused' = excused \cup {u \in User : hand[u] = "seeding"}
  /\ staged' = {} /\ Provision(accredited) /\ members' = members \cup accredited
  /\ lapsed' = (lapsed \/ Revives(accredited))
  /\ UNCHANGED <<world, hands, cursor, stamp, lock, reverted>>

Init ==
  /\ accredited = User /\ weights = (CHOOSE w \in Weights : TRUE) /\ elapsed = 1
  /\ prod = [u \in User |-> Provisional] /\ staged = {} /\ members = User
  /\ last = -1 /\ stamp = None /\ lock = FALSE /\ run = Resting /\ hand = [u \in User |-> "none"]
  /\ committed = {} /\ moved = None /\ excused = {} /\ lapsed = FALSE /\ reverted = FALSE
  /\ govs = 0 /\ hands = 0 /\ faults = 0

Next ==
  \/ Batch \/ Govern \/ Elapse \/ Expire \/ Restart
  \/ \E u \in User : Seed(u) \/ SeedIndex(u) \/ Sanction(u) \/ SanctionIndex(u)

Spec == Init /\ [][Next]_vars

-----------------------------------------------------------------------------
(* Properties *)

\* No reader sees half a cycle, and every stored score was computed from the scores of the
\* cycles before it under the same weights: over partial staging, lost replies, restarts,
\* time caps and replays.  Except after scores that could not be read were taken as none,
\* stale ones stayed in the index or came back into it, or the weights came back while a
\* replay was unfinished.
WholeCycles ==
  lapsed \/ reverted \/
  \A u \in Scored : prod[u].cycle >= 0 => prod[u].sound /\ <<prod[u].ver, prod[u].cycle>> \in committed

\* The index covers the score keys: an account that loses its accreditation without a
\* sanction is pruned through the index alone, and a key outside it shows a score for good.
\* Except where a command failed, or a swap came between the two deletions of a sanction.
IndexCovers == \A u \in Scored \ members : hand[u] = "seeding" \/ u \in excused
=============================================================================
