----------------------------- MODULE QueryCache -----------------------------
(* The cache in front of HAF: entries in Redis, one fetch in flight per key,   *)
(* stale-while-revalidate, periodic reloads, and invalidations that race with  *)
(* all of them.  Two epochs, one per tier of entries, keep a fetch that began  *)
(* before an invalidation from writing what it had read.                       *)
(*                                                                             *)
(* A value is the version of HAF it was read from, 0 no entry.  Redis executes *)
(* the commands of the one connection in the order they were sent, so a        *)
(* command takes effect where it is sent; its reply is a step of its own.      *)
(* An epoch is only ever compared with its value when a fetch began: "still"   *)
(* is the set of epochs that have not been bumped since.  memStore, which is   *)
(* read and written only when a call to Redis fails, is left out: a failed GET *)
(* is a miss, and a failed SET may have run or not.                            *)
EXTENDS Integers, FiniteSets

CONSTANTS Caller,     \* concurrent callers
          Fetch,      \* fetches in flight
          Key,        \* cache keys
          Stable,     \* those that survive a block
          Swr,        \* those read through getOrSetSWR, the others through getOrSet
          Periodic,   \* those with a periodic reload
          None,       \* no key
          MaxVer,     \* bound on the versions of HAF
          MaxFaults   \* bound on failed Redis calls

\* What an instance must give them.
ASSUME CacheAssumption ==
  /\ Stable \subseteq Key /\ Swr \subseteq Key /\ Periodic \subseteq Key /\ None \notin Key
  /\ Caller \subseteq Nat /\ Fetch \subseteq Nat \ {0} /\ MaxVer \in Nat \ {0} /\ MaxFaults \in Nat

Epoch == {"volatile", "stable"}
Slot == Key \X {"fresh", "stale"}
Value == 0..MaxVer
Sweeper == {"block", "route"}

VARIABLES
  ver,      \* the version HAF is at
  redis,    \* the entries in Redis
  fetch,    \* fetches: inflight, revalidating and reloads
  caller,   \* the callers
  sweep,    \* the invalidation under way by the block watcher, and by a route
  floor,    \* history: the version at which each key was last invalidated
  faults    \* history: faults so far

vars == <<ver, redis, fetch, caller, sweep, floor, faults>>

FetchRec == [pc : {"idle", "fetching", "resolving", "writing"},
             key : Key \cup {None}, kind : {"cold", "revalidate", "reload"},
             val : Value, still : SUBSET Epoch, slot : {"fresh", "stale"}]
CallerRec == [pc : {"idle", "waiting"}, on : Fetch \cup {0}]
SweepRec == [pc : {"idle", "sweeping"}, slots : SUBSET Slot, keys : SUBSET Key,
             single : BOOLEAN, done : BOOLEAN, ver : Value]

\* A fetch, and an invalidation of some keys that began at the version HAF is at.
At(pc, k, kind, val, still, slot) ==
  [pc |-> pc, key |-> k, kind |-> kind, val |-> val, still |-> still, slot |-> slot]
Sweeping(slots, keys, single, done) ==
  [pc |-> "sweeping", slots |-> slots, keys |-> keys, single |-> single, done |-> done, ver |-> ver]

IdleFetch == At("idle", None, "cold", 0, {}, "fresh")
IdleCaller == [pc |-> "idle", on |-> 0]
IdleSweep == [pc |-> "idle", slots |-> {}, keys |-> {}, single |-> FALSE, done |-> FALSE, ver |-> 0]

TypeOK ==
  /\ ver \in 1..MaxVer
  /\ redis \in [Slot -> Value]
  /\ fetch \in [Fetch -> FetchRec]
  /\ caller \in [Caller -> CallerRec]
  /\ sweep \in [Sweeper -> SweepRec]
  /\ floor \in [Key -> Value]
  /\ faults \in 0..MaxFaults

Fault == faults < MaxFaults /\ faults' = faults + 1
NoFault == UNCHANGED faults

-----------------------------------------------------------------------------
(* Fetches *)

Running(k, kind) == {f \in Fetch : fetch[f].pc # "idle" /\ fetch[f].key = k /\ fetch[f].kind = kind}
Unused == {f \in Fetch : fetch[f].pc = "idle"}
Free == {f \in Unused : \A g \in Unused : f <= g}   \* fetches are interchangeable

\* A fetch captures both epochs and calls fn.
Started(k, kind) == At("fetching", k, kind, 0, Epoch, "fresh")

\* A fetch goes on, with what it has read and what it writes.
Goes(f, pc, val, slot) ==
  fetch' = [fetch EXCEPT ![f] = At(pc, fetch[f].key, fetch[f].kind, val, fetch[f].still, slot)]

\* The query of fn reads HAF at some moment of the fetch.
Reads(f) ==
  /\ fetch[f].pc = "fetching"
  /\ Goes(f, "resolving", ver, "fresh")
  /\ UNCHANGED <<ver, redis, caller, sweep, floor, faults>>

\* Seeded fault: the epochs are swapped, a volatile entry looks at the stable one only.
Gate_Swapped(f) == (IF fetch[f].key \in Stable THEN "volatile" ELSE "stable") \in fetch[f].still

\* notInvalidated.
Gate(f) == IF fetch[f].key \in Stable THEN "stable" \in fetch[f].still
           ELSE fetch[f].still = Epoch

\* QueryCache.set: the SET is sent.
Put(f, slot) ==
  LET s == <<fetch[f].key, slot>> IN
  /\ Goes(f, "writing", fetch[f].val, slot)
  /\ \/ redis' = [redis EXCEPT ![s] = fetch[f].val] /\ NoFault
     \/ UNCHANGED redis /\ Fault

\* The slot in inflight or revalidating is cleared; whoever waits is answered.
Ends(f) ==
  /\ fetch' = [fetch EXCEPT ![f] = IdleFetch]
  /\ caller' = [c \in Caller |-> IF caller[c].on = f THEN IdleCaller ELSE caller[c]]

\* fn resolves with data, with null, or rejects.
Resolves(f) ==
  /\ fetch[f].pc = "resolving"
  /\ \/ Gate(f) /\ Put(f, "fresh") /\ UNCHANGED caller
     \/ Ends(f) /\ UNCHANGED redis /\ NoFault
  /\ UNCHANGED <<ver, sweep, floor>>

\* The first write is awaited; the second, of the stale copy, does not look at the
\* epochs again.
Written(f) ==
  /\ fetch[f].pc = "writing"
  /\ IF fetch[f].slot = "fresh" /\ fetch[f].key \in Swr /\ fetch[f].kind # "reload"
       THEN Put(f, "stale") /\ UNCHANGED caller
       ELSE Ends(f) /\ UNCHANGED redis /\ NoFault
  /\ UNCHANGED <<ver, sweep, floor>>

\* The reload of a registered key, by its interval.
Reload(k) ==
  /\ k \in Periodic /\ \E f \in Free : fetch' = [fetch EXCEPT ![f] = Started(k, "reload")]
  /\ UNCHANGED <<ver, redis, caller, sweep, floor, faults>>

-----------------------------------------------------------------------------
(* Callers *)

Waits(c, f) == caller' = [caller EXCEPT ![c] = [pc |-> "waiting", on |-> f]]

\* QueryCache.get.
Get(s, found) ==
  \/ found = redis[s] /\ NoFault
  \/ found = 0 /\ redis[s] # 0 /\ Fault

\* A hit answers.  A stale hit answers and starts a revalidation unless one runs.
\* A miss joins the fetch in flight, or begins one.
Call(c, k) ==
  /\ caller[c].pc = "idle"
  /\ \A d \in Caller : d < c => caller[d].pc # "idle"   \* callers are interchangeable
  /\ \E fresh \in Value, stale \in Value :
       /\ Get(<<k, "fresh">>, fresh)
       /\ stale = IF k \in Swr THEN redis[<<k, "stale">>] ELSE 0
       /\ \/ fresh # 0 /\ UNCHANGED <<caller, fetch>>
          \/ /\ fresh = 0 /\ stale # 0 /\ UNCHANGED caller
             /\ IF Running(k, "revalidate") # {} \/ Free = {} THEN UNCHANGED fetch
                ELSE \E f \in Free : fetch' = [fetch EXCEPT ![f] = Started(k, "revalidate")]
          \/ /\ fresh = 0 /\ stale = 0 /\ Running(k, "cold") # {} /\ UNCHANGED fetch
             /\ \E f \in Running(k, "cold") : Waits(c, f)
          \/ /\ fresh = 0 /\ stale = 0 /\ Running(k, "cold") = {}
             /\ \E f \in Free : /\ fetch' = [fetch EXCEPT ![f] = Started(k, "cold")]
                               /\ Waits(c, f)
  /\ UNCHANGED <<ver, redis, sweep, floor>>

-----------------------------------------------------------------------------
(* Invalidations *)

Bumped(epochs) ==
  [f \in Fetch |-> At(fetch[f].pc, fetch[f].key, fetch[f].kind, fetch[f].val,
                      fetch[f].still \ epochs, fetch[f].slot)]

\* invalidate() and invalidatePrefix() bump both epochs, clearVolatile() its own.
KeyEpochs == Epoch

Without(store, slots) == [s \in Slot |-> IF s \in slots THEN 0 ELSE store[s]]

\* invalidate(key): the bumps and the DEL, of the fresh copy alone.
Invalidate(k) ==
  /\ sweep["route"].pc = "idle"
  /\ fetch' = Bumped(KeyEpochs)
  /\ \E done \in BOOLEAN :
       /\ IF done THEN redis' = Without(redis, {<<k, "fresh">>}) /\ NoFault
                  ELSE UNCHANGED redis /\ Fault
       /\ sweep' = [sweep EXCEPT !["route"] = Sweeping({<<k, "fresh">>}, {k}, TRUE, done)]
  /\ UNCHANGED <<ver, caller, floor>>

\* invalidatePrefix of a family of keys: the first bumps, and what the SCAN finds.
InvalidatePrefix(k) ==
  /\ sweep["route"].pc = "idle"
  /\ fetch' = Bumped(KeyEpochs)
  /\ sweep' = [sweep EXCEPT !["route"] =
       Sweeping({s \in {<<k, "fresh">>} : redis[s] # 0}, {k}, FALSE, TRUE)]
  /\ UNCHANGED <<ver, redis, caller, floor, faults>>

VolatileSlots == {s \in Slot : s[1] \notin Stable}

\* checkBlock sees a new block: clearVolatile() and its SCAN.
ClearVolatile ==
  /\ sweep["block"].pc = "idle"
  /\ fetch' = Bumped({"volatile"})
  /\ sweep' = [sweep EXCEPT !["block"] =
       Sweeping({s \in VolatileSlots : redis[s] # 0}, Key \ Stable, FALSE, TRUE)]
  /\ UNCHANGED <<ver, redis, caller, floor, faults>>

\* The rest of an invalidation: the DEL of what the SCAN found and the second bumps,
\* or, for invalidate(), the reload of a registered key.
Sweep(p) ==
  LET w == sweep[p]
      bumped == Bumped(IF w.single THEN {} ELSE IF p = "block" THEN {"volatile"} ELSE KeyEpochs)
  IN
  /\ w.pc = "sweeping"
  /\ \E ok \in BOOLEAN :
       /\ w.single => ok
       /\ IF w.single \/ ~ok THEN UNCHANGED redis ELSE redis' = Without(redis, w.slots)
       /\ IF ok THEN NoFault ELSE Fault
       /\ floor' = [k \in Key |-> IF ok /\ w.done /\ k \in w.keys /\ w.ver > floor[k]
                                    THEN w.ver ELSE floor[k]]
  /\ IF w.single /\ w.keys \subseteq Periodic /\ Free # {}
       THEN \E k \in w.keys, f \in Free : fetch' = [bumped EXCEPT ![f] = Started(k, "reload")]
       ELSE fetch' = bumped
  /\ sweep' = [sweep EXCEPT ![p] = IdleSweep]
  /\ UNCHANGED <<ver, caller>>

-----------------------------------------------------------------------------
NewVersion ==
  /\ ver < MaxVer /\ ver' = ver + 1
  /\ UNCHANGED <<redis, fetch, caller, sweep, floor, faults>>

\* An entry reaches its TTL.
Expire(s) ==
  /\ redis[s] # 0 /\ redis' = Without(redis, {s})
  /\ UNCHANGED <<ver, fetch, caller, sweep, floor, faults>>

Init ==
  /\ ver = 1 /\ redis = [s \in Slot |-> 0]
  /\ fetch = [f \in Fetch |-> IdleFetch] /\ caller = [c \in Caller |-> IdleCaller]
  /\ sweep = [p \in Sweeper |-> IdleSweep]
  /\ floor = [k \in Key |-> 0] /\ faults = 0

Next ==
  \/ \E f \in Fetch : Reads(f) \/ Resolves(f) \/ Written(f)
  \/ \E c \in Caller, k \in Key : Call(c, k)
  \/ \E k \in Key : Reload(k) \/ Invalidate(k) \/ InvalidatePrefix(k)
  \/ ClearVolatile \/ Sweep("block") \/ Sweep("route")
  \/ NewVersion \/ \E s \in Slot : Expire(s)

Spec == Init /\ [][Next]_vars

-----------------------------------------------------------------------------
(* Properties *)

\* Once an invalidation of a key has succeeded, Redis never again holds a fresh
\* entry of it that was read before: over fetches, revalidations and reloads that
\* began earlier and over both tiers of epochs.
NoResurrection == \A k \in Key : redis[<<k, "fresh">>] # 0 => redis[<<k, "fresh">>] >= floor[k]
=============================================================================
