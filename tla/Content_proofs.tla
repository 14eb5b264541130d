-------------------------- MODULE Content_proofs --------------------------
(* Proofs about the query cache, uploads, the semaphore of argon2, the round   *)
(* trip to ORCID, the claims of a paper, and the feed and the digest, each for *)
(* any keys, callers, tokens and accounts, and any bounds.  A part is laid out *)
(* the same way in all: the inductive invariant, what several steps have in    *)
(* common, one lemma for each action, the theorems.                            *)
EXTENDS Content, FiniteSetTheorems, SequenceTheorems, WellFoundedInduction, TLAPS

(***************************************************************************)
(* The inductive invariant.                                                *)
(***************************************************************************)

\* A fetch that may still write, in the tier of its key, when the epochs that are still
\* those of its beginning are e.
Open(k, e) == IF k \in Stable THEN "stable" \in e ELSE e = Epoch

\* What such a fetch has read is no older than v.
ReadSince(v, k) ==
  \A f \in Fetch : fetch[f].pc = "resolving" /\ fetch[f].key = k /\ Open(k, fetch[f].still)
                     => fetch[f].val >= v

\* The fresh entry of a key is gone, or was read since v.
WrittenSince(v, k) == redis[<<k, "fresh">>] # 0 => redis[<<k, "fresh">>] >= v

\* HAF never goes back behind an invalidation.
Ahead ==
  /\ \A k \in Key : floor[k] <= ver
  /\ \A p \in Sweeper : sweep[p].ver <= ver

\* No open fetch holds what a finished invalidation was about.
FloorHolds == \A k \in Key : ReadSince(floor[k], k)

\* Nor one that is under way, whose SCAN found the entry unless it was written after.
SweepHolds ==
  \A p \in Sweeper, k \in Key :
    sweep[p].pc = "sweeping" /\ k \in sweep[p].keys =>
      /\ ReadSince(sweep[p].ver, k)
      /\ \/ ~sweep[p].single /\ <<k, "fresh">> \in sweep[p].slots
         \/ ~sweep[p].done
         \/ WrittenSince(sweep[p].ver, k)

IInv == TypeOK /\ Ahead /\ FloorHolds /\ SweepHolds /\ NoResurrection

(***************************************************************************)
(* Typing.                                                                 *)
(***************************************************************************)

\* The versions, and the entries of a key.
LEMMA Values ==
    /\ MaxVer \in Nat \ {0} /\ MaxFaults \in Nat /\ Value \subseteq Nat /\ 0 \in Value
    /\ 1..MaxVer \subseteq Value
    /\ \A k \in Key : <<k, "fresh">> \in Slot /\ <<k, "stale">> \in Slot
    /\ Stable \subseteq Key /\ Periodic \subseteq Key
  BY CacheAssumption DEF Value, Slot

\* What a fetch holds.
LEMMA Held ==
    ASSUME TypeOK, NEW f \in Fetch
    PROVE  /\ fetch[f].key \in Key \cup {None} /\ fetch[f].kind \in {"cold", "revalidate", "reload"}
           /\ fetch[f].val \in Value /\ fetch[f].still \subseteq Epoch
           /\ fetch[f].slot \in {"fresh", "stale"}
           /\ fetch[f].pc \in {"idle", "fetching", "resolving", "writing"}
  BY DEF TypeOK, FetchRec

\* The fetches the steps make, and the invalidations.
LEMMA Made ==
    ASSUME TypeOK
    PROVE  /\ IdleFetch \in FetchRec
           /\ \A k \in Key, kind \in {"cold", "revalidate", "reload"} : Started(k, kind) \in FetchRec
           /\ \A f \in Fetch, pc \in {"resolving", "writing"}, val \in Value, slot \in {"fresh", "stale"} :
                At(pc, fetch[f].key, fetch[f].kind, val, fetch[f].still, slot) \in FetchRec
           /\ \A f \in Fetch, epochs \in SUBSET Epoch :
                At(fetch[f].pc, fetch[f].key, fetch[f].kind, fetch[f].val,
                   fetch[f].still \ epochs, fetch[f].slot) \in FetchRec
           /\ IdleSweep \in SweepRec
           /\ \A slots \in SUBSET Slot, keys \in SUBSET Key, single \in BOOLEAN, done \in BOOLEAN :
                Sweeping(slots, keys, single, done) \in SweepRec
  <1>1. IdleFetch \in FetchRec
    BY Values DEF IdleFetch, At, FetchRec
  <1>2. \A k \in Key, kind \in {"cold", "revalidate", "reload"} : Started(k, kind) \in FetchRec
    BY Values DEF Started, At, FetchRec
  <1>3. \A f \in Fetch, pc \in {"resolving", "writing"}, val \in Value, slot \in {"fresh", "stale"} :
          At(pc, fetch[f].key, fetch[f].kind, val, fetch[f].still, slot) \in FetchRec
    BY Held DEF At, FetchRec
  <1>4. \A f \in Fetch, epochs \in SUBSET Epoch :
          At(fetch[f].pc, fetch[f].key, fetch[f].kind, fetch[f].val,
             fetch[f].still \ epochs, fetch[f].slot) \in FetchRec
    BY Held DEF At, FetchRec
  <1>5. IdleSweep \in SweepRec
    BY Values DEF IdleSweep, SweepRec
  <1>6. ver \in Value
    BY Values DEF TypeOK
  <1>7. \A slots \in SUBSET Slot, keys \in SUBSET Key, single \in BOOLEAN, done \in BOOLEAN :
          Sweeping(slots, keys, single, done) \in SweepRec
    BY <1>6 DEF Sweeping, SweepRec
  <1> QED
    BY <1>1, <1>2, <1>3, <1>4, <1>5, <1>7

\* One fetch becomes another.
LEMMA Become ==
    ASSUME TypeOK, NEW f \in Fetch, NEW rec \in FetchRec, fetch' = [fetch EXCEPT ![f] = rec]
    PROVE  /\ fetch' \in [Fetch -> FetchRec] /\ fetch'[f] = rec
           /\ \A g \in Fetch \ {f} : fetch'[g] = fetch[g]
  BY DEF TypeOK

\* The epochs a bump takes from every fetch.
LEMMA Bump ==
    ASSUME TypeOK, NEW epochs \in SUBSET Epoch
    PROVE  /\ Bumped(epochs) \in [Fetch -> FetchRec]
           /\ \A f \in Fetch :
                /\ Bumped(epochs)[f].pc = fetch[f].pc /\ Bumped(epochs)[f].key = fetch[f].key
                /\ Bumped(epochs)[f].val = fetch[f].val
                /\ Bumped(epochs)[f].still = fetch[f].still \ epochs
  <1>1. Bumped(epochs) \in [Fetch -> FetchRec]
    BY Made DEF Bumped
  <1> QED
    BY <1>1 DEF Bumped, At

\* Entries are deleted, the others stay.
LEMMA Delete ==
    ASSUME TypeOK, NEW slots
    PROVE  /\ Without(redis, slots) \in [Slot -> Value]
           /\ \A s \in Slot : Without(redis, slots)[s] = IF s \in slots THEN 0 ELSE redis[s]
  BY Values DEF TypeOK, Without

\* Fault histories.
LEMMA FaultsGrow ==
    ASSUME TypeOK, Fault \/ NoFault
    PROVE  faults' \in 0..MaxFaults
  BY Values DEF TypeOK, Fault, NoFault

\* The SET of a fetch that writes.
LEMMA Puts ==
    ASSUME TypeOK, NEW f \in Fetch, NEW slot \in {"fresh", "stale"}, Put(f, slot)
    PROVE  /\ fetch' \in [Fetch -> FetchRec] /\ fetch'[f].pc = "writing"
           /\ fetch'[f].key = fetch[f].key
           /\ \A g \in Fetch \ {f} : fetch'[g] = fetch[g]
           /\ redis' \in [Slot -> Value] /\ faults' \in 0..MaxFaults
           /\ \A s \in Slot : redis'[s] = redis[s] \/ (s = <<fetch[f].key, slot>> /\ redis'[s] = fetch[f].val)
  <1> DEFINE rec == At("writing", fetch[f].key, fetch[f].kind, fetch[f].val, fetch[f].still, slot)
  <1>1. rec \in FetchRec /\ fetch[f].val \in Value
    BY Made, Held
  <1>2. fetch' = [fetch EXCEPT ![f] = rec]
    BY DEF Put, Goes
  <1>3. rec.pc = "writing" /\ rec.key = fetch[f].key
    BY DEF At
  <1> HIDE DEF rec
  <1>4. /\ fetch' \in [Fetch -> FetchRec] /\ fetch'[f] = rec
        /\ \A g \in Fetch \ {f} : fetch'[g] = fetch[g]
    BY <1>1, <1>2, Become
  <1>5. \/ redis' = [redis EXCEPT ![<<fetch[f].key, slot>>] = fetch[f].val] /\ NoFault
        \/ redis' = redis /\ Fault
    BY DEF Put
  <1>6. faults' \in 0..MaxFaults
    BY <1>5, FaultsGrow
  <1>7. redis \in [Slot -> Value]
    BY DEF TypeOK
  <1> QED
    BY <1>1, <1>3, <1>4, <1>5, <1>6, <1>7

\* The end of a fetch.
LEMMA End ==
    ASSUME TypeOK, NEW f \in Fetch, Ends(f)
    PROVE  /\ fetch' \in [Fetch -> FetchRec] /\ fetch'[f].pc = "idle"
           /\ \A g \in Fetch \ {f} : fetch'[g] = fetch[g]
           /\ caller' \in [Caller -> CallerRec]
  <1>1. IdleFetch \in FetchRec /\ IdleFetch.pc = "idle"
    BY Made DEF IdleFetch, At
  <1>2. IdleCaller \in CallerRec
    BY DEF IdleCaller, CallerRec
  <1>3. caller' \in [Caller -> CallerRec]
    BY <1>2 DEF Ends, TypeOK
  <1> QED
    BY <1>1, <1>3, Become DEF Ends

\* The beginning of one.
LEMMA Start ==
    ASSUME TypeOK, NEW f \in Fetch, NEW k \in Key, NEW kind \in {"cold", "revalidate", "reload"},
           fetch' = [fetch EXCEPT ![f] = Started(k, kind)]
    PROVE  /\ fetch' \in [Fetch -> FetchRec] /\ fetch'[f].pc = "fetching"
           /\ \A g \in Fetch \ {f} : fetch'[g] = fetch[g]
  <1>1. Started(k, kind) \in FetchRec /\ Started(k, kind).pc = "fetching"
    BY Made DEF Started, At
  <1> QED
    BY <1>1, Become

\* A caller that waits on a fetch.
LEMMA Wait ==
    ASSUME TypeOK, NEW c \in Caller, NEW f \in Fetch, Waits(c, f)
    PROVE  caller' \in [Caller -> CallerRec]
  <1>1. [pc |-> "waiting", on |-> f] \in CallerRec
    BY DEF CallerRec
  <1> QED
    BY <1>1 DEF TypeOK, Waits

\* What a call leaves behind.
LEMMA Calls ==
    ASSUME TypeOK, NEW c \in Caller, NEW k \in Key, Call(c, k)
    PROVE  /\ caller' \in [Caller -> CallerRec] /\ faults' \in 0..MaxFaults
           /\ \/ fetch' = fetch
              \/ \E f \in Fetch, kind \in {"cold", "revalidate"} :
                    fetch' = [fetch EXCEPT ![f] = Started(k, kind)]
           /\ UNCHANGED <<ver, redis, sweep, floor>>
  <1>1. PICK fresh \in Value, stale \in Value :
          /\ Get(<<k, "fresh">>, fresh)
          /\ \/ UNCHANGED <<caller, fetch>>
             \/ /\ UNCHANGED caller
                /\ \/ UNCHANGED fetch
                   \/ \E f \in Free : fetch' = [fetch EXCEPT ![f] = Started(k, "revalidate")]
             \/ /\ UNCHANGED fetch
                /\ \E f \in Running(k, "cold") : Waits(c, f)
             \/ \E f \in Free : /\ fetch' = [fetch EXCEPT ![f] = Started(k, "cold")]
                                /\ Waits(c, f)
    BY DEF Call
  <1>2. Free \subseteq Fetch /\ Running(k, "cold") \subseteq Fetch
    BY DEF Free, Unused, Running
  <1>3. faults' \in 0..MaxFaults
    BY <1>1, FaultsGrow DEF Get
  <1>4. caller' \in [Caller -> CallerRec]
    <2>1. caller \in [Caller -> CallerRec]
      BY DEF TypeOK
    <2> QED
      BY <1>1, <1>2, <2>1, Wait
  <1>5. UNCHANGED <<ver, redis, sweep, floor>>
    BY DEF Call
  <1> QED
    BY <1>1, <1>2, <1>3, <1>4, <1>5

\* What its end leaves behind.
LEMMA Finishes ==
    ASSUME TypeOK, NEW p \in Sweeper, Sweep(p)
    PROVE  /\ sweep' \in [Sweeper -> SweepRec] /\ sweep'[p].pc = "idle" /\ sweep'[p].ver = 0
           /\ \A q \in Sweeper \ {p} : sweep'[q] = sweep[q]
           /\ fetch' \in [Fetch -> FetchRec]
           /\ \A f \in Fetch : \/ fetch'[f].pc = "fetching"
                               \/ /\ fetch'[f].pc = fetch[f].pc /\ fetch'[f].key = fetch[f].key
                                  /\ fetch'[f].val = fetch[f].val
                                  /\ fetch'[f].still \subseteq fetch[f].still
           /\ redis' \in [Slot -> Value]
           /\ \A s \in Slot : redis'[s] = redis[s] \/ redis'[s] = 0
           /\ floor' \in [Key -> Value] /\ faults' \in 0..MaxFaults
           /\ \A k \in Key :
                \/ floor'[k] = floor[k]
                \/ /\ sweep[p].pc = "sweeping" /\ k \in sweep[p].keys /\ sweep[p].done
                   /\ floor'[k] = sweep[p].ver
                   /\ ~sweep[p].single =>
                        \A s \in Slot : redis'[s] = IF s \in sweep[p].slots THEN 0 ELSE redis[s]
           /\ UNCHANGED <<ver, caller>>
  <1> DEFINE w == sweep[p]
             epochs == IF w.single THEN {} ELSE IF p = "block" THEN {"volatile"} ELSE KeyEpochs
             bumped == Bumped(epochs)
  <1>1. w \in SweepRec /\ w.ver \in Value
    BY DEF TypeOK, SweepRec
  <1>2. epochs \in SUBSET Epoch
    BY DEF KeyEpochs, Epoch
  <1>3. /\ bumped \in [Fetch -> FetchRec]
        /\ \A f \in Fetch : /\ bumped[f].pc = fetch[f].pc /\ bumped[f].key = fetch[f].key
                            /\ bumped[f].val = fetch[f].val
                            /\ bumped[f].still \subseteq fetch[f].still
    <2> HIDE DEF epochs
    <2> QED
      BY <1>2, Bump
  <1>4. /\ w.pc = "sweeping"
        /\ \E ok \in BOOLEAN :
             /\ w.single => ok
             /\ IF w.single \/ ~ok THEN UNCHANGED redis ELSE redis' = Without(redis, w.slots)
             /\ IF ok THEN NoFault ELSE Fault
             /\ floor' = [k \in Key |-> IF ok /\ w.done /\ k \in w.keys /\ w.ver > floor[k]
                                          THEN w.ver ELSE floor[k]]
        /\ \/ \E k \in w.keys, f \in Free : fetch' = [bumped EXCEPT ![f] = Started(k, "reload")]
           \/ fetch' = bumped
        /\ sweep' = [sweep EXCEPT ![p] = IdleSweep]
        /\ UNCHANGED <<ver, caller>>
    BY DEF Sweep
  <1> HIDE DEF bumped, epochs
  <1>5. /\ fetch' \in [Fetch -> FetchRec]
        /\ \A f \in Fetch : \/ fetch'[f].pc = "fetching"
                            \/ /\ fetch'[f].pc = fetch[f].pc /\ fetch'[f].key = fetch[f].key
                               /\ fetch'[f].val = fetch[f].val
                               /\ fetch'[f].still \subseteq fetch[f].still
    <2>1. CASE fetch' = bumped
      BY <1>3, <2>1
    <2>2. CASE \E k \in w.keys, f \in Free : fetch' = [bumped EXCEPT ![f] = Started(k, "reload")]
      <3>1. PICK k \in w.keys, f \in Free : fetch' = [bumped EXCEPT ![f] = Started(k, "reload")]
        BY <2>2
      <3>2. k \in Key /\ f \in Fetch
        BY <1>1 DEF SweepRec, Free, Unused
      <3>3. Started(k, "reload") \in FetchRec /\ Started(k, "reload").pc = "fetching"
        BY <3>2, Made DEF Started, At
      <3> HIDE DEF w
      <3> QED
        BY <1>3, <3>1, <3>2, <3>3
    <2> QED
      BY <1>4, <2>1, <2>2
  <1>6. PICK ok \in BOOLEAN :
          /\ w.single => ok
          /\ IF w.single \/ ~ok THEN UNCHANGED redis ELSE redis' = Without(redis, w.slots)
          /\ IF ok THEN NoFault ELSE Fault
          /\ floor' = [k \in Key |-> IF ok /\ w.done /\ k \in w.keys /\ w.ver > floor[k]
                                       THEN w.ver ELSE floor[k]]
    BY <1>4
  <1>7. faults' \in 0..MaxFaults
    BY <1>6, FaultsGrow
  <1>8. redis' \in [Slot -> Value] /\ \A s \in Slot : redis'[s] = redis[s] \/ redis'[s] = 0
    <2>1. redis \in [Slot -> Value]
      BY DEF TypeOK
    <2> HIDE DEF w
    <2> QED
      BY <1>6, <2>1, Delete
  <1>9. /\ floor' \in [Key -> Value]
        /\ \A k \in Key :
             \/ floor'[k] = floor[k]
             \/ ok /\ w.done /\ k \in w.keys /\ floor'[k] = w.ver
    <2>1. floor \in [Key -> Value]
      BY DEF TypeOK
    <2> HIDE DEF w
    <2> QED
      BY <1>1, <1>6, <2>1
  <1>10. ok /\ ~w.single => \A s \in Slot : redis'[s] = IF s \in w.slots THEN 0 ELSE redis[s]
    BY <1>6, Delete
  <1>11. /\ sweep' \in [Sweeper -> SweepRec] /\ sweep'[p].pc = "idle" /\ sweep'[p].ver = 0
         /\ \A q \in Sweeper \ {p} : sweep'[q] = sweep[q]
    <2>1. IdleSweep \in SweepRec /\ IdleSweep.pc = "idle" /\ IdleSweep.ver = 0
      BY Made DEF IdleSweep
    <2>2. sweep \in [Sweeper -> SweepRec]
      BY DEF TypeOK
    <2> QED
      BY <1>4, <2>1, <2>2
  <1> QED
    BY <1>4, <1>5, <1>7, <1>8, <1>9, <1>10, <1>11

(***************************************************************************)
(* What a step does to a fetch, an entry and an invalidation.              *)
(***************************************************************************)

\* A fetch that has read, has just read or had; what it had does not change, and what it
\* lost of the epochs does not come back.
FetchCourse(f) ==
  \/ fetch'[f].pc # "resolving"
  \/ fetch'[f].val = ver /\ ver' = ver
  \/ /\ fetch[f].pc = "resolving"
     /\ fetch'[f].key = fetch[f].key /\ fetch'[f].val = fetch[f].val
     /\ fetch'[f].still \subseteq fetch[f].still

\* A fresh entry changes by going, or by the write of an open fetch.
EntryCourse(k) ==
  \/ redis'[<<k, "fresh">>] \in {0, redis[<<k, "fresh">>]}
  \/ \E f \in Fetch : /\ fetch[f].pc = "resolving" /\ fetch[f].key = k /\ Open(k, fetch[f].still)
                      /\ redis'[<<k, "fresh">>] = fetch[f].val

\* An invalidation goes on, is over, or has begun: then no fetch of its keys is open, and
\* the entry is known to the SCAN, gone, or could not be deleted.
SweepCourse(p) ==
  \/ sweep'[p] = sweep[p]
  \/ sweep'[p].pc = "idle" /\ sweep'[p].ver = 0
  \/ /\ sweep'[p].ver = ver /\ ver' = ver
     /\ \A k \in Key : k \in sweep'[p].keys =>
          /\ \A f \in Fetch : fetch'[f].key = k => ~Open(k, fetch'[f].still)
          /\ \/ ~sweep'[p].single /\ <<k, "fresh">> \in sweep'[p].slots
             \/ ~sweep'[p].done
             \/ redis'[<<k, "fresh">>] = 0

\* A floor rises to the version of an invalidation that is over, and succeeded.
FloorCourse(k) ==
  \/ floor'[k] = floor[k]
  \/ \E p \in Sweeper :
       /\ sweep[p].pc = "sweeping" /\ k \in sweep[p].keys /\ sweep[p].done
       /\ floor'[k] = sweep[p].ver
       /\ ~sweep[p].single /\ <<k, "fresh">> \in sweep[p].slots => redis'[<<k, "fresh">>] = 0
       /\ redis'[<<k, "fresh">>] \in {0, redis[<<k, "fresh">>]}

\* All of them, for a step.
Course ==
  /\ TypeOK'
  /\ ver' >= ver
  /\ \A f \in Fetch : FetchCourse(f)
  /\ \A k \in Key : EntryCourse(k) /\ FloorCourse(k)
  /\ \A p \in Sweeper : SweepCourse(p)

\* A fetch that reads.
LEMMA ReadsCourse ==
    ASSUME TypeOK, NEW f \in Fetch, Reads(f)
    PROVE  Course
  <1> DEFINE rec == At("resolving", fetch[f].key, fetch[f].kind, ver, fetch[f].still, "fresh")
  <1>1. ver \in Value /\ ver \in Nat
    BY Values DEF TypeOK
  <1>2. rec \in FetchRec
    BY <1>1, Made
  <1>3. rec.pc = "resolving" /\ rec.val = ver
    BY DEF At
  <1>4. fetch' = [fetch EXCEPT ![f] = rec] /\ UNCHANGED <<ver, redis, caller, sweep, floor, faults>>
    BY DEF Reads, Goes
  <1> HIDE DEF rec
  <1>5. /\ fetch' \in [Fetch -> FetchRec] /\ fetch'[f] = rec
        /\ \A g \in Fetch \ {f} : fetch'[g] = fetch[g]
    BY <1>2, <1>4, Become
  <1>6. \A g \in Fetch : FetchCourse(g)
    BY <1>3, <1>4, <1>5 DEF FetchCourse
  <1>7. TypeOK'
    BY <1>4, <1>5 DEF TypeOK
  <1> QED
    BY <1>1, <1>4, <1>6, <1>7 DEF Course, EntryCourse, FloorCourse, SweepCourse

\* A fetch that resolves.
LEMMA ResolvesCourse ==
    ASSUME TypeOK, NEW f \in Fetch, Resolves(f)
    PROVE  Course
  <1>1. ver \in Nat /\ fetch[f].pc = "resolving" /\ UNCHANGED <<ver, sweep, floor>>
    BY Values DEF TypeOK, Resolves
  <1>2. CASE Gate(f) /\ Put(f, "fresh") /\ UNCHANGED caller
    <2>1. /\ fetch' \in [Fetch -> FetchRec] /\ fetch'[f].pc = "writing"
          /\ \A g \in Fetch \ {f} : fetch'[g] = fetch[g]
          /\ redis' \in [Slot -> Value] /\ faults' \in 0..MaxFaults
          /\ \A s \in Slot : redis'[s] = redis[s] \/ (s = <<fetch[f].key, "fresh">> /\ redis'[s] = fetch[f].val)
      BY <1>2, Puts
    <2>2. \A k \in Key : EntryCourse(k)
      <3>1. SUFFICES ASSUME NEW k \in Key, redis'[<<k, "fresh">>] # redis[<<k, "fresh">>]
                     PROVE  EntryCourse(k)
        BY DEF EntryCourse
      <3>2. fetch[f].key = k /\ redis'[<<k, "fresh">>] = fetch[f].val
        BY <2>1, <3>1, Values
      <3>3. Open(k, fetch[f].still)
        BY <1>2, <3>2 DEF Gate, Open
      <3> QED
        BY <1>1, <3>2, <3>3 DEF EntryCourse
    <2>3. \A g \in Fetch : FetchCourse(g)
      BY <2>1 DEF FetchCourse
    <2>4. TypeOK'
      BY <1>1, <1>2, <2>1 DEF TypeOK
    <2> QED
      BY <1>1, <2>2, <2>3, <2>4 DEF Course, FloorCourse, SweepCourse
  <1>3. CASE Ends(f) /\ UNCHANGED redis /\ NoFault
    <2>1. /\ fetch' \in [Fetch -> FetchRec] /\ fetch'[f].pc = "idle"
          /\ \A g \in Fetch \ {f} : fetch'[g] = fetch[g]
          /\ caller' \in [Caller -> CallerRec] /\ faults' \in 0..MaxFaults
      BY <1>3, End, FaultsGrow
    <2>2. TypeOK'
      BY <1>1, <1>3, <2>1 DEF TypeOK
    <2> QED
      BY <1>1, <1>3, <2>1, <2>2 DEF Course, FetchCourse, EntryCourse, FloorCourse, SweepCourse
  <1> QED
    BY <1>2, <1>3 DEF Resolves

\* A fetch whose write is done.
LEMMA WrittenCourse ==
    ASSUME TypeOK, NEW f \in Fetch, Written(f)
    PROVE  Course
  <1>1. ver \in Nat /\ UNCHANGED <<ver, sweep, floor>>
    BY Values DEF TypeOK, Written
  <1>2. CASE Put(f, "stale") /\ UNCHANGED caller
    <2>1. /\ fetch' \in [Fetch -> FetchRec] /\ fetch'[f].pc = "writing"
          /\ \A g \in Fetch \ {f} : fetch'[g] = fetch[g]
          /\ redis' \in [Slot -> Value] /\ faults' \in 0..MaxFaults
          /\ \A s \in Slot : redis'[s] = redis[s] \/ (s = <<fetch[f].key, "stale">> /\ redis'[s] = fetch[f].val)
      BY <1>2, Puts
    <2>2. \A k \in Key : redis'[<<k, "fresh">>] = redis[<<k, "fresh">>]
      <3>1. \A k : <<k, "fresh">> # <<fetch[f].key, "stale">>
        OBVIOUS
      <3> QED
        BY <2>1, <3>1, Values
    <2>3. TypeOK'
      BY <1>1, <1>2, <2>1 DEF TypeOK
    <2> QED
      BY <1>1, <2>1, <2>2, <2>3 DEF Course, FetchCourse, EntryCourse, FloorCourse, SweepCourse
  <1>3. CASE Ends(f) /\ UNCHANGED redis /\ NoFault
    <2>1. /\ fetch' \in [Fetch -> FetchRec] /\ fetch'[f].pc = "idle"
          /\ \A g \in Fetch \ {f} : fetch'[g] = fetch[g]
          /\ caller' \in [Caller -> CallerRec] /\ faults' \in 0..MaxFaults
      BY <1>3, End, FaultsGrow
    <2>2. TypeOK'
      BY <1>1, <1>3, <2>1 DEF TypeOK
    <2> QED
      BY <1>1, <1>3, <2>1, <2>2 DEF Course, FetchCourse, EntryCourse, FloorCourse, SweepCourse
  <1> QED
    BY <1>2, <1>3 DEF Written

\* A fetch that begins, or none.
LEMMA BeginsCourse ==
    ASSUME TypeOK, UNCHANGED <<ver, redis, sweep, floor>>,
           caller' \in [Caller -> CallerRec], faults' \in 0..MaxFaults,
           \/ fetch' = fetch
           \/ \E f \in Fetch, k \in Key, kind \in {"cold", "revalidate", "reload"} :
                 fetch' = [fetch EXCEPT ![f] = Started(k, kind)]
    PROVE  Course
  <1>1. ver \in Nat
    BY DEF TypeOK
  <1>2. /\ fetch' \in [Fetch -> FetchRec]
        /\ \A g \in Fetch : fetch'[g].pc = "fetching" \/ fetch'[g] = fetch[g]
    <2>1. CASE fetch' = fetch
      BY <2>1 DEF TypeOK
    <2>2. CASE \E f \in Fetch, k \in Key, kind \in {"cold", "revalidate", "reload"} :
                 fetch' = [fetch EXCEPT ![f] = Started(k, kind)]
      BY <2>2, Start
    <2> QED
      BY <2>1, <2>2
  <1>3. TypeOK'
    BY <1>2 DEF TypeOK
  <1> QED
    BY <1>1, <1>2, <1>3 DEF Course, FetchCourse, EntryCourse, FloorCourse, SweepCourse

\* No fetch of a key whose epoch was bumped is open.
LEMMA Closed ==
    ASSUME TypeOK, NEW epochs \in SUBSET Epoch, NEW f \in Fetch, NEW k \in Key,
           epochs = Epoch \/ ("volatile" \in epochs /\ k \notin Stable)
    PROVE  ~Open(k, Bumped(epochs)[f].still)
  BY Bump, Held DEF Open, Epoch

\* An invalidation that begins.
LEMMA InvalidationCourse ==
    ASSUME TypeOK, NEW p \in Sweeper, NEW epochs \in SUBSET Epoch, fetch' = Bumped(epochs),
           NEW slots \in SUBSET Slot, NEW keys \in SUBSET Key,
           NEW single \in BOOLEAN, NEW done \in BOOLEAN,
           sweep' = [sweep EXCEPT ![p] = Sweeping(slots, keys, single, done)],
           epochs = Epoch \/ ("volatile" \in epochs /\ keys \cap Stable = {}),
           redis' \in [Slot -> Value],
           \A k \in Key : redis'[<<k, "fresh">>] \in {0, redis[<<k, "fresh">>]},
           \A k \in keys : \/ ~single /\ <<k, "fresh">> \in slots
                           \/ ~done
                           \/ redis'[<<k, "fresh">>] = 0,
           faults' \in 0..MaxFaults, UNCHANGED <<ver, caller, floor>>
    PROVE  Course
  <1>1. ver \in Nat
    BY DEF TypeOK
  <1>2. /\ fetch' \in [Fetch -> FetchRec]
        /\ \A f \in Fetch : /\ fetch'[f].pc = fetch[f].pc /\ fetch'[f].key = fetch[f].key
                            /\ fetch'[f].val = fetch[f].val
                            /\ fetch'[f].still \subseteq fetch[f].still
    BY Bump
  <1>3. \A f \in Fetch : FetchCourse(f)
    BY <1>2 DEF FetchCourse
  <1>4. /\ sweep' \in [Sweeper -> SweepRec]
        /\ sweep'[p].pc = "sweeping" /\ sweep'[p].slots = slots /\ sweep'[p].keys = keys
        /\ sweep'[p].single = single /\ sweep'[p].done = done /\ sweep'[p].ver = ver
        /\ \A q \in Sweeper \ {p} : sweep'[q] = sweep[q]
    <2> DEFINE w == Sweeping(slots, keys, single, done)
    <2>1. w \in SweepRec
      BY Made
    <2>2. /\ w.pc = "sweeping" /\ w.slots = slots /\ w.keys = keys
          /\ w.single = single /\ w.done = done /\ w.ver = ver
      BY DEF Sweeping
    <2>3. sweep' = [sweep EXCEPT ![p] = w] /\ sweep \in [Sweeper -> SweepRec]
      BY DEF TypeOK
    <2> HIDE DEF w
    <2> QED
      BY <2>1, <2>2, <2>3
  <1>5. \A f \in Fetch, k \in keys : ~Open(k, fetch'[f].still)
    BY Closed
  <1>6. \A q \in Sweeper : SweepCourse(q)
    BY <1>4, <1>5 DEF SweepCourse
  <1>7. TypeOK'
    BY <1>2, <1>4 DEF TypeOK
  <1> QED
    BY <1>1, <1>3, <1>6, <1>7 DEF Course, EntryCourse, FloorCourse

\* The invalidation of a key.
LEMMA InvalidateCourse ==
    ASSUME TypeOK, NEW k \in Key, Invalidate(k)
    PROVE  Course
  <1>1. /\ fetch' = Bumped(Epoch) /\ UNCHANGED <<ver, caller, floor>>
        /\ \/ /\ redis' = Without(redis, {<<k, "fresh">>}) /\ NoFault
              /\ sweep' = [sweep EXCEPT !["route"] = Sweeping({<<k, "fresh">>}, {k}, TRUE, TRUE)]
           \/ /\ UNCHANGED redis /\ Fault
              /\ sweep' = [sweep EXCEPT !["route"] = Sweeping({<<k, "fresh">>}, {k}, TRUE, FALSE)]
    BY DEF Invalidate, KeyEpochs
  <1>2. /\ redis' \in [Slot -> Value]
        /\ \A j \in Key : redis'[<<j, "fresh">>] \in {0, redis[<<j, "fresh">>]}
    <2>1. redis \in [Slot -> Value]
      BY DEF TypeOK
    <2> QED
      <3>1. CASE redis' = redis
        BY <2>1, <3>1
      <3>2. CASE redis' = Without(redis, {<<k, "fresh">>})
        BY <3>2, Delete, Values
      <3> QED
        BY <1>1, <3>1, <3>2
  <1>3. faults' \in 0..MaxFaults
    BY <1>1, FaultsGrow
  <1>4. "route" \in Sweeper /\ Epoch \in SUBSET Epoch /\ TRUE \in BOOLEAN /\ FALSE \in BOOLEAN
    BY DEF Sweeper
  <1>5. {<<k, "fresh">>} \in SUBSET Slot /\ {k} \in SUBSET Key
    BY Values
  <1>6. CASE sweep' = [sweep EXCEPT !["route"] = Sweeping({<<k, "fresh">>}, {k}, TRUE, FALSE)]
    BY <1>1, <1>2, <1>3, <1>4, <1>5, <1>6, InvalidationCourse
  <1>7. CASE /\ redis' = Without(redis, {<<k, "fresh">>})
             /\ sweep' = [sweep EXCEPT !["route"] = Sweeping({<<k, "fresh">>}, {k}, TRUE, TRUE)]
    <2> DEFINE slots == {<<k, "fresh">>}
               keys == {k}
    <2>1. \A j \in keys : redis'[<<j, "fresh">>] = 0
      BY ZenonT(40), <1>7, Delete, Values
    <2>2. /\ sweep' = [sweep EXCEPT !["route"] = Sweeping(slots, keys, TRUE, TRUE)]
          /\ slots \in SUBSET Slot /\ keys \in SUBSET Key
      BY <1>5, <1>7
    <2>3. fetch' = Bumped(Epoch) /\ UNCHANGED <<ver, caller, floor>>
      BY <1>1
    <2> HIDE DEF slots, keys
    <2> QED
      BY <1>2, <1>3, <1>4, <2>1, <2>2, <2>3, InvalidationCourse
  <1> QED
    BY <1>1, <1>6, <1>7

\* The beginning of the invalidation of a family.
LEMMA InvalidatePrefixCourse ==
    ASSUME TypeOK, NEW k \in Key, InvalidatePrefix(k)
    PROVE  Course
  <1> DEFINE slots == {s \in {<<k, "fresh">>} : redis[s] # 0}
  <1>1. /\ fetch' = Bumped(Epoch) /\ sweep' = [sweep EXCEPT !["route"] = Sweeping(slots, {k}, FALSE, TRUE)]
        /\ UNCHANGED <<ver, redis, caller, floor, faults>>
    BY DEF InvalidatePrefix, KeyEpochs
  <1>2. "route" \in Sweeper /\ Epoch \in SUBSET Epoch /\ TRUE \in BOOLEAN /\ FALSE \in BOOLEAN
    BY DEF Sweeper
  <1>3. slots \in SUBSET Slot /\ {k} \in SUBSET Key
    BY Values
  <1>4. <<k, "fresh">> \in slots \/ redis'[<<k, "fresh">>] = 0
    BY <1>1
  <1>5. redis' \in [Slot -> Value] /\ faults' \in 0..MaxFaults
    BY <1>1 DEF TypeOK
  <1> HIDE DEF slots
  <1> QED
    BY ZenonT(40), <1>1, <1>2, <1>3, <1>4, <1>5, InvalidationCourse

\* The beginning of that of a block.
LEMMA ClearVolatileCourse ==
    ASSUME TypeOK, ClearVolatile
    PROVE  Course
  <1> DEFINE slots == {s \in VolatileSlots : redis[s] # 0}
             keys == Key \ Stable
  <1>1. /\ fetch' = Bumped({"volatile"}) /\ sweep' = [sweep EXCEPT !["block"] = Sweeping(slots, keys, FALSE, TRUE)]
        /\ UNCHANGED <<ver, redis, caller, floor, faults>>
    BY DEF ClearVolatile
  <1>2. /\ "block" \in Sweeper /\ {"volatile"} \in SUBSET Epoch /\ TRUE \in BOOLEAN /\ FALSE \in BOOLEAN
        /\ "volatile" \in {"volatile"} /\ keys \cap Stable = {}
    BY DEF Sweeper, Epoch
  <1>3. slots \in SUBSET Slot /\ keys \in SUBSET Key
    BY DEF VolatileSlots
  <1>4. \A k \in keys : <<k, "fresh">> \in slots \/ redis'[<<k, "fresh">>] = 0
    <2>1. \A k \in keys : <<k, "fresh">>[1] = k
      OBVIOUS
    <2> QED
      BY <1>1, <2>1, Values DEF VolatileSlots
  <1>5. redis' \in [Slot -> Value] /\ faults' \in 0..MaxFaults
    BY <1>1 DEF TypeOK
  <1> HIDE DEF slots, keys
  <1> QED
    BY <1>1, <1>2, <1>3, <1>4, <1>5, InvalidationCourse

\* The end of an invalidation.
LEMMA SweepEnds ==
    ASSUME TypeOK, NEW p \in Sweeper, Sweep(p)
    PROVE  Course
  <1>1. /\ sweep' \in [Sweeper -> SweepRec] /\ sweep'[p].pc = "idle" /\ sweep'[p].ver = 0
        /\ \A q \in Sweeper \ {p} : sweep'[q] = sweep[q]
        /\ fetch' \in [Fetch -> FetchRec]
        /\ \A f \in Fetch : \/ fetch'[f].pc = "fetching"
                            \/ /\ fetch'[f].pc = fetch[f].pc /\ fetch'[f].key = fetch[f].key
                               /\ fetch'[f].val = fetch[f].val
                               /\ fetch'[f].still \subseteq fetch[f].still
        /\ redis' \in [Slot -> Value]
        /\ \A s \in Slot : redis'[s] = redis[s] \/ redis'[s] = 0
        /\ floor' \in [Key -> Value] /\ faults' \in 0..MaxFaults
        /\ \A k \in Key :
             \/ floor'[k] = floor[k]
             \/ /\ sweep[p].pc = "sweeping" /\ k \in sweep[p].keys /\ sweep[p].done
                /\ floor'[k] = sweep[p].ver
                /\ ~sweep[p].single =>
                     \A s \in Slot : redis'[s] = IF s \in sweep[p].slots THEN 0 ELSE redis[s]
        /\ UNCHANGED <<ver, caller>>
    BY Finishes
  <1>2. \A f \in Fetch : FetchCourse(f)
    BY <1>1 DEF FetchCourse
  <1>3. \A k \in Key : EntryCourse(k)
    BY <1>1, Values DEF EntryCourse
  <1>4. \A q \in Sweeper : SweepCourse(q)
    BY <1>1 DEF SweepCourse
  <1>5. \A k \in Key : FloorCourse(k)
    BY <1>1, Values DEF FloorCourse
  <1>6. TypeOK' /\ ver' >= ver
    BY <1>1 DEF TypeOK
  <1> QED
    BY <1>2, <1>3, <1>4, <1>5, <1>6 DEF Course

\* Every step takes its course.
LEMMA StepsCourse ==
    ASSUME TypeOK, [Next]_vars
    PROVE  Course
  <1>1. ASSUME NEW f \in Fetch, Reads(f) \/ Resolves(f) \/ Written(f)
        PROVE  Course
    BY <1>1, ReadsCourse, ResolvesCourse, WrittenCourse
  <1>2. ASSUME NEW c \in Caller, NEW k \in Key, Call(c, k)
        PROVE  Course
    BY <1>2, Calls, BeginsCourse
  <1>3. ASSUME NEW k \in Key, Reload(k)
        PROVE  Course
    <2>1. \E f \in Fetch : fetch' = [fetch EXCEPT ![f] = Started(k, "reload")]
      BY <1>3 DEF Reload, Free, Unused
    <2>2. UNCHANGED <<ver, redis, caller, sweep, floor, faults>>
      BY <1>3 DEF Reload
    <2>3. caller' \in [Caller -> CallerRec] /\ faults' \in 0..MaxFaults
      BY <2>2 DEF TypeOK
    <2> QED
      BY <2>1, <2>2, <2>3, BeginsCourse
  <1>4. ASSUME NEW k \in Key, Invalidate(k) \/ InvalidatePrefix(k)
        PROVE  Course
    BY <1>4, InvalidateCourse, InvalidatePrefixCourse
  <1>5. CASE ClearVolatile
    BY <1>5, ClearVolatileCourse
  <1>6. CASE Sweep("block") \/ Sweep("route")
    BY <1>6, SweepEnds DEF Sweeper
  <1>7. CASE NewVersion
    <2>1. ver \in 1..MaxVer /\ MaxVer \in Nat
      BY Values DEF TypeOK
    <2>2. /\ ver' \in 1..MaxVer /\ ver' >= ver
          /\ redis' = redis /\ fetch' = fetch /\ caller' = caller /\ sweep' = sweep
          /\ floor' = floor /\ faults' = faults
      BY <1>7, <2>1 DEF NewVersion
    <2>3. /\ redis \in [Slot -> Value] /\ fetch \in [Fetch -> FetchRec]
          /\ caller \in [Caller -> CallerRec] /\ sweep \in [Sweeper -> SweepRec]
          /\ floor \in [Key -> Value] /\ faults \in 0..MaxFaults
      BY DEF TypeOK
    <2>4. TypeOK'
      BY ONLY <2>2, <2>3 DEF TypeOK
    <2> QED
      BY <2>2, <2>4 DEF Course, FetchCourse, EntryCourse, FloorCourse, SweepCourse
  <1>8. ASSUME NEW s \in Slot, Expire(s)
        PROVE  Course
    <2>1. redis' = Without(redis, {s}) /\ UNCHANGED <<ver, fetch, caller, sweep, floor, faults>>
      BY <1>8 DEF Expire
    <2>2. /\ redis' \in [Slot -> Value]
          /\ \A k \in Key : redis'[<<k, "fresh">>] \in {0, redis[<<k, "fresh">>]}
      BY <2>1, Delete, Values
    <2>3. ver' >= ver
      BY <2>1, Values DEF TypeOK
    <2>4. TypeOK'
      BY <2>1, <2>2 DEF TypeOK
    <2> QED
      BY <2>1, <2>2, <2>3, <2>4 DEF Course, FetchCourse, EntryCourse, FloorCourse, SweepCourse
  <1>9. CASE UNCHANGED vars
    <2>1. TypeOK' /\ ver' >= ver
      BY <1>9 DEF TypeOK, vars
    <2> QED
      BY <1>9, <2>1 DEF Course, FetchCourse, EntryCourse, FloorCourse, SweepCourse, vars
  <1> QED
    BY <1>1, <1>2, <1>3, <1>4, <1>5, <1>6, <1>7, <1>8, <1>9 DEF Next

(***************************************************************************)
(* What the courses preserve.                                              *)
(***************************************************************************)

\* With more epochs left a fetch is open as well.
LEMMA Wider ==
    ASSUME NEW k \in Key, NEW e \in SUBSET Epoch, NEW d \in SUBSET e, Open(k, d)
    PROVE  Open(k, e)
  BY DEF Open

\* What an open fetch has read stays no older than v.
LEMMA ReadsStay ==
    ASSUME TypeOK, Course, NEW k \in Key, NEW v \in Value, v <= ver, ReadSince(v, k)
    PROVE  ReadSince(v, k)'
  <1>1. SUFFICES ASSUME NEW f \in Fetch, fetch'[f].pc = "resolving", fetch'[f].key = k,
                        Open(k, fetch'[f].still)
                 PROVE  fetch'[f].val >= v
    BY DEF ReadSince
  <1>2. fetch'[f].val \in Value /\ fetch'[f].still \subseteq Epoch /\ fetch[f].still \subseteq Epoch
    BY Held DEF Course, TypeOK, FetchRec
  <1>3. ver \in Nat /\ v \in Nat
    BY Values DEF TypeOK
  <1>4. FetchCourse(f)
    BY DEF Course
  <1>5. CASE fetch'[f].val = ver
    BY <1>3, <1>5
  <1>6. CASE /\ fetch[f].pc = "resolving"
             /\ fetch'[f].key = fetch[f].key /\ fetch'[f].val = fetch[f].val
             /\ fetch'[f].still \subseteq fetch[f].still
    <2>1. Open(k, fetch[f].still)
      BY <1>1, <1>2, <1>6, Wider
    <2> QED
      BY <1>1, <1>6, <2>1 DEF ReadSince
  <1> QED
    BY <1>1, <1>4, <1>5, <1>6 DEF FetchCourse

\* A fresh entry that is gone or was read since v stays so.
LEMMA EntriesStay ==
    ASSUME TypeOK, Course, NEW k \in Key, NEW v \in Value, ReadSince(v, k), WrittenSince(v, k)
    PROVE  WrittenSince(v, k)'
  <1>1. EntryCourse(k)
    BY DEF Course
  <1> QED
    BY <1>1 DEF EntryCourse, ReadSince, WrittenSince

\* One that is gone is written since any version its open fetches have read since.
LEMMA GoneStays ==
    ASSUME TypeOK, NEW k \in Key, NEW v \in Value, redis'[<<k, "fresh">>] = 0
    PROVE  WrittenSince(v, k)'
  BY DEF WrittenSince

\* The inductive step.
LEMMA NextKeeps ==
    ASSUME IInv, [Next]_vars
    PROVE  IInv'
  <1>1. TypeOK /\ Course
    BY StepsCourse DEF IInv
  <1>2. ver \in Nat /\ ver' \in Nat /\ ver' >= ver /\ TypeOK'
    BY <1>1, Values DEF Course, TypeOK
  <1>3. \A k \in Key : floor[k] \in Value /\ floor[k] <= ver
    BY <1>1 DEF IInv, Ahead, TypeOK
  <1>4. \A p \in Sweeper : sweep[p].ver \in Value /\ sweep[p].ver <= ver
    BY <1>1 DEF IInv, Ahead, TypeOK, SweepRec
  <1>5. Ahead'
    <2>1. ASSUME NEW k \in Key
          PROVE  floor'[k] <= ver'
      <3>1. FloorCourse(k)
        BY <1>1 DEF Course
      <3>2. floor'[k] <= ver /\ floor'[k] \in Nat
        BY <1>3, <1>4, <3>1, Values DEF FloorCourse
      <3> QED
        BY <1>2, <3>2
    <2>2. ASSUME NEW p \in Sweeper
          PROVE  sweep'[p].ver <= ver'
      <3>1. SweepCourse(p)
        BY <1>1 DEF Course
      <3>2. sweep'[p].ver \in {0, ver, sweep[p].ver}
        BY <3>1 DEF SweepCourse
      <3>3. sweep[p].ver \in Nat /\ sweep[p].ver <= ver
        BY <1>4, Values
      <3> QED
        BY <1>2, <3>2, <3>3
    <2> QED
      BY <2>1, <2>2 DEF Ahead
  <1>6. FloorHolds'
    <2>1. SUFFICES ASSUME NEW k \in Key
                   PROVE  ReadSince(floor[k], k)'
      BY DEF FloorHolds
    <2>2. CASE floor'[k] = floor[k]
      <3>1. ReadSince(floor[k], k)
        BY DEF IInv, FloorHolds
      <3>2. PICK v \in Value : v = floor[k] /\ v <= ver
        BY <1>3
      <3>3. ReadSince(v, k)'
        BY <1>1, <3>1, <3>2, ReadsStay
      <3> QED
        BY <2>2, <3>2, <3>3 DEF ReadSince
    <2>3. ASSUME NEW p \in Sweeper, sweep[p].pc = "sweeping", k \in sweep[p].keys,
                 floor'[k] = sweep[p].ver
          PROVE  ReadSince(floor[k], k)'
      <3>1. PICK v \in Value : v = sweep[p].ver /\ v <= ver
        BY <1>4
      <3>2. ReadSince(v, k)
        BY <2>3, <3>1 DEF IInv, SweepHolds
      <3>3. ReadSince(v, k)'
        BY <1>1, <3>1, <3>2, ReadsStay
      <3> QED
        BY <2>3, <3>1, <3>3 DEF ReadSince
    <2>4. FloorCourse(k)
      BY <1>1 DEF Course
    <2> QED
      BY <2>2, <2>3, <2>4 DEF FloorCourse
  <1>7. SweepHolds'
    <2>1. SUFFICES ASSUME NEW p \in Sweeper, NEW k \in Key, sweep'[p].pc = "sweeping", k \in sweep'[p].keys
                   PROVE  /\ ReadSince(sweep[p].ver, k)'
                          /\ \/ ~sweep'[p].single /\ <<k, "fresh">> \in sweep'[p].slots
                             \/ ~sweep'[p].done
                             \/ WrittenSince(sweep[p].ver, k)'
      BY DEF SweepHolds
    <2>2. CASE sweep'[p] = sweep[p]
      <3>1. PICK v \in Value : v = sweep[p].ver /\ v <= ver
        BY <1>4
      <3>2. /\ ReadSince(v, k)
            /\ \/ ~sweep[p].single /\ <<k, "fresh">> \in sweep[p].slots
               \/ ~sweep[p].done
               \/ WrittenSince(v, k)
        BY <2>1, <2>2, <3>1 DEF IInv, SweepHolds
      <3>3. ReadSince(v, k)' /\ (WrittenSince(v, k) => WrittenSince(v, k)')
        BY <1>1, <3>1, <3>2, ReadsStay, EntriesStay
      <3> QED
        BY <2>2, <3>1, <3>2, <3>3 DEF ReadSince, WrittenSince
    <2>3. CASE /\ \A f \in Fetch : fetch'[f].key = k => ~Open(k, fetch'[f].still)
               /\ \/ ~sweep'[p].single /\ <<k, "fresh">> \in sweep'[p].slots
                  \/ ~sweep'[p].done
                  \/ redis'[<<k, "fresh">>] = 0
      BY <2>3 DEF ReadSince, WrittenSince
    <2>4. SweepCourse(p)
      BY <1>1 DEF Course
    <2> QED
      BY <2>1, <2>2, <2>3, <2>4 DEF SweepCourse
  <1>8. NoResurrection'
    <2>1. SUFFICES ASSUME NEW k \in Key
                   PROVE  redis'[<<k, "fresh">>] # 0 => redis'[<<k, "fresh">>] >= floor'[k]
      BY DEF NoResurrection
    <2>2. CASE floor'[k] = floor[k]
      <3>1. PICK v \in Value : v = floor[k] /\ v <= ver
        BY <1>3
      <3>2. ReadSince(v, k) /\ WrittenSince(v, k)
        BY <3>1 DEF IInv, FloorHolds, NoResurrection, WrittenSince
      <3>3. WrittenSince(v, k)'
        BY <1>1, <3>2, EntriesStay
      <3> QED
        BY <2>2, <3>1, <3>3 DEF WrittenSince
    <2>3. ASSUME NEW p \in Sweeper, sweep[p].pc = "sweeping", k \in sweep[p].keys, sweep[p].done,
                 floor'[k] = sweep[p].ver,
                 ~sweep[p].single /\ <<k, "fresh">> \in sweep[p].slots => redis'[<<k, "fresh">>] = 0,
                 redis'[<<k, "fresh">>] \in {0, redis[<<k, "fresh">>]}
          PROVE  redis'[<<k, "fresh">>] # 0 => redis'[<<k, "fresh">>] >= floor'[k]
      BY <2>3 DEF IInv, SweepHolds, WrittenSince
    <2>4. FloorCourse(k)
      BY <1>1 DEF Course
    <2> QED
      BY <2>2, <2>3, <2>4 DEF FloorCourse
  <1> QED
    BY <1>2, <1>5, <1>6, <1>7, <1>8 DEF IInv

\* The initial states.
LEMMA InitHolds == Init => IInv
  <1> SUFFICES ASSUME Init
               PROVE  IInv
    OBVIOUS
  <1>1. /\ IdleFetch \in FetchRec /\ IdleFetch.pc = "idle"
        /\ IdleCaller \in CallerRec
        /\ IdleSweep \in SweepRec /\ IdleSweep.pc = "idle" /\ IdleSweep.ver = 0
    BY Values DEF IdleFetch, At, FetchRec, IdleCaller, CallerRec, IdleSweep, SweepRec
  <1>2. TypeOK
    BY <1>1, Values DEF Init, TypeOK
  <1>3. Ahead /\ FloorHolds /\ SweepHolds
    BY <1>1 DEF Init, Ahead, FloorHolds, SweepHolds, ReadSince
  <1>4. NoResurrection
    BY Values DEF Init, NoResurrection
  <1> QED
    BY <1>2, <1>3, <1>4 DEF IInv

(***************************************************************************)
(* The theorems.                                                           *)
(***************************************************************************)

\* The inductive invariant holds.
THEOREM Invariance == Spec => []IInv
  <1>1. IInv /\ [Next]_vars => IInv'
    BY NextKeeps
  <1> QED
    BY InitHolds, <1>1, PTL DEF Spec

\* Every variable stays in its type.
THEOREM Typed == Spec => []TypeOK
  <1>1. IInv => TypeOK
    BY DEF IInv
  <1> QED
    BY Invariance, <1>1, PTL

\* QueryCache, in both tiers of keys: once an invalidation has succeeded no fetch, revalidation
\* or reload that began before it leaves what it had read as a fresh entry.
THEOREM Invalidated == Spec => []NoResurrection
  <1>1. IInv => NoResurrection
    BY DEF IInv
  <1> QED
    BY Invariance, <1>1, PTL

(***************************************************************************)
(* Uploads.                                                                *)
(***************************************************************************)

\* Requests that present the token t, or that are about to record a pin.
Presents(r, t) == uReq[r].pc \in {"burning", "clearing"} /\ uReq[r].tok = t
Recorders == {"recording", "checking"}

\* One request presents a token at a time, and one that does not holds none.
OneAtATime ==
  /\ \A t \in Files!Token, p, q \in Upload : Presents(p, t) /\ Presents(q, t) => p = q
  /\ \A t \in Files!Token : t > uIssued => ~uTok[t].mem /\ ~uTok[t].redis /\ uUsed[t] = 0
       /\ \A r \in Upload : ~Presents(r, t)

\* A copy of a token outlives an upload it let through only when calls have failed.
CopiesCount ==
  \A t \in Files!Token :
    /\ uUsed[t] > 0 => ~uTok[t].mem /\ (uTok[t].redis => uFaults > 1)
    /\ uUsed[t] > 1 => ~uTok[t].redis /\ uFaults > 1
    /\ \A r \in Upload : Presents(r, t) =>
         /\ uReq[r].hit => ~uTok[t].redis /\ uUsed[t] <= 1 /\ (uUsed[t] > 0 => uFaults > 1)
              /\ uReq[r].pc = "burning"
         /\ ~uReq[r].hit /\ uTok[t].redis => uFaults > 0
         /\ uReq[r].pc = "clearing" => ~uTok[t].mem /\ uUsed[t] = 0

\* A pin that is to be recorded is there unless it was undercut; one is released only where
\* no row is, but for rows inserted since; and the sweep is after a row that is old.
PinsKept ==
  /\ \A r \in Upload : uReq[r].pc \in Recorders => uReq[r].backend \in uPins \/ uReq[r].undercut
  /\ uRow # None /\ (\E r \in Upload : uReq[r].pc = "releasing") => uRow.undercut
  /\ uSweep.pc # "idle" => uRow # None /\ uRow.old

\* A request records, or releases, the pin of a backend.
Backed ==
  /\ \A r \in Upload : uReq[r].pc \in Recorders \cup {"releasing"} => uReq[r].backend \in Files!Backend
  /\ \A r \in Upload : uReq[r].pc \in {"burning", "clearing"} => uReq[r].tok \in Files!Token
  /\ uSweep.pc # "idle" => uSweep.backend \in Files!Backend

UploadsInv == Files!TypeOK /\ Backed /\ OneAtATime /\ CopiesCount /\ PinsKept /\ Files!FreshRowKeepsPin

(***************************************************************************)
(* What several steps have in common.                                      *)
(***************************************************************************)

\* The fields of a request, and of the idle one.
LEMMA RequestHolds ==
    ASSUME Files!UploadsAssumption, Files!TypeOK
    PROVE  /\ Files!IdleRequest \in Files!Request /\ Files!IdleRequest.pc = "idle"
                /\ Files!IdleSweep \in Files!Sweep /\ Files!IdleSweep.pc = "idle"
           /\ \A r \in Upload : /\ uReq[r] \in Files!Request /\ uReq[r].tok \in Files!Token \cup {0}
                                /\ uReq[r].fits \in BOOLEAN
                                /\ uReq[r].hit \in BOOLEAN /\ uReq[r].backend \in Files!Backend \cup {None}
                                /\ uReq[r].undercut \in BOOLEAN
           /\ \A t \in Files!Token : /\ uTok[t] \in Files!Copies /\ uTok[t].mem \in BOOLEAN
                                     /\ uTok[t].redis \in BOOLEAN
                                     /\ uUsed[t] \in 0..2 /\ t \in Nat /\ t # 0
           /\ uFaults \in Nat /\ MaxUploadFaults \in Nat /\ uIssued \in Nat /\ MaxTok \in Nat
  BY DEF Files!UploadsAssumption, Files!TypeOK, Files!IdleRequest, Files!Request, Files!IdleSweep,
     Files!Sweep, Files!Copies, Files!Token

\* A fault is counted, or none happens.
LEMMA UploadFaultHolds ==
    ASSUME Files!UploadsAssumption, Files!TypeOK, uFaults' = uFaults \/ Files!Fault
    PROVE  uFaults' \in 0..MaxUploadFaults /\ uFaults' >= uFaults
  BY DEF Files!UploadsAssumption, Files!TypeOK, Files!Fault

\* A step that lets nobody present a token, or use one.
LEMMA TokensKeep ==
    ASSUME Files!UploadsAssumption, UploadsInv, UNCHANGED <<uIssued, uTok, uUsed>>, uFaults' >= uFaults,
                                                            uFaults' \in Nat,
           \A r \in Upload, t \in Files!Token : Presents(r, t)' => Presents(r,
           t) /\ uReq'[r].hit = uReq[r].hit /\ uReq'[r].pc = uReq[r].pc
    PROVE  OneAtATime' /\ CopiesCount'
  <1>1. OneAtATime'
    BY DEF UploadsInv, OneAtATime
  <1>2. CopiesCount'
    <2> SUFFICES ASSUME NEW t \in Files!Token
                 PROVE  /\ uUsed[t] > 0 => ~uTok[t].mem /\ (uTok[t].redis => uFaults' > 1)
                        /\ uUsed[t] > 1 => ~uTok[t].redis /\ uFaults' > 1
                        /\ \A r \in Upload : Presents(r, t)' =>
                             /\ uReq'[r].hit => ~uTok[t].redis /\ uUsed[t] <= 1
                                  /\ (uUsed[t] > 0 => uFaults' > 1) /\ uReq'[r].pc = "burning"
                             /\ ~uReq'[r].hit /\ uTok[t].redis => uFaults' > 0
                             /\ uReq'[r].pc = "clearing" => ~uTok[t].mem /\ uUsed[t] = 0
      BY DEF CopiesCount
    <2> QED
      BY RequestHolds DEF UploadsInv, CopiesCount
  <1> QED
    BY <1>1, <1>2

\* A step that records and releases nothing.
LEMMA PinsKeep ==
    ASSUME Files!UploadsAssumption, UploadsInv, uPins \subseteq uPins', UNCHANGED uRow,
           uSweep' = uSweep \/ uSweep'.pc = "idle",
           \A r \in Upload : uReq'[r].pc \in Recorders \cup {"releasing"} => uReq'[r] = uReq[r]
    PROVE  PinsKept' /\ Files!FreshRowKeepsPin'
  <1>1. PinsKept'
    <2>1. \A r \in Upload : uReq'[r].pc \in Recorders => uReq'[r].backend \in uPins' \/ uReq'[r].undercut
      BY DEF UploadsInv, PinsKept
    <2>2. uRow' # None /\ (\E r \in Upload : uReq'[r].pc = "releasing") => uRow'.undercut
      BY DEF UploadsInv, PinsKept
    <2>3. uSweep'.pc # "idle" => uRow' # None /\ uRow'.old
      BY DEF UploadsInv, PinsKept
    <2> QED
      BY <2>1, <2>2, <2>3 DEF PinsKept
  <1>2. Files!FreshRowKeepsPin'
    BY DEF UploadsInv, Files!FreshRowKeepsPin
  <1> QED
    BY <1>1, <1>2

(***************************************************************************)
(* The token.                                                              *)
(***************************************************************************)

\* A token is issued, into memory and perhaps into Redis.
LEMMA IssueStep ==
    ASSUME Files!UploadsAssumption, UploadsInv, Files!Issue
    PROVE  UploadsInv'
  <1>1. /\ uIssued' = uIssued + 1 /\ uIssued' \in Files!Token /\ UNCHANGED <<uUsed, uReq, uPins, uRow,
                                                                             uSweep, uPost>>
        /\ uFaults' \in 0..MaxUploadFaults /\ uFaults' >= uFaults
    BY UploadFaultHolds, RequestHolds DEF Files!Issue, Files!FileStays, Files!Token, UploadsInv, Files!TypeOK
  <1>2. PICK new \in Files!Copies : uTok' = [uTok EXCEPT ![uIssued + 1] = new]
    BY DEF Files!Issue, Files!Copies
  <1>3. Files!TypeOK'
    BY <1>1, <1>2 DEF UploadsInv, Files!TypeOK, Files!Token
  <1>4. \A t \in Files!Token : t # uIssued' => uTok'[t] = uTok[t]
    BY <1>1, <1>2 DEF UploadsInv, Files!TypeOK
  <1>5. OneAtATime'
    <2> SUFFICES ASSUME NEW t \in Files!Token, t > uIssued'
                 PROVE  ~uTok'[t].mem /\ ~uTok'[t].redis /\ uUsed[t] = 0 /\ \A r \in Upload : ~Presents(r, t)
      BY <1>1 DEF UploadsInv, OneAtATime, Presents
    <2> QED
      BY <1>1, <1>4, RequestHolds DEF UploadsInv, OneAtATime
  <1>6. CopiesCount'
    <2> SUFFICES ASSUME NEW t \in Files!Token
                 PROVE  /\ uUsed[t] > 0 => ~uTok'[t].mem /\ (uTok'[t].redis => uFaults' > 1)
                        /\ uUsed[t] > 1 => ~uTok'[t].redis /\ uFaults' > 1
                        /\ \A r \in Upload : Presents(r, t) =>
                             /\ uReq[r].hit => ~uTok'[t].redis /\ uUsed[t] <= 1
                                  /\ (uUsed[t] > 0 => uFaults' > 1) /\ uReq[r].pc = "burning"
                             /\ ~uReq[r].hit /\ uTok'[t].redis => uFaults' > 0
                             /\ uReq[r].pc = "clearing" => ~uTok'[t].mem /\ uUsed[t] = 0
      BY <1>1 DEF CopiesCount, Presents
    <2>1. CASE t = uIssued'
      <3>1. uUsed[t] = 0 /\ \A r \in Upload : ~Presents(r, t)
        BY <1>1, <2>1, RequestHolds DEF UploadsInv, OneAtATime
      <3> QED
        BY <3>1
    <2>2. CASE t # uIssued'
      BY <1>1, <1>4, <2>2, RequestHolds DEF UploadsInv, CopiesCount
    <2> QED
      BY <2>1, <2>2
  <1>7. Backed' /\ PinsKept' /\ Files!FreshRowKeepsPin'
    BY <1>1, PinsKeep DEF UploadsInv, Backed
  <1> QED
    BY <1>3, <1>5, <1>6, <1>7 DEF UploadsInv

\* A token is presented: GETDEL runs or does not, and answers or does not.
LEMMA PresentStep ==
    ASSUME Files!UploadsAssumption, UploadsInv, NEW r \in Upload, NEW t \in Files!Token, Files!Present(r, t)
    PROVE  UploadsInv'
  <1>1. UNCHANGED <<uIssued, uUsed, uPins, uRow, uSweep, uPost>>
    BY DEF Files!Present, Files!FileStays
  <1>2. PICK fits \in BOOLEAN, ran \in BOOLEAN, replied \in BOOLEAN :
          /\ IF ran /\ replied THEN UNCHANGED uFaults ELSE Files!Fault
          /\ uTok' = [uTok EXCEPT ![t].redis = @ /\ ~ran]
          /\ uReq' = [uReq EXCEPT ![r] = [Files!IdleRequest EXCEPT !.pc = "burning", !.tok = t,
                                        !.fits = fits, !.hit = ran /\ replied /\ uTok[t].redis]]
    BY DEF Files!Present
  <1>3. PICK hit \in BOOLEAN, left \in BOOLEAN : hit = (ran /\ replied /\ uTok[t].redis)
          /\ left = (uTok[t].redis /\ ~ran)
    OBVIOUS
  <1>4. /\ hit => ~left
        /\ ~hit /\ left => ~ran
        /\ left => uTok[t].redis
        /\ hit => uTok[t].redis
    <2>1. uTok[t].redis \in BOOLEAN
      BY RequestHolds DEF UploadsInv
    <2> QED
      BY <1>3, <2>1, Zenon
  <1>5. uFaults' \in 0..MaxUploadFaults /\ uFaults' >= uFaults /\ (~ran => uFaults' > 0)
    <2>1. uFaults' \in 0..MaxUploadFaults /\ uFaults' >= uFaults
      BY <1>2, UploadFaultHolds DEF UploadsInv
    <2>2. ~ran => Files!Fault
      BY <1>2, Zenon
    <2> QED
      BY <2>1, <2>2, RequestHolds DEF Files!Fault, UploadsInv
  <1>6. PICK new \in Files!Request : /\ new.pc = "burning" /\ new.tok = t /\ new.hit = hit
                                        /\ uReq' = [uReq EXCEPT ![r] = new]
    <2>1. PICK new : new = [Files!IdleRequest EXCEPT !.pc = "burning", !.tok = t, !.fits = fits, !.hit = hit]
      OBVIOUS
    <2>2. new \in Files!Request /\ new.pc = "burning" /\ new.tok = t /\ new.hit = hit
      BY <2>1 DEF Files!IdleRequest, Files!Request
    <2> QED
      BY <1>2, <1>3, <2>1, <2>2
  <1>7. uTok'[t].redis = left /\ uTok'[t].mem = uTok[t].mem /\ uTok' \in [Files!Token -> Files!Copies]
        /\ \A u \in Files!Token \ {t} : uTok'[u] = uTok[u]
    <2>1. uTok' = [uTok EXCEPT ![t].redis = left]
      BY <1>2, <1>3
    <2> QED
      BY <2>1 DEF UploadsInv, Files!TypeOK, Files!Copies
  <1>8. uReq'[r] = new /\ \A q \in Upload \ {r} : uReq'[q] = uReq[q]
    BY <1>6 DEF UploadsInv, Files!TypeOK
  <1>9. Files!TypeOK'
    BY <1>1, <1>5, <1>6, <1>7 DEF UploadsInv, Files!TypeOK
  <1>10. /\ \A q \in Upload : ~Presents(q, t) 
         /\ \A q \in Upload, u \in Files!Token : Presents(q, u)' => (q = r /\ u = t) \/ (q # r /\ u # t
              /\ Presents(q, u))
    <2>1. \A q \in Upload : ~Presents(q, t) 
      BY DEF Files!Present, Files!InFlight, Presents
    <2> QED
      BY <1>6, <1>8, <2>1 DEF Presents
  <1>11. OneAtATime'
    <2>1. t <= uIssued
      BY RequestHolds DEF Files!Present, UploadsInv, OneAtATime
    <2>2. \A u \in Files!Token, p, q \in Upload : Presents(p, u)' /\ Presents(q, u)' => p = q
      BY <1>10 DEF UploadsInv, OneAtATime
    <2>3. \A u \in Files!Token : u > uIssued => ~uTok'[u].mem /\ ~uTok'[u].redis /\ uUsed[u] = 0
            /\ \A q \in Upload : ~Presents(q, u)'
      BY <1>7, <1>10, <2>1, RequestHolds DEF UploadsInv, OneAtATime
    <2> QED
      BY <1>1, <2>2, <2>3 DEF OneAtATime
  <1>12. CopiesCount'
    <2> SUFFICES ASSUME NEW u \in Files!Token
                 PROVE  /\ uUsed[u] > 0 => ~uTok'[u].mem /\ (uTok'[u].redis => uFaults' > 1)
                        /\ uUsed[u] > 1 => ~uTok'[u].redis /\ uFaults' > 1
                        /\ \A q \in Upload : Presents(q, u)' =>
                             /\ uReq'[q].hit => ~uTok'[u].redis /\ uUsed[u] <= 1
                                  /\ (uUsed[u] > 0 => uFaults' > 1) /\ uReq'[q].pc = "burning"
                             /\ ~uReq'[q].hit /\ uTok'[u].redis => uFaults' > 0
                             /\ uReq'[q].pc = "clearing" => ~uTok'[u].mem /\ uUsed[u] = 0
      BY <1>1 DEF CopiesCount
    <2>1. CASE u = t
      <3>1. /\ uUsed[t] > 0 => ~uTok[t].mem /\ (uTok[t].redis => uFaults > 1)
            /\ uUsed[t] > 1 => ~uTok[t].redis /\ uFaults > 1
        BY DEF UploadsInv, CopiesCount
      <3>2. /\ uUsed[t] > 0 => ~uTok'[t].mem /\ (uTok'[t].redis => uFaults' > 1)
            /\ uUsed[t] > 1 => ~uTok'[t].redis /\ uFaults' > 1
        BY <1>4, <1>5, <1>7, <3>1, RequestHolds DEF UploadsInv
      <3>3. /\ hit => ~uTok'[t].redis /\ uUsed[t] <= 1 /\ (uUsed[t] > 0 => uFaults' > 1)
            /\ ~hit /\ uTok'[t].redis => uFaults' > 0
        BY <1>4, <1>5, <1>7, <3>1, RequestHolds DEF UploadsInv
      <3> QED
        BY <1>6, <1>8, <1>10, <2>1, <3>2, <3>3
    <2>2. CASE u # t
      BY <1>5, <1>7, <1>8, <1>10, <2>2, RequestHolds DEF UploadsInv, CopiesCount
    <2> QED
      BY <2>1, <2>2
  <1>13. Backed' /\ PinsKept' /\ Files!FreshRowKeepsPin'
    <2>1. \A q \in Upload : uReq'[q].pc \in Recorders \cup {"releasing"} => uReq'[q] = uReq[q]
      BY <1>6, <1>8 DEF Recorders
    <2>2. Backed'
      BY <1>1, <1>6, <1>8 DEF UploadsInv, Backed, Recorders
    <2> QED
      BY <1>1, <2>1, <2>2, PinsKeep
  <1> QED
    BY <1>9, <1>11, <1>12, <1>13 DEF UploadsInv

\* A presentation comes to its end: the request is admitted, or turned away.
LEMMA AdmitHolds ==
    ASSUME Files!UploadsAssumption, UploadsInv, NEW r \in Upload, Presents(r, uReq[r].tok),
           uUsed[uReq[r].tok] <= 1,
           Files!Admit(r) \/ (Files!Ends(r) /\ UNCHANGED uUsed)
    PROVE  /\ uUsed' \in [Files!Token -> 0..2] /\ uReq' \in [Upload -> Files!Request]
           /\ uReq'[r].pc \in {"idle", "pinning"} /\ \A q \in Upload \ {r} : uReq'[q] = uReq[q]
           /\ \A t \in Files!Token \ {uReq[r].tok} : uUsed'[t] = uUsed[t]
           /\ uUsed'[uReq[r].tok] = uUsed[uReq[r].tok] \/ uUsed'[uReq[r].tok] = uUsed[uReq[r].tok] + 1
  <1>0. uReq[r].tok \in Files!Token
    BY DEF UploadsInv, Backed, Presents
  <1>1. PICK new \in Files!Request : new.pc \in {"idle", "pinning"} /\ uReq' = [uReq EXCEPT ![r] = new]
    BY ZenonT(40), RequestHolds DEF Files!Admit, Files!Ends, UploadsInv, Files!IdleRequest, Files!Request
  <1>2. uUsed' = uUsed \/ uUsed' = [uUsed EXCEPT ![uReq[r].tok] = @ + 1]
    BY DEF Files!Admit
  <1>3. uUsed[uReq[r].tok] \in 0..2 /\ uUsed \in [Files!Token -> 0..2]
    BY <1>0 DEF UploadsInv, Files!TypeOK
  <1>4. uUsed' \in [Files!Token -> 0..2]
    BY <1>0, <1>2, <1>3
  <1> QED
    BY <1>0, <1>1, <1>2, <1>3, <1>4 DEF UploadsInv, Files!TypeOK

\* The request that presents a token leaves, with what is left of the token.
LEMMA PresentedKeep ==
    ASSUME Files!UploadsAssumption, UploadsInv, NEW r \in Upload, NEW t \in Files!Token,
           Presents(r, t), UNCHANGED <<uIssued, uPins, uRow, uSweep, uPost>>,
           uFaults' \in 0..MaxUploadFaults, uFaults' >= uFaults,
           uUsed' \in [Files!Token -> 0..2], uTok' \in [Files!Token -> Files!Copies],
           uReq' \in [Upload -> Files!Request],
           uReq'[r].pc \in {"idle", "pinning"} \/ (uReq'[r].pc = "clearing" /\ uReq'[r].tok = t
             /\ ~uReq'[r].hit),
           \A q \in Upload \ {r} : uReq'[q] = uReq[q], \A u \in Files!Token \ {t} : uTok'[u] = uTok[u]
             /\ uUsed'[u] = uUsed[u],
           ~uTok'[t].mem, uTok'[t].redis => uTok[t].redis,
           uUsed'[t] > 0 /\ uTok'[t].redis => uFaults' > 1,
           uUsed'[t] > 1 => ~uTok'[t].redis /\ uFaults' > 1,
           uReq'[r].pc = "clearing" => uUsed'[t] = 0 /\ (uTok'[t].redis => uFaults' > 0)
    PROVE  UploadsInv'
  <1>1. Files!TypeOK'
    BY DEF UploadsInv, Files!TypeOK
  <1>2. /\ \A q \in Upload : Presents(q, t)' => q = r
        /\ \A q \in Upload, u \in Files!Token : Presents(q, u)' => (q = r /\ u = t) \/ (q # r /\ u # t
             /\ Presents(q, u))
    BY DEF UploadsInv, OneAtATime, Presents
  <1>3. t <= uIssued
    BY RequestHolds DEF UploadsInv, OneAtATime
  <1>4. OneAtATime'
    <2>1. \A u \in Files!Token, p, q \in Upload : Presents(p, u)' /\ Presents(q, u)' => p = q
      BY <1>2 DEF UploadsInv, OneAtATime
    <2>2. \A u \in Files!Token : u > uIssued => ~uTok'[u].mem /\ ~uTok'[u].redis /\ uUsed'[u] = 0
            /\ \A q \in Upload : ~Presents(q, u)'
      BY <1>2, <1>3, RequestHolds DEF UploadsInv, OneAtATime
    <2> QED
      BY <2>1, <2>2 DEF OneAtATime
  <1>5. CopiesCount'
    <2> SUFFICES ASSUME NEW u \in Files!Token
                 PROVE  /\ uUsed'[u] > 0 => ~uTok'[u].mem /\ (uTok'[u].redis => uFaults' > 1)
                        /\ uUsed'[u] > 1 => ~uTok'[u].redis /\ uFaults' > 1
                        /\ \A q \in Upload : Presents(q, u)' =>
                             /\ uReq'[q].hit => ~uTok'[u].redis /\ uUsed'[u] <= 1
                                  /\ (uUsed'[u] > 0 => uFaults' > 1) /\ uReq'[q].pc = "burning"
                             /\ ~uReq'[q].hit /\ uTok'[u].redis => uFaults' > 0
                             /\ uReq'[q].pc = "clearing" => ~uTok'[u].mem /\ uUsed'[u] = 0
      BY DEF CopiesCount
    <2>1. CASE u = t
      BY <1>2, <2>1 DEF Presents
    <2>2. CASE u # t
      BY <1>2, <2>2, RequestHolds DEF UploadsInv, CopiesCount
    <2> QED
      BY <2>1, <2>2
  <1>6. Backed' /\ PinsKept' /\ Files!FreshRowKeepsPin'
    <2>1. \A q \in Upload : uReq'[q].pc \in Recorders \cup {"releasing"} => uReq'[q] = uReq[q]
      BY DEF Recorders
    <2>2. Backed'
      BY DEF UploadsInv, Backed, Recorders
    <2> QED
      BY <2>1, <2>2, PinsKeep
  <1> QED
    BY <1>1, <1>4, <1>5, <1>6 DEF UploadsInv

\* The memory copy is taken, after a hit as after a miss.
LEMMA BurnStep ==
    ASSUME Files!UploadsAssumption, UploadsInv, NEW r \in Upload, Files!Burn(r)
    PROVE  UploadsInv'
  <1> DEFINE t == uReq[r].tok
  <1>1. t \in Files!Token /\ Presents(r, t) /\ uReq[r].pc = "burning" /\ UNCHANGED <<uIssued, uPins, uRow,
                                                                                     uSweep, uPost,
                                                                                     uFaults>>
    BY DEF Files!Burn, Presents, Files!FileStays, UploadsInv, Backed
  <1>2. uTok' = [uTok EXCEPT ![t].mem = FALSE]
    BY DEF Files!Burn, Files!DropMem
  <1>3. /\ uTok' \in [Files!Token -> Files!Copies] /\ ~uTok'[t].mem /\ uTok'[t].redis = uTok[t].redis
        /\ \A u \in Files!Token \ {t} : uTok'[u] = uTok[u]
    BY <1>1, <1>2 DEF UploadsInv, Files!TypeOK, Files!Copies
  <1>4. /\ uUsed[t] > 0 => ~uTok[t].mem /\ (uTok[t].redis => uFaults > 1)
        /\ uUsed[t] > 1 => ~uTok[t].redis /\ uFaults > 1
        /\ uReq[r].hit => ~uTok[t].redis /\ uUsed[t] <= 1 /\ (uUsed[t] > 0 => uFaults > 1)
        /\ ~uReq[r].hit /\ uTok[t].redis => uFaults > 0
    BY <1>1 DEF UploadsInv, CopiesCount
  <1>5. uFaults \in 0..MaxUploadFaults /\ uFaults >= uFaults /\ uUsed \in [Files!Token -> 0..2]
          /\ uUsed[t] \in 0..2
    BY <1>1 DEF UploadsInv, Files!TypeOK, Files!UploadsAssumption
  <1>6. CASE uReq[r].hit
    <2>1. Files!Admit(r) /\ uUsed[t] <= 1 /\ ~uTok[t].redis
      BY <1>4, <1>6 DEF Files!Burn
    <2>2. /\ uUsed' \in [Files!Token -> 0..2] /\ uReq' \in [Upload -> Files!Request]
          /\ uReq'[r].pc \in {"idle", "pinning"} /\ \A q \in Upload \ {r} : uReq'[q] = uReq[q]
          /\ \A u \in Files!Token \ {t} : uUsed'[u] = uUsed[u]
          /\ uUsed'[t] = uUsed[t] \/ uUsed'[t] = uUsed[t] + 1
      BY <1>1, <2>1, AdmitHolds
    <2>3. uUsed'[t] > 1 => uFaults' > 1
      BY <1>1, <1>4, <1>5, <1>6, <2>2
    <2> QED
      BY <1>1, <1>3, <1>5, <2>1, <2>2, <2>3, PresentedKeep
  <1>7. CASE ~uReq[r].hit /\ uTok[t].mem
    <2>1. Files!Goes(r, "clearing") /\ UNCHANGED uUsed
      BY <1>7 DEF Files!Burn
    <2>2. /\ uReq' \in [Upload -> Files!Request] /\ uReq'[r].pc = "clearing" /\ uReq'[r].tok = t
               /\ uReq'[r].hit = uReq[r].hit
          /\ \A q \in Upload \ {r} : uReq'[q] = uReq[q]
      BY <2>1 DEF Files!Goes, UploadsInv, Files!TypeOK, Files!Request
    <2>3. uUsed[t] = 0
      BY <1>4, <1>5, <1>7
    <2> QED
      BY <1>1, <1>3, <1>4, <1>5, <1>7, <2>1, <2>2, <2>3, PresentedKeep
  <1>8. CASE ~uReq[r].hit /\ ~uTok[t].mem
    <2>1. Files!Ends(r) /\ UNCHANGED uUsed
      BY <1>8 DEF Files!Burn
    <2>2. /\ uReq' \in [Upload -> Files!Request] /\ uReq'[r].pc = "idle"
               /\ \A q \in Upload \ {r} : uReq'[q] = uReq[q]
      BY <2>1, RequestHolds DEF Files!Ends, UploadsInv, Files!TypeOK
    <2> QED
      BY <1>1, <1>3, <1>4, <1>5, <2>1, <2>2, PresentedKeep
  <1> QED
    BY <1>6, <1>7, <1>8

\* The copy in Redis is deleted, or the call fails, and the request is admitted.
LEMMA ClearStep ==
    ASSUME Files!UploadsAssumption, UploadsInv, NEW r \in Upload, Files!Clear(r)
    PROVE  UploadsInv'
  <1> DEFINE t == uReq[r].tok
  <1>1. t \in Files!Token /\ Presents(r, t) /\ uReq[r].pc = "clearing" /\ UNCHANGED <<uIssued, uPins, uRow,
                                                                                      uSweep, uPost>>
    BY DEF Files!Clear, Presents, Files!FileStays, UploadsInv, Backed
  <1>2. \/ uTok' = [uTok EXCEPT ![t].redis = FALSE] /\ uFaults' = uFaults
        \/ uTok' = uTok /\ Files!Fault
    BY DEF Files!Clear
  <1>3. ~uTok[t].mem /\ uUsed[t] = 0 /\ ~uReq[r].hit /\ (uTok[t].redis => uFaults > 0)
    BY <1>1 DEF UploadsInv, CopiesCount
  <1>4. /\ uTok' \in [Files!Token -> Files!Copies] /\ ~uTok'[t].mem /\ (uTok'[t].redis => uTok[t].redis
             /\ Files!Fault)
        /\ \A u \in Files!Token \ {t} : uTok'[u] = uTok[u]
    <2>1. CASE uTok' = [uTok EXCEPT ![t].redis = FALSE]
      BY <1>1, <1>3, <2>1 DEF UploadsInv, Files!TypeOK, Files!Copies
    <2>2. CASE uTok' = uTok /\ Files!Fault
      BY <1>1, <1>3, <2>2 DEF UploadsInv, Files!TypeOK, Files!Copies
    <2> QED
      BY <1>2, <2>1, <2>2
  <1>5. uFaults' \in 0..MaxUploadFaults /\ uFaults' >= uFaults
    BY <1>2, UploadFaultHolds DEF UploadsInv
  <1>6. uTok'[t].redis => uFaults' > 1
    BY <1>3, <1>4, RequestHolds DEF Files!Fault, UploadsInv
  <1>7. /\ uUsed' \in [Files!Token -> 0..2] /\ uReq' \in [Upload -> Files!Request]
        /\ uReq'[r].pc \in {"idle", "pinning"} /\ \A q \in Upload \ {r} : uReq'[q] = uReq[q]
        /\ \A u \in Files!Token \ {t} : uUsed'[u] = uUsed[u]
        /\ uUsed'[t] = 0 \/ uUsed'[t] = 1
    BY <1>1, <1>3, AdmitHolds DEF Files!Clear
  <1> QED
    BY <1>1, <1>4, <1>5, <1>6, <1>7, PresentedKeep

\* A copy lapses.
LEMMA LapseStep ==
    ASSUME Files!UploadsAssumption, UploadsInv, NEW t \in Files!Token, Files!TokenLapses(t)
    PROVE  UploadsInv'
  <1>1. UNCHANGED <<uIssued, uUsed, uReq, uFaults, uPins, uRow, uSweep, uPost>>
    BY DEF Files!TokenLapses, Files!FileStays
  <1>2. uTok' \in [Files!Token -> Files!Copies] /\ \A u \in Files!Token : (uTok'[u].mem => uTok[u].mem)
          /\ (uTok'[u].redis => uTok[u].redis)
    <2>1. CASE uTok' = [uTok EXCEPT ![t].mem = FALSE]
      BY <2>1 DEF UploadsInv, Files!TypeOK, Files!Copies
    <2>2. CASE uTok' = [uTok EXCEPT ![t].redis = FALSE]
      BY <2>2 DEF UploadsInv, Files!TypeOK, Files!Copies
    <2> QED
      BY <2>1, <2>2 DEF Files!TokenLapses
  <1>3. Files!TypeOK'
    BY <1>1, <1>2 DEF UploadsInv, Files!TypeOK
  <1>4. OneAtATime'
    BY <1>1, <1>2 DEF UploadsInv, OneAtATime, Presents
  <1>5. CopiesCount'
    BY <1>1, <1>2 DEF UploadsInv, CopiesCount, Presents
  <1>6. Backed' /\ PinsKept' /\ Files!FreshRowKeepsPin'
    BY <1>1, PinsKeep DEF UploadsInv, Backed
  <1> QED
    BY <1>3, <1>4, <1>5, <1>6 DEF UploadsInv

(***************************************************************************)
(* The pin and its row.                                                    *)
(***************************************************************************)

\* A step of a request past its token, which leaves the tokens alone.
LEMMA PinReqStep ==
    ASSUME Files!UploadsAssumption, UploadsInv, Files!TokensStay, uFaults' \in 0..MaxUploadFaults,
           uFaults' >= uFaults,
           NEW r \in Upload, uReq[r].pc \notin {"idle", "burning", "clearing"},
           NEW new \in Files!Request, uReq'[r] = new, new.pc \notin {"burning", "clearing"},
           new.pc \in Recorders \cup {"releasing"} => new.backend \in Files!Backend,
           \A q \in Upload \ {r} : /\ uReq'[q] \in Files!Request /\ uReq'[q].pc = uReq[q].pc
                                   /\ uReq'[q].tok = uReq[q].tok
                                   /\ uReq'[q].hit = uReq[q].hit /\ uReq'[q].backend = uReq[q].backend,
           uReq' \in [Upload -> Files!Request], uPins' \subseteq Files!Backend,
           uRow' \in Files!Row \cup {None}, UNCHANGED <<uSweep, uPost>>,
           PinsKept', Files!FreshRowKeepsPin'
    PROVE  UploadsInv'
  <1>1. Files!TypeOK'
    BY DEF UploadsInv, Files!TypeOK, Files!TokensStay
  <1>2. OneAtATime' /\ CopiesCount'
    <2>1. \A q \in Upload, t \in Files!Token : Presents(q, t)' => Presents(q, t)
            /\ uReq'[q].hit = uReq[q].hit /\ uReq'[q].pc = uReq[q].pc
      BY DEF Presents
    <2> QED
      BY <2>1, TokensKeep DEF Files!TokensStay, Files!UploadsAssumption
  <1>3. Backed'
    BY DEF UploadsInv, Backed, Recorders
  <1> QED
    BY <1>1, <1>2, <1>3 DEF UploadsInv

\* The file is pinned to one node or the other, or the pin fails.
LEMMA PinStep ==
    ASSUME Files!UploadsAssumption, UploadsInv, NEW r \in Upload, Files!Pin(r)
    PROVE  UploadsInv'
  <1>1. uReq[r].pc = "pinning" /\ Files!TokensStay /\ UNCHANGED <<uRow, uSweep,
                                                                  uPost>> /\ uRow \in Files!Row \cup {None}
    BY DEF Files!Pin, UploadsInv, Files!TypeOK
  <1>2. uFaults' \in 0..MaxUploadFaults /\ uFaults' >= uFaults
    BY UploadFaultHolds DEF Files!Pin, UploadsInv
  <1>3. uPins \subseteq uPins' /\ uPins' \subseteq Files!Backend
    BY DEF Files!Pin, UploadsInv, Files!TypeOK, Files!Backend
  <1>4. PICK new \in Files!Request :
          /\ new.pc \in {"idle", "recording"} /\ uReq' = [uReq EXCEPT ![r] = new]
          /\ new.pc = "recording" => new.backend \in Files!Backend /\ new.backend \in uPins'
    <2>1. CASE uPins' = uPins \cup {Kubo} /\ uReq' = [uReq EXCEPT ![r].pc = "recording", ![r].backend = Kubo]
      <3>1. PICK new : new = [uReq[r] EXCEPT !.pc = "recording", !.backend = Kubo]
        OBVIOUS
      <3>2. new \in Files!Request /\ new.pc = "recording" /\ new.backend = Kubo
        BY <3>1 DEF UploadsInv, Files!TypeOK, Files!Request, Files!Backend
      <3>3. uReq' = [uReq EXCEPT ![r] = new]
        BY <2>1, <3>1 DEF UploadsInv, Files!TypeOK, Files!Request
      <3> QED
        BY <2>1, <3>2, <3>3 DEF Files!Backend
    <2>2. CASE uPins' \in {uPins \cup {Pinata}, uPins \cup Files!Backend}
            /\ uReq' = [uReq EXCEPT ![r].pc = "recording", ![r].backend = Pinata]
      <3>1. PICK new : new = [uReq[r] EXCEPT !.pc = "recording", !.backend = Pinata]
        OBVIOUS
      <3>2. new \in Files!Request /\ new.pc = "recording" /\ new.backend = Pinata
        BY <3>1 DEF UploadsInv, Files!TypeOK, Files!Request, Files!Backend
      <3>3. uReq' = [uReq EXCEPT ![r] = new]
        BY <2>2, <3>1 DEF UploadsInv, Files!TypeOK, Files!Request
      <3> QED
        BY <2>2, <3>2, <3>3 DEF Files!Backend
    <2>3. CASE Files!Ends(r)
      BY <2>3, RequestHolds DEF Files!Ends, UploadsInv
    <2> QED
      BY <2>1, <2>2, <2>3 DEF Files!Pin
  <1>5. uReq'[r] = new /\ (\A q \in Upload \ {r} : uReq'[q] = uReq[q]) /\ uReq' \in [Upload -> Files!Request]
    BY <1>4 DEF UploadsInv, Files!TypeOK
  <1>6. PinsKept'
    <2>1. \A q \in Upload : uReq'[q].pc \in Recorders => uReq'[q].backend \in uPins' \/ uReq'[q].undercut
      BY <1>3, <1>4, <1>5 DEF UploadsInv, PinsKept, Recorders
    <2>2. uRow' # None /\ (\E q \in Upload : uReq'[q].pc = "releasing") => uRow'.undercut
      BY <1>1, <1>4, <1>5 DEF UploadsInv, PinsKept
    <2> QED
      BY <1>1, <2>1, <2>2 DEF UploadsInv, PinsKept
  <1>7. Files!FreshRowKeepsPin'
    BY <1>1, <1>3 DEF UploadsInv, Files!FreshRowKeepsPin
  <1>8. /\ \A q \in Upload \ {r} : /\ uReq'[q] \in Files!Request /\ uReq'[q].pc = uReq[q].pc
                                   /\ uReq'[q].tok = uReq[q].tok
                                   /\ uReq'[q].hit = uReq[q].hit /\ uReq'[q].backend = uReq[q].backend
        /\ new.pc \in Recorders \cup {"releasing"} => new.backend \in Files!Backend
    BY <1>4, <1>5 DEF UploadsInv, Files!TypeOK, Recorders
  <1> QED
    BY <1>1, <1>2, <1>3, <1>4, <1>5, <1>6, <1>7, <1>8, PinReqStep

\* The row is inserted, if none is there.
LEMMA RecordStep ==
    ASSUME Files!UploadsAssumption, UploadsInv, NEW r \in Upload, Files!Record(r)
    PROVE  UploadsInv'
  <1>1. uReq[r].pc = "recording" /\ Files!TokensStay /\ UNCHANGED <<uPins, uSweep,
                                                                    uPost>> /\ (Files!Insert(r) \/ uRow' = uRow)
    BY DEF Files!Record
  <1>2. uFaults' \in 0..MaxUploadFaults /\ uFaults' >= uFaults
    BY UploadFaultHolds DEF Files!Record, UploadsInv
  <1>3. PICK new \in Files!Request :
          /\ new.pc \in {"idle", "checking"} /\ uReq' = [uReq EXCEPT ![r] = new]
          /\ new.pc = "checking" => new.backend = uReq[r].backend /\ new.undercut = uReq[r].undercut
    <2>1. CASE Files!Ends(r)
      BY <2>1, RequestHolds DEF Files!Ends, UploadsInv
    <2>2. CASE Files!Goes(r, "checking")
      <3>1. PICK new : new = [uReq[r] EXCEPT !.pc = "checking"]
        OBVIOUS
      <3>2. new \in Files!Request /\ new.pc = "checking" /\ new.backend = uReq[r].backend
              /\ new.undercut = uReq[r].undercut
        BY <3>1 DEF UploadsInv, Files!TypeOK, Files!Request
      <3>3. uReq' = [uReq EXCEPT ![r] = new]
        BY <2>2, <3>1 DEF Files!Goes, UploadsInv, Files!TypeOK, Files!Request
      <3> QED
        BY <2>2, <3>2, <3>3
    <2> QED
      BY <2>1, <2>2 DEF Files!Record
  <1>4. uReq'[r] = new /\ (\A q \in Upload \ {r} : uReq'[q] = uReq[q]) /\ uReq' \in [Upload -> Files!Request]
    BY <1>3 DEF UploadsInv, Files!TypeOK
  <1>5. uReq[r].backend \in Files!Backend /\ uReq[r].undercut \in BOOLEAN
          /\ (uReq[r].backend \in uPins \/ uReq[r].undercut)
    BY <1>1, RequestHolds DEF UploadsInv, Backed, PinsKept, Recorders
  <1>6. PICK undercut \in BOOLEAN :
          undercut = (uReq[r].undercut \/ \E q \in Upload : uReq[q].pc = "releasing")
    OBVIOUS
  <1>7. \/ uRow' = uRow
        \/ uRow = None /\ uRow' = [backend |-> uReq[r].backend, old |-> FALSE, undercut |-> undercut]
    BY <1>1, <1>6 DEF Files!Insert
  <1>8. (uReq[r].undercut => undercut) /\ ((\E q \in Upload : uReq[q].pc = "releasing") => undercut)
    BY <1>6, Zenon
  <1>9. uRow' \in Files!Row \cup {None}
    <2>1. [backend |-> uReq[r].backend, old |-> FALSE, undercut |-> undercut] \in Files!Row
      BY <1>5, <1>6 DEF Files!Row
    <2> QED
      BY <1>7, <2>1 DEF UploadsInv, Files!TypeOK
  <1>10. PinsKept'
    <2>1. \A q \in Upload : uReq'[q].pc \in Recorders => uReq'[q].backend \in uPins' \/ uReq'[q].undercut
      BY <1>1, <1>3, <1>4, <1>5 DEF UploadsInv, PinsKept, Recorders
    <2>2. uRow' # None /\ (\E q \in Upload : uReq'[q].pc = "releasing") => uRow'.undercut
      BY <1>3, <1>4, <1>7, <1>8 DEF UploadsInv, PinsKept
    <2>3. uSweep'.pc # "idle" => uRow' # None /\ uRow'.old
      BY <1>1, <1>7 DEF UploadsInv, PinsKept
    <2> QED
      BY <2>1, <2>2, <2>3 DEF PinsKept
  <1>11. Files!FreshRowKeepsPin'
    BY <1>1, <1>5, <1>7, <1>8 DEF UploadsInv, Files!FreshRowKeepsPin
  <1>12. /\ \A q \in Upload \ {r} : /\ uReq'[q] \in Files!Request /\ uReq'[q].pc = uReq[q].pc
                                    /\ uReq'[q].tok = uReq[q].tok
                                    /\ uReq'[q].hit = uReq[q].hit /\ uReq'[q].backend = uReq[q].backend
         /\ new.pc \in Recorders \cup {"releasing"} => new.backend \in Files!Backend
    BY <1>3, <1>4, <1>5 DEF UploadsInv, Files!TypeOK, Recorders
  <1>13. uPins' \subseteq Files!Backend
    BY <1>1 DEF UploadsInv, Files!TypeOK
  <1> QED
    BY <1>1, <1>2, <1>3, <1>4, <1>9, <1>10, <1>11, <1>12, <1>13, PinReqStep

\* A row confirmed absent lets the pin be released.
LEMMA CheckStep ==
    ASSUME Files!UploadsAssumption, UploadsInv, NEW r \in Upload, Files!Check(r)
    PROVE  UploadsInv'
  <1>1. uReq[r].pc = "checking" /\ Files!TokensStay /\ UNCHANGED <<uPins, uRow, uSweep, uPost>>
    BY DEF Files!Check, Files!FileStays
  <1>2. uFaults' \in 0..MaxUploadFaults /\ uFaults' >= uFaults
    BY UploadFaultHolds DEF Files!Check, UploadsInv
  <1>3. PICK new \in Files!Request :
          /\ new.pc \in {"idle", "releasing"} /\ uReq' = [uReq EXCEPT ![r] = new]
          /\ new.pc = "releasing" => uRow = None /\ new.backend = uReq[r].backend
    <2>1. CASE Files!Ends(r)
      BY <2>1, RequestHolds DEF Files!Ends, UploadsInv
    <2>2. CASE uRow = None /\ Files!Goes(r, "releasing")
      <3>1. PICK new : new = [uReq[r] EXCEPT !.pc = "releasing"]
        OBVIOUS
      <3>2. new \in Files!Request /\ new.pc = "releasing" /\ new.backend = uReq[r].backend
              /\ new.undercut = uReq[r].undercut
        BY <3>1 DEF UploadsInv, Files!TypeOK, Files!Request
      <3>3. uReq' = [uReq EXCEPT ![r] = new]
        BY <2>2, <3>1 DEF Files!Goes, UploadsInv, Files!TypeOK, Files!Request
      <3> QED
        BY <2>2, <3>2, <3>3
    <2> QED
      BY <2>1, <2>2 DEF Files!Check, Files!Absent
  <1>4. uReq'[r] = new /\ (\A q \in Upload \ {r} : uReq'[q] = uReq[q]) /\ uReq' \in [Upload -> Files!Request]
    BY <1>3 DEF UploadsInv, Files!TypeOK
  <1>5. PinsKept'
    <2>1. \A q \in Upload : uReq'[q].pc \in Recorders => uReq'[q].backend \in uPins' \/ uReq'[q].undercut
      BY <1>1, <1>3, <1>4 DEF UploadsInv, PinsKept, Recorders
    <2>2. uRow' # None /\ (\E q \in Upload : uReq'[q].pc = "releasing") => uRow'.undercut
      BY <1>1, <1>3, <1>4 DEF UploadsInv, PinsKept
    <2>3. uSweep'.pc # "idle" => uRow' # None /\ uRow'.old
      BY <1>1 DEF UploadsInv, PinsKept
    <2> QED
      BY <2>1, <2>2, <2>3 DEF PinsKept
  <1>6. Files!FreshRowKeepsPin'
    BY <1>1 DEF UploadsInv, Files!FreshRowKeepsPin
  <1>7. /\ \A q \in Upload \ {r} : /\ uReq'[q] \in Files!Request /\ uReq'[q].pc = uReq[q].pc
                                   /\ uReq'[q].tok = uReq[q].tok
                                   /\ uReq'[q].hit = uReq[q].hit /\ uReq'[q].backend = uReq[q].backend
        /\ new.pc \in Recorders \cup {"releasing"} => new.backend \in Files!Backend
    BY <1>1, <1>3, <1>4 DEF UploadsInv, Files!TypeOK, Recorders, Backed
  <1>8. uPins' \subseteq Files!Backend /\ uRow' \in Files!Row \cup {None}
    BY <1>1 DEF UploadsInv, Files!TypeOK
  <1> QED
    BY <1>1, <1>2, <1>3, <1>4, <1>5, <1>6, <1>7, <1>8, PinReqStep

\* What a release or the sweep undercuts.
LEMMA UndercutHolds ==
    ASSUME Files!UploadsAssumption, UploadsInv
    PROVE  /\ Files!Undercut(uReq) \in [Upload -> Files!Request]
           /\ \A q \in Upload : /\ Files!Undercut(uReq)[q].pc = uReq[q].pc
                                /\ Files!Undercut(uReq)[q].tok = uReq[q].tok
                                /\ Files!Undercut(uReq)[q].hit = uReq[q].hit
                                /\ Files!Undercut(uReq)[q].backend = uReq[q].backend
                                /\ uReq[q].pc \in Recorders => Files!Undercut(uReq)[q].undercut
  <1> SUFFICES ASSUME NEW q \in Upload
               PROVE  /\ Files!Undercut(uReq)[q] \in Files!Request
                      /\ Files!Undercut(uReq)[q].pc = uReq[q].pc /\ Files!Undercut(uReq)[q].tok = uReq[q].tok
                      /\ Files!Undercut(uReq)[q].hit = uReq[q].hit
                      /\ Files!Undercut(uReq)[q].backend = uReq[q].backend
                      /\ uReq[q].pc \in Recorders => Files!Undercut(uReq)[q].undercut
    BY DEF Files!Undercut
  <1>1. PICK cut \in BOOLEAN : cut = (uReq[q].undercut \/ uReq[q].pc \in {"recording", "checking"})
    OBVIOUS
  <1>2. uReq[q].pc \in Recorders => cut
    BY <1>1, Zenon DEF Recorders
  <1>3. Files!Undercut(uReq)[q] = [uReq[q] EXCEPT !.undercut = cut]
    BY <1>1 DEF Files!Undercut
  <1>4. uReq[q] \in Files!Request
    BY DEF UploadsInv, Files!TypeOK
  <1> QED
    BY <1>2, <1>3, <1>4 DEF Files!Request

\* The pin is released.
LEMMA ReleaseStep ==
    ASSUME Files!UploadsAssumption, UploadsInv, NEW r \in Upload, Files!Release(r)
    PROVE  UploadsInv'
  <1>1. uReq[r].pc = "releasing" /\ Files!TokensStay /\ UNCHANGED <<uRow, uSweep, uPost>>
    BY DEF Files!Release
  <1>2. uFaults' \in 0..MaxUploadFaults /\ uFaults' >= uFaults
    BY UploadFaultHolds DEF Files!Release, UploadsInv
  <1>3. /\ uReq' \in [Upload -> Files!Request] /\ uReq'[r] = Files!IdleRequest
             /\ Files!IdleRequest \in Files!Request /\ Files!IdleRequest.pc = "idle"
        /\ \A q \in Upload \ {r} : /\ uReq'[q] \in Files!Request /\ uReq'[q].pc = uReq[q].pc
                                   /\ uReq'[q].tok = uReq[q].tok
                                   /\ uReq'[q].hit = uReq[q].hit /\ uReq'[q].backend = uReq[q].backend
        /\ \/ uPins' = uPins /\ \A q \in Upload \ {r} : uReq'[q] = uReq[q]
           \/ \A q \in Upload \ {r} : uReq[q].pc \in Recorders => uReq'[q].undercut
    <2>1. CASE uPins' = uPins /\ Files!Ends(r)
      BY <2>1, RequestHolds DEF Files!Ends, UploadsInv, Files!TypeOK
    <2>2. CASE uReq' = [Files!Undercut(uReq) EXCEPT ![r] = Files!IdleRequest]
      BY <2>2, UndercutHolds, RequestHolds DEF UploadsInv
    <2> QED
      BY <2>1, <2>2 DEF Files!Release
  <1>4. uPins' \subseteq Files!Backend
    BY DEF Files!Release, Files!Unpin, UploadsInv, Files!TypeOK
  <1>5. uRow # None => uRow.undercut
    BY <1>1 DEF UploadsInv, PinsKept
  <1>6. PinsKept'
    <2>1. \A q \in Upload : uReq'[q].pc \in Recorders => uReq'[q].backend \in uPins' \/ uReq'[q].undercut
      BY <1>3 DEF UploadsInv, PinsKept, Recorders
    <2> QED
      BY <1>1, <1>5, <2>1 DEF UploadsInv, PinsKept
  <1>7. Files!FreshRowKeepsPin'
    BY <1>1, <1>5 DEF Files!FreshRowKeepsPin
  <1>8. uRow' \in Files!Row \cup {None}
    BY <1>1 DEF UploadsInv, Files!TypeOK
  <1>9. Files!IdleRequest.pc \notin {"burning", "clearing"}
          /\ Files!IdleRequest.pc \notin Recorders \cup {"releasing"}
    BY <1>3 DEF Recorders
  <1> QED
    BY <1>1, <1>2, <1>3, <1>4, <1>6, <1>7, <1>8, <1>9, PinReqStep

(***************************************************************************)
(* The sweep and the surroundings.                                         *)
(***************************************************************************)

\* A step that moves no request but to mark it undercut.
LEMMA SweepKeeps ==
    ASSUME Files!UploadsAssumption, UploadsInv, Files!TokensStay, uFaults' = uFaults \/ Files!Fault,
           \A q \in Upload : /\ uReq'[q] \in Files!Request /\ uReq'[q].pc = uReq[q].pc
                             /\ uReq'[q].tok = uReq[q].tok
                             /\ uReq'[q].hit = uReq[q].hit /\ uReq'[q].backend = uReq[q].backend,
           uReq' \in [Upload -> Files!Request], uPins' \subseteq Files!Backend,
           uRow' \in Files!Row \cup {None}, uSweep' \in Files!Sweep,
           uSweep'.pc # "idle" => uSweep'.backend \in Files!Backend,
           uPost' \in {"none", "posted", "indexed"}, PinsKept', Files!FreshRowKeepsPin'
    PROVE  UploadsInv'
  <1>0. uFaults' \in 0..MaxUploadFaults /\ uFaults' >= uFaults
    BY UploadFaultHolds DEF UploadsInv
  <1>1. Files!TypeOK'
    BY <1>0 DEF UploadsInv, Files!TypeOK, Files!TokensStay
  <1>2. OneAtATime' /\ CopiesCount'
    <2>1. \A q \in Upload, t \in Files!Token : Presents(q, t)' => Presents(q, t)
            /\ uReq'[q].hit = uReq[q].hit /\ uReq'[q].pc = uReq[q].pc
      BY DEF Presents
    <2> QED
      BY <1>0, <2>1, TokensKeep DEF Files!TokensStay, Files!UploadsAssumption
  <1>3. Backed'
    BY DEF UploadsInv, Backed, Recorders
  <1> QED
    BY <1>1, <1>2, <1>3 DEF UploadsInv

LEMMA SweepStep ==
    ASSUME Files!UploadsAssumption, UploadsInv,
           Files!SweepTakes \/ Files!SweepAsks \/ Files!SweepUnpins \/ Files!SweepDeletes
    PROVE  UploadsInv'
  <1>1. Files!TokensStay /\ uPost' = uPost /\ uPost \in {"none", "posted", "indexed"}
          /\ uSweep \in Files!Sweep /\ (uFaults' = uFaults \/ Files!Fault)
    BY DEF Files!SweepTakes, Files!SweepAsks, Files!SweepUnpins, Files!SweepDeletes, UploadsInv, Files!TypeOK
  <1>2. /\ uPins' \subseteq uPins /\ uPins \subseteq Files!Backend
        /\ uPins' # uPins => uRow # None /\ uRow.old /\ uReq' = Files!Undercut(uReq)
        /\ uRow' = uRow \/ (uRow' = None /\ uSweep'.pc = "idle")
    BY RequestHolds DEF Files!SweepTakes, Files!SweepAsks, Files!SweepUnpins, Files!SweepDeletes,
       Files!SweepEnds, Files!Unpin, UploadsInv, Files!TypeOK, PinsKept
  <1>3. /\ uSweep' \in Files!Sweep /\ (uSweep'.pc # "idle" => uSweep'.backend \in Files!Backend)
        /\ uSweep'.pc # "idle" => uRow # None /\ uRow.old
    <2>1. CASE Files!SweepTakes
      BY <2>1 DEF Files!SweepTakes, Files!Due, Files!Sweep, UploadsInv, Files!TypeOK, Files!Row
    <2>2. CASE Files!SweepAsks
      BY <2>2, RequestHolds DEF Files!SweepAsks, Files!SweepGoes, Files!SweepEnds, Files!Sweep, UploadsInv,
         Files!TypeOK, Backed, PinsKept
    <2>3. CASE Files!SweepUnpins
      BY <2>3, RequestHolds DEF Files!SweepUnpins, Files!SweepGoes, Files!SweepEnds, Files!Sweep,
         UploadsInv, Files!TypeOK, Backed, PinsKept
    <2>4. CASE Files!SweepDeletes
      BY <2>4, RequestHolds DEF Files!SweepDeletes, Files!SweepEnds, UploadsInv
    <2> QED
      BY <2>1, <2>2, <2>3, <2>4
  <1>4. uReq' = uReq \/ uReq' = Files!Undercut(uReq)
    BY DEF Files!SweepTakes, Files!SweepAsks, Files!SweepUnpins, Files!SweepDeletes
  <1>5. /\ uReq' \in [Upload -> Files!Request]
        /\ \A q \in Upload : /\ uReq'[q] \in Files!Request /\ uReq'[q].pc = uReq[q].pc
                             /\ uReq'[q].tok = uReq[q].tok
                             /\ uReq'[q].hit = uReq[q].hit /\ uReq'[q].backend = uReq[q].backend
        /\ uPins' # uPins => \A q \in Upload : uReq[q].pc \in Recorders => uReq'[q].undercut
        /\ \A q \in Upload : uReq[q].pc \in Recorders => uReq'[q] = uReq[q] \/ uReq'[q].undercut
    <2>1. CASE uReq' = uReq
      <3>1. uPins' # uPins => uReq' = Files!Undercut(uReq)
        BY <1>2
      <3> QED
        BY <2>1, <3>1, UndercutHolds DEF UploadsInv, Files!TypeOK
    <2>2. CASE uReq' = Files!Undercut(uReq)
      BY <2>2, UndercutHolds
    <2> QED
      BY <1>4, <2>1, <2>2
  <1>6. PinsKept'
    <2>1. \A q \in Upload : uReq'[q].pc \in Recorders => uReq'[q].backend \in uPins' \/ uReq'[q].undercut
      BY <1>5 DEF UploadsInv, PinsKept
    <2>2. uRow' # None /\ (\E q \in Upload : uReq'[q].pc = "releasing") => uRow'.undercut
      BY <1>2, <1>5 DEF UploadsInv, PinsKept
    <2>3. uSweep'.pc # "idle" => uRow' # None /\ uRow'.old
      BY <1>2, <1>3
    <2> QED
      BY <2>1, <2>2, <2>3 DEF PinsKept
  <1>7. Files!FreshRowKeepsPin'
    BY <1>2 DEF UploadsInv, Files!FreshRowKeepsPin
  <1>8. uPins' \subseteq Files!Backend /\ uRow' \in Files!Row \cup {None}
    BY <1>2 DEF UploadsInv, Files!TypeOK
  <1> QED
    BY <1>1, <1>3, <1>5, <1>6, <1>7, <1>8, SweepKeeps

\* A row gets old, a post references the file, or nothing happens.
LEMMA AroundStep ==
    ASSUME Files!UploadsAssumption, UploadsInv, Files!DayPasses \/ Files!Publish \/ UNCHANGED Files!vars
    PROVE  UploadsInv'
  <1>1. Files!TokensStay /\ UNCHANGED <<uReq, uPins, uSweep, uFaults>> /\ uPost' \in {"none", "posted",
                                        "indexed"}
    BY DEF Files!DayPasses, Files!Publish, Files!vars, Files!TokensStay, UploadsInv, Files!TypeOK
  <1>2. uRow' = uRow \/ (uRow # None /\ uRow' = [uRow EXCEPT !.old = TRUE])
    BY DEF Files!DayPasses, Files!Publish, Files!vars
  <1>3. /\ uRow' \in Files!Row \cup {None} /\ (uRow' # None <=> uRow # None)
             /\ (uRow # None => uRow'.undercut = uRow.undercut)
        /\ uRow # None /\ uRow.old => uRow'.old
        /\ uRow' = uRow \/ uRow'.old
    <2>1. CASE uRow' = uRow
      BY <2>1 DEF UploadsInv, Files!TypeOK
    <2>2. CASE uRow # None /\ uRow' = [uRow EXCEPT !.old = TRUE]
      <3>1. uRow \in Files!Row
        BY <2>2 DEF UploadsInv, Files!TypeOK
      <3>2. uRow' \in Files!Row /\ uRow'.undercut = uRow.undercut /\ uRow'.old
        BY <2>2, <3>1 DEF Files!Row
      <3>3. None \notin Files!Row
        BY DEF Files!UploadsAssumption
      <3> QED
        BY <2>2, <3>2, <3>3
    <2> QED
      BY <1>2, <2>1, <2>2
  <1>4. PinsKept' /\ Files!FreshRowKeepsPin'
    BY <1>1, <1>3 DEF UploadsInv, PinsKept, Files!FreshRowKeepsPin
  <1> QED
    BY <1>1, <1>3, <1>4, SweepKeeps DEF UploadsInv, Files!TypeOK, Backed

\* The process dies: the copies in memory go, and so do the requests.
LEMMA CrashStep ==
    ASSUME Files!UploadsAssumption, UploadsInv, Files!Crash
    PROVE  UploadsInv'
  <1>1. /\ UNCHANGED <<uIssued, uUsed, uPins, uRow,
                       uPost>> /\ uFaults' \in 0..MaxUploadFaults /\ uFaults' >= uFaults
        /\ uSweep' = Files!IdleSweep /\ uTok' = [t \in Files!Token |-> [uTok[t] EXCEPT !.mem = FALSE]]
    BY UploadFaultHolds DEF Files!Crash, Files!SweepEnds, UploadsInv
  <1>2. uReq' \in [Upload -> Files!Request] /\ \A q \in Upload : uReq'[q].pc = "idle"
    BY RequestHolds DEF Files!Crash, UploadsInv
  <1>3. uTok' \in [Files!Token -> Files!Copies] /\ \A u \in Files!Token : ~uTok'[u].mem
          /\ uTok'[u].redis = uTok[u].redis
    BY <1>1 DEF UploadsInv, Files!TypeOK, Files!Copies
  <1>4. Files!TypeOK'
    BY <1>1, <1>2, <1>3, RequestHolds DEF UploadsInv, Files!TypeOK
  <1>5. OneAtATime'
    BY <1>1, <1>2, <1>3 DEF UploadsInv, OneAtATime, Presents
  <1>6. CopiesCount'
    <2> SUFFICES ASSUME NEW u \in Files!Token
                 PROVE  /\ uUsed[u] > 0 => ~uTok'[u].mem /\ (uTok'[u].redis => uFaults' > 1)
                        /\ uUsed[u] > 1 => ~uTok'[u].redis /\ uFaults' > 1
      BY <1>1, <1>2 DEF CopiesCount, Presents
    <2> QED
      BY <1>1, <1>3, RequestHolds DEF UploadsInv, CopiesCount
  <1>7. Backed' /\ PinsKept' /\ Files!FreshRowKeepsPin'
    <2>1. Backed'
      BY <1>1, <1>2, RequestHolds DEF UploadsInv, Backed, Recorders
    <2>2. \A q \in Upload : uReq'[q].pc \in Recorders \cup {"releasing"} => uReq'[q] = uReq[q]
      BY <1>2 DEF Recorders
    <2> QED
      BY <1>1, <2>1, <2>2, PinsKeep, RequestHolds DEF UploadsInv
  <1> QED
    BY <1>4, <1>5, <1>6, <1>7 DEF UploadsInv

LEMMA UploadsStart ==
    ASSUME Files!UploadsAssumption, Files!Init
    PROVE  UploadsInv
  <1>1. /\ uTok = [t \in Files!Token |-> [mem |-> FALSE, redis |-> FALSE]] /\ uUsed = [t \in Files!Token |-> 0]
        /\ uReq = [r \in Upload |-> Files!IdleRequest] /\ uRow = None /\ uSweep = Files!IdleSweep
    BY DEF Files!Init
  <1>2. Files!IdleRequest \in Files!Request /\ Files!IdleRequest.pc = "idle"
          /\ Files!IdleSweep \in Files!Sweep /\ Files!IdleSweep.pc = "idle"
    BY DEF Files!IdleRequest, Files!Request, Files!IdleSweep, Files!Sweep
  <1>3. Files!TypeOK
    <2>1. uTok \in [Files!Token -> Files!Copies] /\ uUsed \in [Files!Token -> 0..2]
            /\ uReq \in [Upload -> Files!Request]
      BY <1>1, <1>2 DEF Files!Copies
    <2>2. uIssued \in 0..MaxTok /\ uFaults \in 0..MaxUploadFaults
      BY DEF Files!Init, Files!UploadsAssumption
    <2> QED
      BY <1>1, <1>2, <2>1, <2>2 DEF Files!Init, Files!TypeOK
  <1> QED
    BY <1>1, <1>2, <1>3 DEF UploadsInv, Backed, OneAtATime, CopiesCount, PinsKept, Files!FreshRowKeepsPin,
       Presents, Recorders

\* The inductive invariant holds of every behaviour of the uploads.
THEOREM UploadsInvariant == Files!Spec => []UploadsInv
  <1>1. Files!Init => UploadsInv
    BY PartsAssumption, UploadsStart
  <1>2. UploadsInv /\ [Files!Next]_Files!vars => UploadsInv'
    BY PartsAssumption, IssueStep, PresentStep, BurnStep, ClearStep, LapseStep, PinStep,
       RecordStep, CheckStep, ReleaseStep,
       SweepStep,
       AroundStep, CrashStep DEF Files!Next, Files!Handle
  <1> QED
    BY <1>1, <1>2, PTL DEF Files!Spec

\* Tokens, pins, the tracking row and the sweep keep their types.
THEOREM UploadsTyped == Files!Spec => []Files!TypeOK
  <1>1. UploadsInv => Files!TypeOK
    BY DEF UploadsInv
  <1> QED
    BY <1>1, UploadsInvariant, PTL

\* A token passes a second upload only after two failed calls (upload-token.ts
\* consumeUploadToken), and a row younger than a day has its pin (ipfs.ts pinToIpfs).
THEOREM FilesHold == Files!Spec => []FilesKept
  <1>1. UploadsInv => FilesKept
    BY DEF FilesKept, UploadsInv, CopiesCount, Files!OneUploadPerToken
  <1> QED
    BY <1>1, UploadsInvariant, PTL

(***************************************************************************)
(* The semaphore of argon2.                                                *)
(***************************************************************************)

\* The instance has a copy of the standard operators of its own.
LEMMA SlotCardinality ==
    /\ \A S : Hashing!Cardinality(S) = Cardinality(S)
    /\ \A S : Hashing!IsFiniteSet(S) = IsFiniteSet(S)
  BY DEF Hashing!Cardinality, Cardinality, Hashing!IsFiniteSet, IsFiniteSet

\* A line of callers in which each stands once.
Once(s) == \A i, j \in DOMAIN s : i # j => s[i] # s[j]

\* A parked caller is in the queue or has its microtask queued, and not both.
Queues ==
  /\ Once(sWaiters) /\ Once(sMicro) /\ Hashing!ToSet(sWaiters) \cap Hashing!ToSet(sMicro) = {}
  /\ \A r \in Hasher : sReq[r].pc = "parked" <=> r \in Hashing!ToSet(sWaiters) \cup Hashing!ToSet(sMicro)

\* The promise of a caller settles when it leaves the queue.
Promises ==
  \A r \in Hasher :
    /\ r \in Hashing!ToSet(sWaiters) => sReq[r].settled = "pending" /\ ~sReq[r].gone
    /\ r \in Hashing!ToSet(sMicro) => sReq[r].settled # "pending"
    /\ sReq[r].pc # "parked" => sReq[r].settled = "pending"
    /\ sReq[r].pc = "idle" => ~sReq[r].gone
    /\ sReq[r].counted <=> sReq[r].settled = "aborted"
    /\ sReq[r].settled = "aborted" => sReq[r].gone

\* One slot is promised at a time.
OneGrant ==
  \A p, q \in Hasher : sReq[p].settled = "granted" /\ sReq[q].settled = "granted" => p = q

\* The slots that are promised, the operations that run, the callers whose abort is counted
\* and not thrown yet, and those that are parked with their client gone.
Promised == IF \E r \in Hasher : sReq[r].settled = "granted" THEN 1 ELSE 0
Withdrawn == {r \in Hasher : sReq[r].settled = "aborted"}
Leaving == {r \in Hasher : sReq[r].pc = "parked" /\ sReq[r].gone}

\* Callers wait only while every slot is taken or promised.
NoneIdle ==
  /\ sInFlight = Cardinality(Hashing!Running)
  /\ sInFlight + Promised <= Cap
  /\ sWaiters # <<>> => sInFlight + Promised = Cap

CountsHold ==
  /\ sQueueDepth = Len(sWaiters) + Len(sMicro)
  /\ sAbortCount = sThrown + Cardinality(Withdrawn)
  /\ sThrown + Cardinality(Leaving) <= MaxAborts

SemInv == Hashing!TypeOK /\ Queues /\ Promises /\ OneGrant /\ NoneIdle /\ CountsHold

(***************************************************************************)
(* Lines of callers.                                                       *)
(***************************************************************************)

\* What joins a line, and what leaves it at the front.
LEMMA Joins ==
    ASSUME NEW S, NEW s \in Seq(S), NEW e \in S
    PROVE  LET t == Append(s, e) IN
           /\ t \in Seq(S) /\ Len(t) = Len(s) + 1 /\ t # <<>>
           /\ Hashing!ToSet(t) = Hashing!ToSet(s) \cup {e}
           /\ Once(s) /\ e \notin Hashing!ToSet(s) => Once(t)
  <1> DEFINE t == Append(s, e)
  <1>1. /\ t \in Seq(S) /\ Len(t) = Len(s) + 1 /\ t # <<>> /\ Len(s) \in Nat
        /\ DOMAIN s = 1..Len(s) /\ DOMAIN t = 1..(Len(s) + 1)
        /\ \A i \in 1..Len(s) : t[i] = s[i]
        /\ t[Len(s) + 1] = e
    OBVIOUS
  <1> HIDE DEF t
  <1>2. \A i \in DOMAIN t : i \in DOMAIN s \/ i = Len(s) + 1
    BY <1>1
  <1>3. DOMAIN s \subseteq DOMAIN t /\ Len(s) + 1 \in DOMAIN t
    BY <1>1
  <1>4. Hashing!ToSet(t) = Hashing!ToSet(s) \cup {e}
    BY <1>1, <1>2, <1>3 DEF Hashing!ToSet
  <1>5. ASSUME Once(s), e \notin Hashing!ToSet(s)
        PROVE  Once(t)
    <2>1. \A i \in DOMAIN s : s[i] # e
      BY <1>5 DEF Hashing!ToSet
    <2> QED
      BY <1>1, <1>2, <1>5, <2>1 DEF Once
  <1> QED
    BY <1>1, <1>4, <1>5 DEF t

LEMMA Leaves ==
    ASSUME NEW S, NEW s \in Seq(S), s # <<>>
    PROVE  /\ Tail(s) \in Seq(S) /\ Len(Tail(s)) = Len(s) - 1
           /\ Head(s) \in S /\ Head(s) \in Hashing!ToSet(s)
           /\ Once(s) => Hashing!ToSet(Tail(s)) = Hashing!ToSet(s) \ {Head(s)} /\ Once(Tail(s))
  <1> DEFINE t == Tail(s)
  <1>1. /\ t \in Seq(S) /\ Len(t) = Len(s) - 1 /\ Len(s) \in Nat \ {0}
        /\ DOMAIN s = 1..Len(s) /\ DOMAIN t = 1..(Len(s) - 1)
        /\ \A i \in DOMAIN t : t[i] = s[i + 1]
        /\ Head(s) = s[1] /\ Head(s) \in S
    OBVIOUS
  <1> HIDE DEF t
  <1>2. Head(s) \in Hashing!ToSet(s)
    BY <1>1 DEF Hashing!ToSet
  <1>3. \A i \in DOMAIN t : i + 1 \in DOMAIN s /\ i + 1 # 1
    BY <1>1
  <1>4. ASSUME Once(s)
        PROVE  Hashing!ToSet(t) = Hashing!ToSet(s) \ {Head(s)} /\ Once(t)
    <2>1. ASSUME NEW i \in DOMAIN t
          PROVE  t[i] \in Hashing!ToSet(s) \ {Head(s)}
      <3>1. i + 1 \in DOMAIN s /\ 1 \in DOMAIN s /\ i + 1 # 1
        BY <1>1, <1>3
      <3> QED
        BY <1>1, <1>4, <3>1 DEF Once, Hashing!ToSet
    <2>2. ASSUME NEW i \in DOMAIN s, s[i] # Head(s)
          PROVE  s[i] \in Hashing!ToSet(t)
      <3>1. i - 1 \in DOMAIN t /\ (i - 1) + 1 = i
        BY <1>1, <2>2
      <3> QED
        BY <1>1, <3>1 DEF Hashing!ToSet
    <2>3. Hashing!ToSet(t) = Hashing!ToSet(s) \ {Head(s)}
      BY <2>1, <2>2 DEF Hashing!ToSet
    <2>4. \A i, j \in DOMAIN t : i # j => i + 1 # j + 1
      BY <1>1
    <2>5. Once(t)
      BY <1>1, <1>3, <1>4, <2>4 DEF Once
    <2> QED
      BY <2>3, <2>5
  <1> QED
    BY <1>1, <1>2, <1>4 DEF t

\* What is taken out of a line.
LEMMA Removal ==
    ASSUME NEW S, NEW s \in Seq(S), NEW e \in Hashing!ToSet(s), Once(s)
    PROVE  LET t == Hashing!RemoveFirst(s, e) IN
           /\ t \in Seq(S) /\ Len(t) = Len(s) - 1
           /\ Hashing!ToSet(t) = Hashing!ToSet(s) \ {e} /\ Once(t)
  <1> DEFINE t == Hashing!RemoveFirst(s, e)
             I == {i \in 1..Len(s) : s[i] = e}
  <1>1. DOMAIN s = 1..Len(s) /\ Len(s) \in Nat
    OBVIOUS
  <1>2. PICK i \in 1..Len(s) : s[i] = e
    BY <1>1 DEF Hashing!ToSet
  <1>3. I = {i}
    BY <1>1, <1>2 DEF Once
  <1>4. Hashing!SelectInSeq(s, LAMBDA v : v = e) = i
    BY <1>2, <1>3 DEF Hashing!SelectInSeq, Hashing!Min
  <1>5. t = SubSeq(s, 1, i - 1) \o SubSeq(s, i + 1, Len(s))
    BY <1>2, <1>4 DEF Hashing!RemoveFirst, Hashing!RemoveAt
  <1> DEFINE u == SubSeq(s, 1, i - 1)
             v == SubSeq(s, i + 1, Len(s))
  <1>6. /\ u \in Seq(S) /\ Len(u) = i - 1 /\ \A k \in 1..Len(u) : u[k] = s[k]
        /\ v \in Seq(S) /\ Len(v) = Len(s) - i /\ \A k \in 1..Len(v) : v[k] = s[i + k]
    BY <1>2
  <1>7. t = u \o v
    BY <1>5
  <1> HIDE DEF u, v, t
  <1>8. t \in Seq(S) /\ Len(t) = Len(s) - 1
    <2>1. t \in Seq(S) /\ Len(t) = Len(u) + Len(v)
      BY <1>6, <1>7, ConcatProperties
    <2> QED
      BY <2>1, <1>6, <1>2
  <1> DEFINE from(k) == IF k < i THEN k ELSE k + 1
  <1>9. DOMAIN t = 1..(Len(s) - 1)
    BY <1>8
  <1>10. ASSUME NEW k \in DOMAIN t
         PROVE  from(k) \in DOMAIN s /\ from(k) # i /\ t[k] = s[from(k)]
    <2>1. from(k) \in DOMAIN s /\ from(k) # i
      BY <1>9, <1>1, <1>2
    <2>2. CASE k < i
      <3>1. k \in 1..Len(u)
        BY <2>2, <1>6, <1>9, <1>1, <1>2
      <3> QED
        BY <3>1, <2>1, <2>2, <1>6, <1>7
    <2>3. CASE ~(k < i)
      <3>1. k - Len(u) \in 1..Len(v) /\ k = Len(u) + (k - Len(u))
        BY <2>3, <1>6, <1>9, <1>1, <1>2
      <3>2. t[k] = v[k - Len(u)]
        BY SMTT(30), <3>1, <1>6, <1>7
      <3>3. i + (k - Len(u)) = k + 1
        BY <1>6, <1>9, <1>1, <1>2
      <3> QED
        BY <3>1, <3>2, <3>3, <2>1, <2>3, <1>6
    <2> QED
      BY <2>2, <2>3
  <1>11. \A k, l \in DOMAIN t : k # l => from(k) # from(l)
    BY <1>9, <1>1, <1>2
  <1>12. ASSUME NEW j \in DOMAIN s, j # i
         PROVE  \E k \in DOMAIN t : from(k) = j
    <2>1. CASE j < i
      BY <2>1, <1>9, <1>1, <1>2
    <2>2. CASE j > i
      <3>1. j - 1 \in DOMAIN t /\ from(j - 1) = j
        BY <2>2, <1>9, <1>1, <1>2
      <3> QED
        BY <3>1
    <2> QED
      BY <2>1, <2>2, <1>12, <1>1, <1>2
  <1> HIDE DEF from
  <1>13. Once(t)
    BY <1>10, <1>11 DEF Once
  <1>14. Hashing!ToSet(t) = Hashing!ToSet(s) \ {e}
    <2>1. \A k \in DOMAIN t : t[k] \in Hashing!ToSet(s) \ {e}
      BY <1>10, <1>1, <1>2 DEF Hashing!ToSet, Once
    <2>2. \A j \in DOMAIN s : s[j] # e => s[j] \in Hashing!ToSet(t)
      BY <1>10, <1>12, <1>2 DEF Hashing!ToSet
    <2> QED
      BY <2>1, <2>2 DEF Hashing!ToSet
  <1> QED
    BY <1>8, <1>13, <1>14 DEF t

LEMMA EmptyLine == Once(<<>>) /\ Hashing!ToSet(<<>>) = {} /\ Len(<<>>) = 0
  BY DEF Once, Hashing!ToSet

(***************************************************************************)
(* Counting.                                                               *)
(***************************************************************************)

\* Callers are counted one by one.
LEMMA OneByOne ==
    ASSUME NEW A \in SUBSET Hasher
    PROVE  /\ Cardinality(A) \in Nat /\ (Cardinality(A) = 0 <=> A = {})
           /\ \A r \in Hasher : r \notin A => Cardinality(A \cup {r}) = Cardinality(A) + 1
           /\ \A r \in Hasher : r \in A => Cardinality(A \ {r}) = Cardinality(A) - 1
           /\ \A r \in Hasher : r \notin A => A \ {r} = A
           /\ \A r \in Hasher : r \in A => A \cup {r} = A
  <1>1. IsFiniteSet(A)
    BY PartsAssumption, SlotCardinality, FS_Subset DEF Hashing!SemaphoreAssumption
  <1>2. \A r \in Hasher : r \notin A => Cardinality(A \cup {r}) = Cardinality(A) + 1
    BY <1>1, FS_AddElement
  <1>3. \A r \in Hasher : r \in A => Cardinality(A \ {r}) = Cardinality(A) - 1
    BY <1>1, FS_RemoveElement
  <1> QED
    BY <1>1, <1>2, <1>3, FS_CardinalityType, FS_EmptySet

LEMMA FewerLeave ==
    ASSUME NEW A \in SUBSET Hasher, NEW C \in SUBSET A
    PROVE  Cardinality(C) <= Cardinality(A)
  <1>1. IsFiniteSet(A)
    BY PartsAssumption, SlotCardinality, FS_Subset DEF Hashing!SemaphoreAssumption
  <1> QED
    BY <1>1, FS_Subset

LEMMA Sets == Hashing!Running \in SUBSET Hasher /\ Withdrawn \in SUBSET Hasher /\ Leaving \in SUBSET Hasher
  BY DEF Hashing!Running, Withdrawn, Leaving

\* What a caller is, and where.
LEMMA CallerHolds ==
    ASSUME SemInv, NEW r \in Hasher
    PROVE  /\ sReq \in [Hasher -> Hashing!Request] /\ sReq[r] \in Hashing!Request /\ DOMAIN sReq = Hasher
           /\ sReq[r].pc \in {"idle", "parked", "running"}
           /\ sReq[r].settled \in {"pending", "granted", "aborted", "drained"}
           /\ sReq[r].gone \in BOOLEAN /\ sReq[r].counted \in BOOLEAN
           /\ Hashing!ToSet(sWaiters) \subseteq Hasher /\ Hashing!ToSet(sMicro) \subseteq Hasher
           /\ (sReq[r].settled = "granted" => r \in Hashing!ToSet(sMicro))
           /\ (sReq[r].settled = "aborted" => r \in Hashing!ToSet(sMicro))
  <1>1. sReq \in [Hasher -> Hashing!Request] /\ sWaiters \in Seq(Hasher) /\ sMicro \in Seq(Hasher)
    BY DEF SemInv, Hashing!TypeOK
  <1>2. sReq[r] \in Hashing!Request
    BY <1>1
  <1>3. Hashing!ToSet(sWaiters) \subseteq Hasher /\ Hashing!ToSet(sMicro) \subseteq Hasher
    BY <1>1 DEF Hashing!ToSet
  <1>4. sReq[r].settled # "pending" => r \in Hashing!ToSet(sMicro)
    BY <1>2 DEF SemInv, Promises, Queues, Hashing!Request
  <1> QED
    BY <1>1, <1>2, <1>3, <1>4 DEF Hashing!Request

LEMMA StandingHolds ==
    /\ Cap \in Nat \ {0} /\ MaxQueue \in Nat \ {0} /\ MaxAborts \in Nat
  BY PartsAssumption DEF Hashing!SemaphoreAssumption

LEMMA NumbersHold ==
    ASSUME SemInv
    PROVE  /\ sInFlight \in 0..Cap /\ sQueueDepth \in Nat /\ Promised \in 0..1
           /\ sAbortCount \in 0..MaxAborts /\ sThrown \in 0..MaxAborts
           /\ sWaiters \in Seq(Hasher) /\ sMicro \in Seq(Hasher)
           /\ Len(sWaiters) \in 0..MaxQueue /\ Len(sMicro) \in Nat /\ sClosing \in BOOLEAN
  BY StandingHolds DEF SemInv, Hashing!TypeOK, Promised

\* No caller has its microtask queued once the microtasks have run.
LEMMA QuietHolds ==
    ASSUME SemInv, Hashing!Quiet
    PROVE  /\ Hashing!ToSet(sMicro) = {} /\ Len(sMicro) = 0 /\ Promised = 0
           /\ \A r \in Hasher : /\ sReq[r].settled = "pending" /\ ~sReq[r].counted
                                /\ sReq[r].pc = "parked" <=> r \in Hashing!ToSet(sWaiters)
           /\ Withdrawn = {} /\ Leaving = {}
  <1>1. sMicro = <<>> /\ Hashing!ToSet(sMicro) = {} /\ Len(sMicro) = 0
    BY EmptyLine DEF Hashing!Quiet
  <1>2. ASSUME NEW r \in Hasher
        PROVE  /\ sReq[r].settled = "pending" /\ ~sReq[r].counted
               /\ sReq[r].pc = "parked" <=> r \in Hashing!ToSet(sWaiters)
               /\ r \in Hashing!ToSet(sWaiters) => ~sReq[r].gone
    BY <1>1, CallerHolds DEF SemInv, Queues, Promises
  <1> QED
    BY <1>1, <1>2 DEF Promised, Withdrawn, Leaving

\* A count of aborts that are not thrown yet stays within the clients that disconnect.
LEMMA CountsFit ==
    ASSUME sAbortCount = sThrown + Cardinality(Withdrawn), sThrown + Cardinality(Leaving) <= MaxAborts,
           Withdrawn \subseteq Leaving, sThrown \in Nat
    PROVE  sAbortCount \in 0..MaxAborts /\ sThrown \in 0..MaxAborts
  <1>1. Cardinality(Withdrawn) <= Cardinality(Leaving)
    BY Sets, FewerLeave
  <1>2. Cardinality(Withdrawn) \in Nat /\ Cardinality(Leaving) \in Nat
    BY Sets, OneByOne
  <1> QED
    BY <1>1, <1>2, StandingHolds

LEMMA WithdrawnLeave ==
    ASSUME Promises, NEW S, sReq \in [S -> Hashing!Request]
    PROVE  Withdrawn \subseteq Leaving
  BY DEF Promises, Withdrawn, Leaving

(***************************************************************************)
(* Initially.                                                              *)
(***************************************************************************)

LEMMA SemStarts == Hashing!Init => SemInv
  <1> SUFFICES ASSUME Hashing!Init PROVE SemInv
    OBVIOUS
  <1>1. Hashing!ToSet(sWaiters) = {} /\ Hashing!ToSet(sMicro) = {} /\ Once(sWaiters) /\ Once(sMicro)
    BY EmptyLine DEF Hashing!Init
  <1>2. Hashing!TypeOK
    <2>1. Hashing!IdleRequest \in Hashing!Request
      BY DEF Hashing!IdleRequest, Hashing!Request
    <2>2. sReq \in [Hasher -> Hashing!Request]
      BY <2>1 DEF Hashing!Init
    <2>3. sWaiters \in Seq(Hasher) /\ sMicro \in Seq(Hasher) /\ Len(sWaiters) = 0
      BY DEF Hashing!Init
    <2>4. sInFlight \in 0..Cap /\ sQueueDepth \in Nat /\ Len(sWaiters) <= MaxQueue
          /\ sAbortCount \in 0..MaxAborts /\ sThrown \in 0..MaxAborts
      BY <2>3, StandingHolds DEF Hashing!Init
    <2>5. sClosing \in BOOLEAN
      BY DEF Hashing!Init
    <2> QED
      BY <2>2, <2>3, <2>4, <2>5 DEF Hashing!TypeOK
  <1>3. \A r \in Hasher : sReq[r] = Hashing!IdleRequest
    BY DEF Hashing!Init
  <1>4. Queues /\ Promises /\ OneGrant
    BY <1>1, <1>3 DEF Queues, Promises, OneGrant, Hashing!IdleRequest
  <1>5. Hashing!Running = {} /\ Withdrawn = {} /\ Leaving = {} /\ Promised = 0
    BY <1>3 DEF Hashing!Running, Withdrawn, Leaving, Promised, Hashing!IdleRequest
  <1>6. Cardinality({}) = 0
    BY FS_EmptySet
  <1>7. NoneIdle /\ CountsHold
    BY <1>5, <1>6, StandingHolds, EmptyLine DEF NoneIdle, CountsHold, Hashing!Init
  <1> QED
    BY <1>2, <1>4, <1>7 DEF SemInv

(***************************************************************************)
(* One caller leaves, or joins.                                            *)
(***************************************************************************)

\* The record of one caller changes.
LEMMA OneMoves ==
    ASSUME SemInv, NEW r \in Hasher, NEW v \in Hashing!Request, sReq' = [sReq EXCEPT ![r] = v]
    PROVE  /\ sReq' \in [Hasher -> Hashing!Request] /\ sReq'[r] = v
                /\ \A q \in Hasher \ {r} : sReq'[q] = sReq[q]
           /\ Hashing!Running' = IF v.pc = "running" THEN Hashing!Running \cup {r} ELSE Hashing!Running \ {r}
           /\ Withdrawn' = IF v.settled = "aborted" THEN Withdrawn \cup {r} ELSE Withdrawn \ {r}
           /\ Leaving' = IF v.pc = "parked" /\ v.gone THEN Leaving \cup {r} ELSE Leaving \ {r}
  <1>1. sReq' \in [Hasher -> Hashing!Request] /\ sReq'[r] = v /\ \A q \in Hasher \ {r} : sReq'[q] = sReq[q]
    BY CallerHolds
  <1>2. \A q \in Hasher : sReq'[q] = IF q = r THEN v ELSE sReq[q]
    BY <1>1
  <1>3. Hashing!Running' = IF v.pc = "running" THEN Hashing!Running \cup {r} ELSE Hashing!Running \ {r}
    BY <1>2 DEF Hashing!Running
  <1>4. Withdrawn' = IF v.settled = "aborted" THEN Withdrawn \cup {r} ELSE Withdrawn \ {r}
    BY <1>2 DEF Withdrawn
  <1>5. Leaving' = IF v.pc = "parked" /\ v.gone THEN Leaving \cup {r} ELSE Leaving \ {r}
    BY <1>2 DEF Leaving
  <1> QED
    BY <1>1, <1>3, <1>4, <1>5

\* A slot is promised to the oldest of the queue, by a caller that goes.
LEMMA SlotPromised ==
    ASSUME SemInv, NEW r \in Hasher, sReq[r].pc # "idle", r \notin Hashing!ToSet(sWaiters),
           \A q \in Hasher : sReq[q].settled = "granted" => q = r,
           NEW tasks \in Seq(Hasher), Once(tasks), Hashing!ToSet(tasks) = Hashing!ToSet(sMicro) \ {r},
           Hashing!PromiseSlot([sReq EXCEPT ![r] = Hashing!IdleRequest], tasks)
    PROVE  /\ sReq' \in [Hasher -> Hashing!Request] /\ sWaiters' \in Seq(Hasher) /\ sMicro' \in Seq(Hasher)
           /\ Len(sWaiters') <= Len(sWaiters)
           /\ Queues' /\ Promises' /\ OneGrant'
           /\ sWaiters = <<>> => sWaiters' = <<>> /\ Promised' = 0
           /\ sWaiters # <<>> => Promised' = 1
           /\ Hashing!Running' = Hashing!Running \ {r} /\ Withdrawn' = Withdrawn \ {r}
           /\ Leaving' = Leaving \ {r}
           /\ Len(sWaiters') + Len(sMicro') = Len(sWaiters) + Len(tasks)
  <1>1. Hashing!IdleRequest \in Hashing!Request /\ Hashing!IdleRequest.pc = "idle"
          /\ Hashing!IdleRequest.settled = "pending"
    BY DEF Hashing!IdleRequest, Hashing!Request
  <1>2. CASE sWaiters = <<>>
    <2>1. sReq' = [sReq EXCEPT ![r] = Hashing!IdleRequest] /\ sMicro' = tasks /\ sWaiters' = <<>>
            /\ sWaiters' = sWaiters
      BY <1>2 DEF Hashing!PromiseSlot
    <2>2. /\ sReq' \in [Hasher -> Hashing!Request] /\ sReq'[r] = Hashing!IdleRequest
               /\ \A q \in Hasher \ {r} : sReq'[q] = sReq[q]
          /\ Hashing!Running' = Hashing!Running \ {r} /\ Withdrawn' = Withdrawn \ {r}
          /\ Leaving' = Leaving \ {r}
      BY <1>1, <2>1, OneMoves
    <2>3. Hashing!ToSet(sWaiters') = {} /\ Once(sWaiters') /\ Len(sWaiters') = 0 /\ Hashing!ToSet(sWaiters) = {}
      BY <2>1, EmptyLine
    <2>4. \A q \in Hasher : sReq'[q].settled # "granted"
      BY <2>2 DEF Hashing!IdleRequest
    <2>5. Hashing!ToSet(sMicro') = Hashing!ToSet(sMicro) \ {r} /\ Once(sMicro')
      BY <2>1
    <2>6. Queues'
      BY <2>2, <2>3, <2>5 DEF SemInv, Queues, Hashing!IdleRequest
    <2>7. Promises'
      BY <2>2, <2>3, <2>5 DEF SemInv, Promises, Hashing!IdleRequest
    <2>8. OneGrant' /\ Promised' = 0
      BY <2>4 DEF OneGrant, Promised
    <2> QED
      BY <1>2, <2>1, <2>2, <2>3, <2>6, <2>7, <2>8, NumbersHold
  <1>3. CASE sWaiters # <<>>
    <2> DEFINE h == Head(sWaiters)
               idle == [sReq EXCEPT ![r] = Hashing!IdleRequest]
    <2>1. sReq' = [idle EXCEPT ![h].settled = "granted"] /\ sMicro' = Append(tasks, h)
          /\ sWaiters' = Tail(sWaiters)
      BY <1>3 DEF Hashing!PromiseSlot
    <2>2. /\ sWaiters' \in Seq(Hasher) /\ Len(sWaiters') = Len(sWaiters) - 1
          /\ h \in Hasher /\ h \in Hashing!ToSet(sWaiters)
          /\ Hashing!ToSet(sWaiters') = Hashing!ToSet(sWaiters) \ {h} /\ Once(sWaiters')
      BY <1>3, <2>1, NumbersHold, Leaves DEF SemInv, Queues
    <2> HIDE DEF h
    <2>3. h # r /\ h \notin Hashing!ToSet(sMicro)
      BY <2>2 DEF SemInv, Queues
    <2>4. /\ sMicro' \in Seq(Hasher) /\ Len(sMicro') = Len(tasks) + 1
          /\ Hashing!ToSet(sMicro') = (Hashing!ToSet(sMicro) \ {r}) \cup {h} /\ Once(sMicro')
      BY <2>1, <2>2, <2>3, Joins
    <2>5. sReq[h].pc = "parked" /\ sReq[h].settled = "pending" /\ ~sReq[h].gone /\ ~sReq[h].counted
      BY <2>2, CallerHolds DEF SemInv, Queues, Promises
    <2> DEFINE v == [sReq[h] EXCEPT !.settled = "granted"]
    <2>6. v \in Hashing!Request /\ v.pc = "parked" /\ v.settled = "granted" /\ ~v.gone /\ ~v.counted
      BY <2>2, <2>5, CallerHolds DEF Hashing!Request
    <2>7. idle \in [Hasher -> Hashing!Request] /\ idle[h] = sReq[h] /\ idle[r] = Hashing!IdleRequest
      BY <1>1, <2>2, <2>3, CallerHolds
    <2>8. sReq' = [idle EXCEPT ![h] = v]
      BY <2>1, <2>7
    <2>9. /\ sReq' \in [Hasher -> Hashing!Request] /\ sReq'[h] = v /\ sReq'[r] = Hashing!IdleRequest
          /\ \A q \in Hasher \ {r, h} : sReq'[q] = sReq[q]
      BY <2>2, <2>3, <2>6, <2>7, <2>8, CallerHolds
    <2> HIDE DEF v, idle
    <2>10. Queues'
      BY SMTT(30), <2>2, <2>3, <2>4, <2>6, <2>9 DEF SemInv, Queues, Hashing!IdleRequest
    <2>11. Promises'
      BY <2>2, <2>3, <2>4, <2>6, <2>9 DEF SemInv, Promises, Hashing!IdleRequest
    <2>12. \A q \in Hasher : sReq'[q].settled = "granted" <=> q = h
      BY <2>2, <2>3, <2>6, <2>9 DEF Hashing!IdleRequest
    <2>13. OneGrant' /\ Promised' = 1
      BY <2>2, <2>12 DEF OneGrant, Promised
    <2>14. Hashing!Running' = Hashing!Running \ {r} /\ Withdrawn' = Withdrawn \ {r} /\ Leaving' = Leaving \ {r}
      BY <2>2, <2>3, <2>5, <2>6, <2>9 DEF Hashing!Running, Withdrawn, Leaving, Hashing!IdleRequest
    <2> QED
      BY <1>3, <2>2, <2>4, <2>9, <2>10, <2>11, <2>13, <2>14, NumbersHold
  <1> QED
    BY <1>2, <1>3

(***************************************************************************)
(* The steps.                                                              *)
(***************************************************************************)

\* What the counts of an invariant state come to.
LEMMA Counted ==
    ASSUME SemInv
    PROVE  /\ sInFlight = Cardinality(Hashing!Running) /\ sInFlight + Promised <= Cap
           /\ sWaiters # <<>> => sInFlight + Promised = Cap
           /\ sQueueDepth = Len(sWaiters) + Len(sMicro)
           /\ sAbortCount = sThrown + Cardinality(Withdrawn)
           /\ sThrown + Cardinality(Leaving) <= MaxAborts
           /\ Cardinality(Hashing!Running) \in Nat /\ Cardinality(Withdrawn) \in Nat
           /\ Cardinality(Leaving) \in Nat
  BY Sets, OneByOne DEF SemInv, NoneIdle, CountsHold

\* A call arrives.
LEMMA ArriveKeeps ==
    ASSUME SemInv, NEW r \in Hasher, Hashing!Arrive(r)
    PROVE  SemInv'
  <1>1. /\ Hashing!Quiet /\ sReq[r].pc = "idle" /\ sMicro' = sMicro /\ sAbortCount' = sAbortCount
        /\ sThrown' = sThrown /\ sClosing' = sClosing
    BY DEF Hashing!Arrive
  <1>2. r \notin Hashing!ToSet(sWaiters) /\ Hashing!ToSet(sMicro) = {} /\ Promised = 0
          /\ sReq[r].settled = "pending"
        /\ ~sReq[r].gone /\ ~sReq[r].counted /\ \A q \in Hasher : sReq[q].settled = "pending"
    BY <1>1, QuietHolds DEF SemInv, Promises
  <1>3. r \notin Hashing!Running /\ r \notin Withdrawn /\ r \notin Leaving
    BY <1>1, <1>2 DEF Hashing!Running, Withdrawn, Leaving
  <1>4. CASE Hashing!Free
    <2> DEFINE v == [sReq[r] EXCEPT !.pc = "running"]
    <2>1. /\ v \in Hashing!Request /\ v.pc = "running" /\ v.settled = "pending" /\ ~v.gone /\ ~v.counted
      BY <1>2, CallerHolds DEF Hashing!Request
    <2>2. sReq' = [sReq EXCEPT ![r] = v]
      BY <1>4, CallerHolds DEF Hashing!Arrive
    <2>3. sInFlight' = sInFlight + 1 /\ sWaiters' = sWaiters /\ sQueueDepth' = sQueueDepth
      BY <1>4 DEF Hashing!Arrive
    <2> HIDE DEF v
    <2>4. /\ sReq' \in [Hasher -> Hashing!Request] /\ sReq'[r] = v /\ \A q \in Hasher \ {r} : sReq'[q] = sReq[q]
          /\ Hashing!Running' = Hashing!Running \cup {r} /\ Withdrawn' = Withdrawn /\ Leaving' = Leaving
      <3>1. /\ sReq' \in [Hasher -> Hashing!Request] /\ sReq'[r] = v
                 /\ \A q \in Hasher \ {r} : sReq'[q] = sReq[q]
            /\ Hashing!Running' = IF v.pc = "running" THEN Hashing!Running \cup {r} ELSE Hashing!Running \ {r}
            /\ Withdrawn' = IF v.settled = "aborted" THEN Withdrawn \cup {r} ELSE Withdrawn \ {r}
            /\ Leaving' = IF v.pc = "parked" /\ v.gone THEN Leaving \cup {r} ELSE Leaving \ {r}
        BY <2>1, <2>2, OneMoves
      <3> QED
        BY <1>3, <2>1, <3>1
    <2>5. Queues' /\ Promises' /\ OneGrant'
      <3>1. Queues'
        BY <1>1, <1>2, <2>1, <2>3, <2>4 DEF SemInv, Queues
      <3>2. Promises'
        BY <1>1, <1>2, <2>1, <2>3, <2>4 DEF SemInv, Promises
      <3>3. OneGrant'
        BY <1>2, <2>1, <2>4 DEF OneGrant
      <3> QED
        BY <3>1, <3>2, <3>3
    <2>6. Promised' = 0
      BY <1>2, <2>1, <2>4 DEF Promised
    <2>7. Cardinality(Hashing!Running') = Cardinality(Hashing!Running) + 1
      BY <1>3, <2>4, Sets, OneByOne
    <2>8. sInFlight < Cap
      BY <1>4 DEF Hashing!Free
    <2>9. NoneIdle' /\ sInFlight' \in 0..Cap
      BY <1>2, <2>3, <2>6, <2>7, <2>8, Counted, NumbersHold, StandingHolds DEF NoneIdle
    <2>10. CountsHold'
      BY <1>1, <2>3, <2>4, Counted DEF CountsHold
    <2>11. Hashing!TypeOK'
      BY <1>1, <2>3, <2>4, <2>9, NumbersHold DEF Hashing!TypeOK
    <2> QED
      BY <2>5, <2>9, <2>10, <2>11 DEF SemInv
  <1>5. CASE ~Hashing!Free
    <2> DEFINE v == [sReq[r] EXCEPT !.pc = "parked"]
    <2>1. /\ v \in Hashing!Request /\ v.pc = "parked" /\ v.settled = "pending" /\ ~v.gone /\ ~v.counted
      BY <1>2, CallerHolds DEF Hashing!Request
    <2>2. sReq' = [sReq EXCEPT ![r] = v]
      BY <1>5, CallerHolds DEF Hashing!Arrive
    <2>3. /\ sInFlight' = sInFlight /\ sWaiters' = Append(sWaiters, r)
          /\ sQueueDepth' = sQueueDepth + 1 /\ Len(sWaiters) < MaxQueue
      BY <1>5 DEF Hashing!Arrive
    <2> HIDE DEF v
    <2>4. /\ sReq' \in [Hasher -> Hashing!Request] /\ sReq'[r] = v /\ \A q \in Hasher \ {r} : sReq'[q] = sReq[q]
          /\ Hashing!Running' = Hashing!Running /\ Withdrawn' = Withdrawn /\ Leaving' = Leaving
      <3>1. /\ sReq' \in [Hasher -> Hashing!Request] /\ sReq'[r] = v
                 /\ \A q \in Hasher \ {r} : sReq'[q] = sReq[q]
            /\ Hashing!Running' = IF v.pc = "running" THEN Hashing!Running \cup {r} ELSE Hashing!Running \ {r}
            /\ Withdrawn' = IF v.settled = "aborted" THEN Withdrawn \cup {r} ELSE Withdrawn \ {r}
            /\ Leaving' = IF v.pc = "parked" /\ v.gone THEN Leaving \cup {r} ELSE Leaving \ {r}
        BY <2>1, <2>2, OneMoves
      <3> QED
        BY <1>3, <2>1, <3>1
    <2>5. /\ sWaiters' \in Seq(Hasher) /\ Len(sWaiters') = Len(sWaiters) + 1 /\ sWaiters' # <<>>
          /\ Hashing!ToSet(sWaiters') = Hashing!ToSet(sWaiters) \cup {r} /\ Once(sWaiters')
      BY <1>2, <2>3, Joins, NumbersHold DEF SemInv, Queues
    <2>6. Queues' /\ Promises' /\ OneGrant'
      <3>1. Queues'
        BY <1>1, <1>2, <2>1, <2>4, <2>5 DEF SemInv, Queues
      <3>2. Promises'
        BY <1>1, <1>2, <2>1, <2>4, <2>5 DEF SemInv, Promises
      <3>3. OneGrant'
        BY <1>2, <2>1, <2>4 DEF OneGrant
      <3> QED
        BY <3>1, <3>2, <3>3
    <2>7. Promised' = 0
      BY <1>2, <2>1, <2>4 DEF Promised
    <2>8. sInFlight = Cap
      BY <1>5, NumbersHold, StandingHolds DEF Hashing!Free
    <2>9. NoneIdle'
      BY <2>3, <2>4, <2>7, <2>8, Counted, StandingHolds DEF NoneIdle
    <2>10. CountsHold'
      BY <1>1, <2>3, <2>4, <2>5, Counted, NumbersHold DEF CountsHold
    <2>11. Hashing!TypeOK'
      BY <1>1, <2>3, <2>4, <2>5, NumbersHold, StandingHolds DEF Hashing!TypeOK
    <2> QED
      BY <2>6, <2>9, <2>10, <2>11 DEF SemInv
  <1> QED
    BY <1>4, <1>5

\* A call arrives from a client that has gone.
LEMMA ArriveGoneKeeps ==
    ASSUME SemInv, Hashing!ArriveGone
    PROVE  SemInv'
  <1>1. /\ Hashing!Quiet /\ sThrown < MaxAborts /\ sAbortCount' = sAbortCount + 1 /\ sThrown' = sThrown + 1
        /\ UNCHANGED <<sInFlight, sQueueDepth, sWaiters, sMicro, sClosing, sReq>>
    BY DEF Hashing!ArriveGone
  <1>2. Queues' /\ Promises' /\ OneGrant' /\ NoneIdle'
    BY <1>1 DEF SemInv, Queues, Promises, OneGrant, NoneIdle, Promised, Hashing!Running
  <1>3. Withdrawn = {} /\ Leaving = {} /\ Withdrawn' = {} /\ Leaving' = {}
    BY <1>1, QuietHolds DEF Withdrawn, Leaving
  <1>4. Cardinality({}) = 0
    BY FS_EmptySet
  <1>5. CountsHold'
    BY <1>1, <1>3, <1>4, Counted, NumbersHold, StandingHolds DEF CountsHold
  <1>6. sAbortCount = sThrown
    BY <1>3, <1>4, Counted, NumbersHold
  <1>7. Hashing!TypeOK'
    BY <1>1, <1>6, NumbersHold, StandingHolds DEF SemInv, Hashing!TypeOK
  <1> QED
    BY <1>2, <1>5, <1>7 DEF SemInv

\* An operation ends, and its slot is promised.
LEMMA FinishKeeps ==
    ASSUME SemInv, NEW r \in Hasher, Hashing!Finish(r)
    PROVE  SemInv'
  <1>1. /\ Hashing!Quiet /\ sReq[r].pc = "running" /\ sInFlight' = sInFlight - 1
        /\ Hashing!PromiseSlot([sReq EXCEPT ![r] = Hashing!IdleRequest], <<>>)
        /\ UNCHANGED <<sQueueDepth, sAbortCount, sClosing, sThrown>>
    BY DEF Hashing!Finish
  <1>2. /\ Hashing!ToSet(sMicro) = {} /\ Len(sMicro) = 0 /\ Promised = 0 /\ r \notin Hashing!ToSet(sWaiters)
        /\ \A q \in Hasher : sReq[q].settled = "granted" => q = r
        /\ Withdrawn = {} /\ Leaving = {}
    BY <1>1, QuietHolds
  <1>3. <<>> \in Seq(Hasher) /\ Once(<<>>) /\ Hashing!ToSet(<<>>) = Hashing!ToSet(sMicro) \ {r} /\ Len(<<>>) = 0
    BY <1>2, EmptyLine
  <1>4. /\ sReq' \in [Hasher -> Hashing!Request] /\ sWaiters' \in Seq(Hasher) /\ sMicro' \in Seq(Hasher)
        /\ Len(sWaiters') <= Len(sWaiters)
        /\ Queues' /\ Promises' /\ OneGrant'
        /\ sWaiters = <<>> => sWaiters' = <<>> /\ Promised' = 0
        /\ sWaiters # <<>> => Promised' = 1
        /\ Hashing!Running' = Hashing!Running \ {r} /\ Withdrawn' = {} /\ Leaving' = {}
        /\ Len(sWaiters') + Len(sMicro') = Len(sWaiters) + Len(<<>>)
    BY <1>1, <1>2, <1>3, SlotPromised
  <1>5. r \in Hashing!Running /\ Cardinality(Hashing!Running') = Cardinality(Hashing!Running) - 1
    BY <1>1, <1>4, Sets, OneByOne DEF Hashing!Running
  <1>6. Cardinality(Hashing!Running) > 0
    BY <1>5, Sets, OneByOne
  <1>7. NoneIdle' /\ sInFlight' \in 0..Cap
    BY <1>1, <1>2, <1>4, <1>5, <1>6, Counted, NumbersHold, StandingHolds DEF NoneIdle
  <1>8. CountsHold'
    BY <1>1, <1>2, <1>3, <1>4, Counted, NumbersHold DEF CountsHold
  <1>9. Len(sWaiters') <= MaxQueue
    BY <1>4, NumbersHold, StandingHolds
  <1>10. Hashing!TypeOK'
    BY <1>1, <1>4, <1>7, <1>9, NumbersHold DEF Hashing!TypeOK
  <1> QED
    BY <1>4, <1>7, <1>8, <1>10 DEF SemInv

\* The microtask of a waiter runs.
LEMMA ResumeKeeps ==
    ASSUME SemInv, Hashing!Resume
    PROVE  SemInv'
  <1> DEFINE r == Head(sMicro)
  <1>1. /\ r \in Hasher /\ r \in Hashing!ToSet(sMicro) /\ sMicro # <<>> /\ Len(sMicro) \in Nat \ {0}
        /\ Tail(sMicro) \in Seq(Hasher) /\ Len(Tail(sMicro)) = Len(sMicro) - 1
        /\ Hashing!ToSet(Tail(sMicro)) = Hashing!ToSet(sMicro) \ {r} /\ Once(Tail(sMicro))
    <2>1. sMicro # <<>> /\ sMicro \in Seq(Hasher) /\ Once(sMicro)
      BY NumbersHold DEF Hashing!Resume, Hashing!Quiet, SemInv, Queues
    <2>2. Len(sMicro) \in Nat \ {0}
      BY <2>1
    <2> QED
      BY <2>1, <2>2, Leaves
  <1>2. /\ sQueueDepth' = sQueueDepth - 1 /\ sClosing' = sClosing
        /\ \/ /\ sReq[r].settled = "granted" /\ ~sReq[r].gone
              /\ sInFlight' = sInFlight + 1
              /\ sReq' = [sReq EXCEPT ![r].pc = "running", ![r].settled = "pending"]
              /\ sMicro' = Tail(sMicro)
              /\ UNCHANGED <<sWaiters, sAbortCount, sThrown>>
           \/ /\ sReq[r].settled = "granted" /\ sReq[r].gone
              /\ Hashing!PromiseSlot([sReq EXCEPT ![r] = Hashing!IdleRequest], Tail(sMicro))
              /\ Hashing!Count(r) /\ sThrown' = sThrown + 1 /\ UNCHANGED sInFlight
           \/ /\ sReq[r].settled # "granted"
              /\ Hashing!Ends(r) /\ sMicro' = Tail(sMicro)
              /\ sThrown' = IF sReq[r].settled = "aborted" THEN sThrown + 1 ELSE sThrown
              /\ UNCHANGED <<sInFlight, sWaiters, sAbortCount>>
    BY DEF Hashing!Resume, Hashing!HandOn
  <1> HIDE DEF r
  <1>3. /\ sReq[r].pc = "parked" /\ sReq[r].settled # "pending" /\ r \notin Hashing!ToSet(sWaiters)
        /\ r \notin Hashing!Running
    BY <1>1, CallerHolds DEF SemInv, Queues, Promises, Hashing!Running
  <1>4. CASE /\ sReq[r].settled = "granted" /\ ~sReq[r].gone
             /\ sInFlight' = sInFlight + 1
             /\ sReq' = [sReq EXCEPT ![r].pc = "running", ![r].settled = "pending"]
             /\ sMicro' = Tail(sMicro)
             /\ UNCHANGED <<sWaiters, sAbortCount, sThrown>>
    <2>1. /\ ~sReq[r].counted /\ r \notin Withdrawn /\ r \notin Leaving /\ Promised = 1
          /\ \A q \in Hasher : sReq[q].settled = "granted" => q = r
      BY <1>1, <1>4 DEF SemInv, Promises, OneGrant, Withdrawn, Leaving, Promised
    <2> DEFINE v == [sReq[r] EXCEPT !.pc = "running", !.settled = "pending"]
    <2>2. v \in Hashing!Request /\ v.pc = "running" /\ v.settled = "pending" /\ ~v.gone /\ ~v.counted
      BY <1>1, <1>4, <2>1, CallerHolds DEF Hashing!Request
    <2>3. sReq' = [sReq EXCEPT ![r] = v]
      BY <1>1, <1>4, CallerHolds
    <2> HIDE DEF v
    <2>4. /\ sReq' \in [Hasher -> Hashing!Request] /\ sReq'[r] = v /\ \A q \in Hasher \ {r} : sReq'[q] = sReq[q]
          /\ Hashing!Running' = IF v.pc = "running" THEN Hashing!Running \cup {r} ELSE Hashing!Running \ {r}
          /\ Withdrawn' = IF v.settled = "aborted" THEN Withdrawn \cup {r} ELSE Withdrawn \ {r}
          /\ Leaving' = IF v.pc = "parked" /\ v.gone THEN Leaving \cup {r} ELSE Leaving \ {r}
      BY <1>1, <2>2, <2>3, OneMoves
    <2>5. Hashing!Running' = Hashing!Running \cup {r} /\ Withdrawn' = Withdrawn /\ Leaving' = Leaving
      BY <2>1, <2>2, <2>4
    <2>6. Queues'
      BY <1>1, <1>3, <1>4, <2>2, <2>4 DEF SemInv, Queues
    <2>7. Promises'
      BY <1>1, <1>3, <1>4, <2>2, <2>4 DEF SemInv, Promises
    <2>8. \A q \in Hasher : sReq'[q].settled # "granted"
      BY <2>1, <2>2, <2>4
    <2>9. OneGrant' /\ Promised' = 0
      BY <2>8 DEF OneGrant, Promised
    <2>10. Cardinality(Hashing!Running') = Cardinality(Hashing!Running) + 1
      BY <1>1, <1>3, <2>5, Sets, OneByOne
    <2>11. NoneIdle' /\ sInFlight' \in 0..Cap
      BY <1>4, <2>1, <2>9, <2>10, Counted, NumbersHold, StandingHolds DEF NoneIdle
    <2>12. CountsHold'
      BY <1>1, <1>2, <1>4, <2>5, Counted, NumbersHold DEF CountsHold
    <2>13. sQueueDepth' \in Nat
      BY <1>1, <1>2, Counted, NumbersHold
    <2>14. Hashing!TypeOK'
      BY <1>1, <1>2, <1>4, <2>4, <2>11, <2>13, NumbersHold DEF Hashing!TypeOK
    <2> QED
      BY <2>6, <2>7, <2>9, <2>11, <2>12, <2>14 DEF SemInv
  <1>5. CASE /\ sReq[r].settled = "granted" /\ sReq[r].gone
             /\ Hashing!PromiseSlot([sReq EXCEPT ![r] = Hashing!IdleRequest], Tail(sMicro))
             /\ Hashing!Count(r) /\ sThrown' = sThrown + 1 /\ UNCHANGED sInFlight
    <2>1. /\ ~sReq[r].counted /\ r \notin Withdrawn /\ r \in Leaving /\ Promised = 1
          /\ \A q \in Hasher : sReq[q].settled = "granted" => q = r
      BY <1>1, <1>3, <1>5 DEF SemInv, Promises, OneGrant, Withdrawn, Leaving, Promised
    <2>2. sAbortCount' = sAbortCount + 1
      BY <1>5, <2>1 DEF Hashing!Count
    <2>3. /\ sReq' \in [Hasher -> Hashing!Request] /\ sWaiters' \in Seq(Hasher) /\ sMicro' \in Seq(Hasher)
          /\ Len(sWaiters') <= Len(sWaiters)
          /\ Queues' /\ Promises' /\ OneGrant'
          /\ sWaiters = <<>> => sWaiters' = <<>> /\ Promised' = 0
          /\ sWaiters # <<>> => Promised' = 1
          /\ Hashing!Running' = Hashing!Running \ {r} /\ Withdrawn' = Withdrawn \ {r}
          /\ Leaving' = Leaving \ {r}
          /\ Len(sWaiters') + Len(sMicro') = Len(sWaiters) + Len(Tail(sMicro))
      BY <1>1, <1>3, <1>5, <2>1, SlotPromised
    <2>4. Hashing!Running' = Hashing!Running /\ Withdrawn' = Withdrawn
          /\ Cardinality(Leaving') = Cardinality(Leaving) - 1
      BY <1>1, <1>3, <2>1, <2>3, Sets, OneByOne
    <2>5. NoneIdle'
      <3>1. sInFlight' = Cardinality(Hashing!Running')
        BY <1>5, <2>4, Counted
      <3>2. CASE sWaiters = <<>>
        <4>1. sWaiters' = <<>> /\ sInFlight' + Promised' <= Cap
          BY <1>5, <2>1, <2>3, <3>2, Counted, NumbersHold, StandingHolds
        <4> QED
          BY <3>1, <4>1 DEF NoneIdle
      <3>3. CASE sWaiters # <<>>
        <4>1. sInFlight' + Promised' = Cap
          BY <1>5, <2>1, <2>3, <3>3, Counted, NumbersHold, StandingHolds
        <4> QED
          BY <3>1, <4>1, StandingHolds DEF NoneIdle
      <3> QED
        BY <3>2, <3>3
    <2>6. CountsHold'
      <3>1. sQueueDepth' = Len(sWaiters') + Len(sMicro')
        BY <1>1, <1>2, <2>3, Counted, NumbersHold
      <3>2. sAbortCount' = sThrown' + Cardinality(Withdrawn')
        BY <1>5, <2>2, <2>4, Counted, NumbersHold
      <3>3. sThrown' + Cardinality(Leaving') <= MaxAborts
        BY <1>5, <2>4, Counted, NumbersHold, StandingHolds
      <3> QED
        BY <3>1, <3>2, <3>3 DEF CountsHold
    <2>7. sQueueDepth' \in Nat
      BY <1>1, <1>2, Counted, NumbersHold
    <2>8. sAbortCount' \in 0..MaxAborts /\ sThrown' \in 0..MaxAborts
      <3>1. Withdrawn' \subseteq Leaving'
        BY <2>3, WithdrawnLeave DEF Promises, Withdrawn, Leaving
      <3>2. Cardinality(Withdrawn') <= Cardinality(Leaving')
        BY <2>3, <2>4, <3>1, Sets, FewerLeave
      <3> QED
        BY SMTT(30), <1>5, <2>2, <2>4, <3>2, Counted, NumbersHold, StandingHolds
    <2>9. Len(sWaiters') <= MaxQueue
      BY <2>3, NumbersHold, StandingHolds
    <2>10. Hashing!TypeOK'
      BY <1>2, <1>5, <2>3, <2>7, <2>8, <2>9, NumbersHold DEF Hashing!TypeOK
    <2> QED
      BY <2>3, <2>5, <2>6, <2>10 DEF SemInv
  <1>6. CASE /\ sReq[r].settled # "granted"
             /\ Hashing!Ends(r) /\ sMicro' = Tail(sMicro)
             /\ sThrown' = IF sReq[r].settled = "aborted" THEN sThrown + 1 ELSE sThrown
             /\ UNCHANGED <<sInFlight, sWaiters, sAbortCount>>
    <2>1. Hashing!IdleRequest \in Hashing!Request /\ Hashing!IdleRequest.pc = "idle"
            /\ Hashing!IdleRequest.settled = "pending"
          /\ ~Hashing!IdleRequest.gone /\ ~Hashing!IdleRequest.counted
      BY DEF Hashing!IdleRequest, Hashing!Request
    <2>2. /\ sReq' \in [Hasher -> Hashing!Request] /\ sReq'[r] = Hashing!IdleRequest
               /\ \A q \in Hasher \ {r} : sReq'[q] = sReq[q]
          /\ Hashing!Running' = Hashing!Running \ {r} /\ Withdrawn' = Withdrawn \ {r}
          /\ Leaving' = Leaving \ {r}
      BY <1>1, <1>6, <2>1, OneMoves DEF Hashing!Ends
    <2>3. Queues'
      BY <1>1, <1>3, <1>6, <2>1, <2>2 DEF SemInv, Queues
    <2>4. Promises'
      BY <1>1, <1>3, <1>6, <2>1, <2>2 DEF SemInv, Promises
    <2>5. \A q \in Hasher : sReq'[q].settled = "granted" <=> sReq[q].settled = "granted"
      BY <1>6, <2>1, <2>2
    <2>6. OneGrant' /\ Promised' = Promised
      BY <2>5 DEF SemInv, OneGrant, Promised
    <2>7. Hashing!Running' = Hashing!Running
      BY <1>3, <2>2
    <2>8. NoneIdle'
      BY <1>6, <2>6, <2>7, Counted DEF NoneIdle
    <2>9. r \in Withdrawn => r \in Leaving
      BY <1>1, <1>3 DEF SemInv, Promises, Withdrawn, Leaving
    <2>10. r \in Withdrawn <=> sReq[r].settled = "aborted"
      BY <1>1 DEF Withdrawn
    <2>11. /\ sAbortCount' = sThrown' + Cardinality(Withdrawn')
           /\ sThrown' + Cardinality(Leaving') <= MaxAborts /\ sThrown' \in Nat
      <3>1. CASE r \in Withdrawn
        <4>1. sThrown' = sThrown + 1 /\ sAbortCount' = sAbortCount
          BY <1>6, <2>10, <3>1
        <4>2. /\ Cardinality(Withdrawn') = Cardinality(Withdrawn) - 1
              /\ Cardinality(Leaving') = Cardinality(Leaving) - 1
          BY <1>1, <2>2, <2>9, <3>1, Sets, OneByOne
        <4> QED
          BY SMTT(30), <4>1, <4>2, Counted, NumbersHold, StandingHolds
      <3>2. CASE r \notin Withdrawn
        <4>1. sThrown' = sThrown /\ sAbortCount' = sAbortCount /\ Withdrawn' = Withdrawn
          BY <1>6, <2>2, <2>10, <3>2
        <4>2. Cardinality(Leaving') <= Cardinality(Leaving) /\ Cardinality(Leaving') \in Nat
          <5>1. Leaving' \in SUBSET Leaving
            BY <2>2
          <5> QED
            BY <5>1, Sets, FewerLeave, OneByOne
        <4> QED
          BY <4>1, <4>2, Counted, NumbersHold, StandingHolds
      <3> QED
        BY <3>1, <3>2
    <2>12. CountsHold'
      BY <1>1, <1>2, <1>6, <2>11, Counted, NumbersHold DEF CountsHold
    <2>13. sQueueDepth' \in Nat
      BY <1>1, <1>2, Counted, NumbersHold
    <2>14. sThrown' \in 0..MaxAborts
      <3>1. Cardinality(Leaving') \in Nat
        <4>1. Leaving' \in SUBSET Hasher
          BY <2>2, Sets
        <4> QED
          BY <4>1, OneByOne
      <3> QED
        BY <2>11, <3>1, StandingHolds
    <2>15. Hashing!TypeOK'
      BY <1>1, <1>2, <1>6, <2>2, <2>13, <2>14, NumbersHold DEF Hashing!TypeOK
    <2> QED
      BY <2>3, <2>4, <2>6, <2>8, <2>12, <2>15 DEF SemInv
  <1> QED
    BY <1>2, <1>4, <1>5, <1>6

\* A client disconnects.
LEMMA DisconnectKeeps ==
    ASSUME SemInv, NEW r \in Hasher, Hashing!Disconnect(r)
    PROVE  SemInv'
  <1>1. /\ sReq[r].pc # "idle" /\ ~sReq[r].gone /\ sThrown + Hashing!Aborts < MaxAborts
        /\ UNCHANGED <<sInFlight, sQueueDepth, sClosing, sThrown>>
    BY DEF Hashing!Disconnect
  <1>2. r \notin Leaving
    BY <1>1 DEF Leaving
  <1>3. sReq[r].settled # "aborted" /\ ~sReq[r].counted /\ r \notin Withdrawn
    BY <1>1, CallerHolds DEF SemInv, Promises, Withdrawn
  <1>4. sThrown + Cardinality(Leaving \cup {r}) <= MaxAborts
    <2>1. Cardinality(Leaving) <= Hashing!Aborts /\ Hashing!Aborts \in Nat
      <3> DEFINE G == {q \in Hasher : sReq[q].gone}
      <3>1. G \in SUBSET Hasher /\ Leaving \in SUBSET G
        BY DEF Leaving
      <3>2. Hashing!Aborts = Cardinality(G)
        BY SlotCardinality DEF Hashing!Aborts
      <3> HIDE DEF G
      <3> QED
        BY <3>1, <3>2, FewerLeave, OneByOne
    <2>2. Cardinality(Leaving \cup {r}) = Cardinality(Leaving) + 1
      BY <1>2, Sets, OneByOne
    <2> QED
      BY <1>1, <2>1, <2>2, Counted, NumbersHold, StandingHolds
  <1>5. CASE sReq[r].pc = "parked" /\ Hashing!Owns(r)
    <2>1. r \in Hashing!ToSet(sWaiters) /\ sReq[r].settled = "pending" /\ r \notin Hashing!ToSet(sMicro)
      BY <1>5 DEF Hashing!Owns, SemInv, Queues, Promises
    <2>2. /\ sAbortCount' = sAbortCount + 1 /\ sWaiters' = Hashing!RemoveFirst(sWaiters, r)
          /\ sMicro' = Append(sMicro, r)
          /\ sReq' = [sReq EXCEPT ![r].gone = TRUE, ![r].counted = TRUE, ![r].settled = "aborted"]
      BY <1>5, <2>1 DEF Hashing!Disconnect
    <2> DEFINE v == [sReq[r] EXCEPT !.gone = TRUE, !.counted = TRUE, !.settled = "aborted"]
    <2>3. v \in Hashing!Request /\ v.pc = "parked" /\ v.settled = "aborted" /\ v.gone /\ v.counted
      BY <1>5, CallerHolds DEF Hashing!Request
    <2>4. sReq' = [sReq EXCEPT ![r] = v]
      BY <2>2, CallerHolds
    <2> HIDE DEF v
    <2>5. /\ sReq' \in [Hasher -> Hashing!Request] /\ sReq'[r] = v /\ \A q \in Hasher \ {r} : sReq'[q] = sReq[q]
          /\ Hashing!Running' = IF v.pc = "running" THEN Hashing!Running \cup {r} ELSE Hashing!Running \ {r}
          /\ Withdrawn' = IF v.settled = "aborted" THEN Withdrawn \cup {r} ELSE Withdrawn \ {r}
          /\ Leaving' = IF v.pc = "parked" /\ v.gone THEN Leaving \cup {r} ELSE Leaving \ {r}
      BY <2>3, <2>4, OneMoves
    <2>6. r \notin Hashing!Running
      BY <1>5 DEF Hashing!Running
    <2>7. Hashing!Running' = Hashing!Running /\ Withdrawn' = Withdrawn \cup {r} /\ Leaving' = Leaving \cup {r}
      BY <2>3, <2>5, <2>6
    <2>8. /\ sWaiters' \in Seq(Hasher) /\ Len(sWaiters') = Len(sWaiters) - 1
          /\ Hashing!ToSet(sWaiters') = Hashing!ToSet(sWaiters) \ {r} /\ Once(sWaiters')
      BY <2>1, <2>2, NumbersHold, Removal DEF SemInv, Queues
    <2>9. /\ sMicro' \in Seq(Hasher) /\ Len(sMicro') = Len(sMicro) + 1
          /\ Hashing!ToSet(sMicro') = Hashing!ToSet(sMicro) \cup {r} /\ Once(sMicro')
      BY <2>1, <2>2, NumbersHold, Joins DEF SemInv, Queues
    <2>10. Queues'
      BY <2>1, <2>3, <2>5, <2>8, <2>9 DEF SemInv, Queues
    <2>11. Promises'
      BY <2>1, <2>3, <2>5, <2>8, <2>9 DEF SemInv, Promises
    <2>12. \A q \in Hasher : sReq'[q].settled = "granted" <=> sReq[q].settled = "granted"
      BY <2>1, <2>3, <2>5
    <2>13. OneGrant' /\ Promised' = Promised
      BY <2>12 DEF SemInv, OneGrant, Promised
    <2>14. sWaiters # <<>>
      BY <2>1, EmptyLine
    <2>15. NoneIdle'
      BY <1>1, <2>7, <2>13, <2>14, Counted DEF NoneIdle
    <2>16. sQueueDepth' = Len(sWaiters') + Len(sMicro')
      BY <1>1, <2>8, <2>9, Counted, NumbersHold
    <2>17. sAbortCount' = sThrown' + Cardinality(Withdrawn')
      <3>1. Cardinality(Withdrawn') = Cardinality(Withdrawn) + 1
        BY <1>3, <2>7, Sets, OneByOne
      <3> QED
        BY <1>1, <2>2, <3>1, Counted, NumbersHold
    <2>18. sThrown' + Cardinality(Leaving') <= MaxAborts
      BY <1>1, <1>4, <2>7
    <2>19. CountsHold'
      BY <2>16, <2>17, <2>18 DEF CountsHold
    <2>20. sAbortCount' \in 0..MaxAborts
      <3>1. Withdrawn \subseteq Leaving
        BY CallerHolds, WithdrawnLeave DEF SemInv, Hashing!TypeOK
      <3>2. Withdrawn' \in SUBSET Leaving' /\ Leaving' \in SUBSET Hasher /\ Withdrawn' \in SUBSET Hasher
        BY <2>7, <3>1, Sets
      <3>3. Cardinality(Withdrawn') <= Cardinality(Leaving')
        BY <3>2, FewerLeave
      <3>4. Cardinality(Withdrawn') \in Nat /\ Cardinality(Leaving') \in Nat
        BY <3>2, OneByOne
      <3> QED
        BY <1>1, <2>17, <2>18, <3>3, <3>4, NumbersHold, StandingHolds
    <2>21. Len(sWaiters') <= MaxQueue
      BY <2>8, NumbersHold, StandingHolds
    <2>22. Hashing!TypeOK'
      BY <1>1, <2>5, <2>8, <2>9, <2>20, <2>21, NumbersHold DEF Hashing!TypeOK
    <2> QED
      BY <2>10, <2>11, <2>13, <2>15, <2>19, <2>22 DEF SemInv
  <1>6. CASE ~(sReq[r].pc = "parked" /\ Hashing!Owns(r))
    <2>1. /\ sReq' = [sReq EXCEPT ![r].gone = TRUE]
          /\ UNCHANGED <<sAbortCount, sWaiters, sMicro>>
      BY <1>6 DEF Hashing!Disconnect
    <2>2. r \notin Hashing!ToSet(sWaiters)
      BY <1>6 DEF Hashing!Owns, SemInv, Queues
    <2> DEFINE v == [sReq[r] EXCEPT !.gone = TRUE]
    <2>3. /\ v \in Hashing!Request /\ v.pc = sReq[r].pc /\ v.settled = sReq[r].settled /\ v.gone
          /\ v.counted = sReq[r].counted
      BY CallerHolds DEF Hashing!Request
    <2>4. sReq' = [sReq EXCEPT ![r] = v]
      BY <2>1, CallerHolds
    <2> HIDE DEF v
    <2>5. /\ sReq' \in [Hasher -> Hashing!Request] /\ sReq'[r] = v /\ \A q \in Hasher \ {r} : sReq'[q] = sReq[q]
          /\ Hashing!Running' = IF v.pc = "running" THEN Hashing!Running \cup {r} ELSE Hashing!Running \ {r}
          /\ Withdrawn' = IF v.settled = "aborted" THEN Withdrawn \cup {r} ELSE Withdrawn \ {r}
          /\ Leaving' = IF v.pc = "parked" /\ v.gone THEN Leaving \cup {r} ELSE Leaving \ {r}
      BY <2>3, <2>4, OneMoves
    <2>6. r \in Hashing!Running <=> sReq[r].pc = "running"
      BY DEF Hashing!Running
    <2>7. Hashing!Running' = Hashing!Running /\ Withdrawn' = Withdrawn
          /\ (Leaving' = Leaving \cup {r} \/ Leaving' = Leaving)
      BY <1>2, <1>3, <2>3, <2>5, <2>6
    <2>8. Queues'
      BY <2>1, <2>3, <2>5 DEF SemInv, Queues
    <2>9. Promises'
      <3>1. sReq[r].counted <=> sReq[r].settled = "aborted"
        BY DEF SemInv, Promises
      <3>2. sReq[r].pc # "idle"
        BY <1>1
      <3> QED
        BY <2>1, <2>2, <2>3, <2>5, <3>1, <3>2 DEF SemInv, Promises
    <2>10. \A q \in Hasher : sReq'[q].settled = "granted" <=> sReq[q].settled = "granted"
      BY <2>3, <2>5
    <2>11. OneGrant' /\ Promised' = Promised
      BY <2>10 DEF SemInv, OneGrant, Promised
    <2>12. NoneIdle'
      BY <1>1, <2>1, <2>7, <2>11, Counted DEF NoneIdle
    <2>13. CountsHold'
      BY <1>1, <1>4, <2>1, <2>7, Counted DEF CountsHold
    <2>14. Hashing!TypeOK'
      BY <1>1, <2>1, <2>5, NumbersHold DEF Hashing!TypeOK
    <2> QED
      BY <2>8, <2>9, <2>11, <2>12, <2>13, <2>14 DEF SemInv
  <1> QED
    BY <1>5, <1>6

\* A shutdown drains the queue.
LEMMA DrainKeeps ==
    ASSUME SemInv, Hashing!Drain
    PROVE  SemInv'
  <1>1. /\ Hashing!Quiet /\ sClosing' = TRUE /\ sWaiters' = <<>> /\ sMicro' = sWaiters
        /\ sReq' = [r \in Hasher |-> IF r \in Hashing!ToSet(sWaiters)
                                   THEN [sReq[r] EXCEPT !.settled = "drained"] ELSE sReq[r]]
        /\ UNCHANGED <<sInFlight, sQueueDepth, sAbortCount, sThrown>>
    BY DEF Hashing!Drain
  <1>2. /\ Hashing!ToSet(sMicro) = {} /\ Len(sMicro) = 0 /\ Promised = 0 /\ Withdrawn = {} /\ Leaving = {}
        /\ \A r \in Hasher : /\ sReq[r].settled = "pending" /\ ~sReq[r].counted
                             /\ sReq[r].pc = "parked" <=> r \in Hashing!ToSet(sWaiters)
    BY <1>1, QuietHolds
  <1>3. ASSUME NEW r \in Hasher
        PROVE  /\ sReq'[r] \in Hashing!Request /\ sReq'[r].pc = sReq[r].pc
               /\ sReq'[r].settled = IF r \in Hashing!ToSet(sWaiters) THEN "drained" ELSE "pending"
               /\ sReq'[r].gone = sReq[r].gone /\ ~sReq'[r].counted
    <2>1. CASE r \in Hashing!ToSet(sWaiters)
      <3>1. sReq'[r] = [sReq[r] EXCEPT !.settled = "drained"]
        BY <1>1, <2>1
      <3> QED
        BY <1>2, <2>1, <3>1, CallerHolds DEF Hashing!Request
    <2>2. CASE r \notin Hashing!ToSet(sWaiters)
      BY <1>1, <1>2, <2>2, CallerHolds
    <2> QED
      BY <2>1, <2>2
  <1>4. sReq' \in [Hasher -> Hashing!Request]
    BY <1>1, <1>3
  <1>5. Hashing!ToSet(sWaiters') = {} /\ Once(sWaiters') /\ Len(sWaiters') = 0 /\ sWaiters' \in Seq(Hasher)
    BY <1>1, EmptyLine
  <1>6. Hashing!ToSet(sMicro') = Hashing!ToSet(sWaiters) /\ Once(sMicro') /\ sMicro' \in Seq(Hasher)
        /\ Len(sMicro') = Len(sWaiters)
    BY <1>1, NumbersHold DEF SemInv, Queues
  <1>7. Queues'
    BY <1>2, <1>3, <1>5, <1>6 DEF Queues
  <1>8. Promises'
    <2>1. \A r \in Hasher : sReq[r].pc = "idle" => ~sReq[r].gone
      BY DEF SemInv, Promises
    <2> QED
      BY <1>2, <1>3, <1>5, <1>6, <2>1 DEF Promises
  <1>9. OneGrant' /\ Promised' = 0
    BY <1>3 DEF OneGrant, Promised
  <1>10. Hashing!Running' = Hashing!Running /\ Withdrawn' = {} /\ Leaving' = {}
    <2>1. Hashing!Running' = Hashing!Running
      BY <1>3 DEF Hashing!Running
    <2>2. Withdrawn' = {}
      BY <1>3 DEF Withdrawn
    <2>3. \A r \in Hasher : r \in Hashing!ToSet(sWaiters) => ~sReq[r].gone
      BY DEF SemInv, Promises
    <2>4. Leaving' = {}
      BY <1>2, <1>3, <2>3 DEF Leaving
    <2> QED
      BY <2>1, <2>2, <2>4
  <1>11. NoneIdle'
    BY <1>1, <1>2, <1>9, <1>10, Counted, NumbersHold DEF NoneIdle
  <1>12. CountsHold'
    BY <1>1, <1>2, <1>5, <1>6, <1>10, Counted, NumbersHold DEF CountsHold
  <1>13. Hashing!TypeOK'
    BY <1>1, <1>4, <1>5, <1>6, NumbersHold, StandingHolds DEF Hashing!TypeOK
  <1> QED
    BY <1>7, <1>8, <1>9, <1>11, <1>12, <1>13 DEF SemInv

LEMMA SemStep == SemInv /\ [Hashing!Next]_Hashing!vars => SemInv'
  <1> SUFFICES ASSUME SemInv, [Hashing!Next]_Hashing!vars PROVE SemInv'
    OBVIOUS
  <1>1. CASE Hashing!Next
    BY <1>1, ArriveKeeps, FinishKeeps, DisconnectKeeps, ArriveGoneKeeps, ResumeKeeps, DrainKeeps
       DEF Hashing!Next
  <1>2. CASE UNCHANGED Hashing!vars
    BY <1>2 DEF Hashing!vars, SemInv, Hashing!TypeOK, Queues, Promises, OneGrant, NoneIdle, CountsHold,
       Promised,
       Hashing!Running, Withdrawn, Leaving
  <1> QED
    BY <1>1, <1>2

(***************************************************************************)
(* The theorems.                                                           *)
(***************************************************************************)

\* Argon2Semaphore: the inductive invariant.  A slot is counted as taken, or promised to one
\* waiter whose microtask is queued; a waiter is in the queue or has its microtask queued.
THEOREM SemInvariant == Hashing!Spec => []SemInv
  BY SemStarts, SemStep, PTL DEF Hashing!Spec

\* Argon2Semaphore: inFlight, the depth of the queue and the count of aborts stay in their
\* types.
THEOREM SemTyped == Hashing!Spec => []Hashing!TypeOK
  <1>1. SemInv => Hashing!TypeOK
    BY DEF SemInv
  <1> QED
    BY <1>1, SemInvariant, PTL

\* What the invariant says once the microtasks have run.
LEMMA SlotsFollow == SemInv => Hashing!SlotsSound
  <1> SUFFICES ASSUME SemInv PROVE Hashing!SlotsSound
    OBVIOUS
  <1>1. Cardinality(Hashing!Running) <= Cap /\ sInFlight = Cardinality(Hashing!Running)
    BY Counted, NumbersHold, StandingHolds
  <1>2. ASSUME Hashing!Quiet
        PROVE  (sWaiters # <<>> => sInFlight = Cap) /\ sQueueDepth = Len(sWaiters) /\ sAbortCount = sThrown
    <2>1. Cardinality(Withdrawn) = 0
      BY <1>2, QuietHolds, FS_EmptySet
    <2>2. Promised = 0 /\ Len(sMicro) = 0
      BY <1>2, QuietHolds
    <2>3. sWaiters # <<>> => sInFlight = Cap
      BY <2>2, Counted, NumbersHold, StandingHolds
    <2>4. sQueueDepth = Len(sWaiters) /\ sAbortCount = sThrown
      BY <2>1, <2>2, Counted, NumbersHold
    <2> QED
      BY <2>3, <2>4
  <1> QED
    BY <1>1, <1>2, SlotCardinality DEF Hashing!SlotsSound

\* Argon2Semaphore (runWithArgon2Slot, drainArgon2Queue): at most Cap operations run and
\* inFlight counts them; once the microtasks have run callers wait only while every slot is
\* taken, and the depth of the queue and the count of aborts are right.
THEOREM SlotsHold == Hashing!Spec => []SlotsSound
  BY SlotsFollow, SemInvariant, PTL DEF SlotsSound

(***************************************************************************)
(* The round trip to ORCID.                                                *)
(***************************************************************************)

\* Where a callback is once ORCID has exchanged its code.
Beyond == {"handle", "mint", "bind", "record"}

\* A flow that has a callback, or has let one through, was begun; a mode that needs an
\* account has one; and a callback has a code that ORCID gave.
Flows ==
  /\ \A f \in Flow : oFlow[f] # None => (oFlow[f].mode \in OAuth!Authenticated <=> oFlow[f].user # None)
  /\ \A f \in Flow, t \in Try : oCb[f][t].pc # "idle" =>
       oFlow[f] # None /\ oCb[f][t].code \in Code /\ oCode[oCb[f][t].code] # None

\* A flow that has let a callback through has no state left, and whatever comes later ends
\* at once.
Served ==
  /\ \A f \in oPassed : oFlow[f] # None /\ oState[f] = None
  /\ \A f \in Flow, t \in Try :
       /\ oCb[f][t].pc = "found" => oState[f] \in {None, oCb[f][t].tier}
       /\ oCb[f][t].late => oCb[f][t].pc = "done" /\ oCb[f][t].orcid = None

\* A code is exchanged for one callback, and spent by that.
Holders ==
  \A f \in Flow, t \in Try :
    /\ oCb[f][t].pc \in Beyond => oCb[f][t].orcid # None
    /\ oCb[f][t].orcid # None =>
         /\ oCb[f][t].pc \in Beyond \cup {"done"} /\ oCode[oCb[f][t].code] = "spent"
         /\ \A g \in Flow, s \in Try :
              oCb[g][s].orcid # None /\ oCb[g][s].code = oCb[f][t].code => g = f /\ s = t

\* Behind the state a callback is the initiator's.
Callers ==
  \A f \in Flow, t \in Try :
    oCb[f][t].pc \in Beyond \cup {"exchange"} /\ oFlow[f].mode \in OAuth!Authenticated
      => oCb[f][t].by = oFlow[f].user

\* A binding is recorded for an ORCID the account has proved.
Bindings ==
  \A f \in Flow, t \in Try :
    /\ oCb[f][t].pc \in {"bind", "record"} => oFlow[f].mode \in OAuth!Binds
    /\ oCb[f][t].pc = "record" => oCb[f][t].orcid \in oProven[oFlow[f].user]

\* An outcome is that of a callback which is done and had its code exchanged.
Outcomes ==
  /\ \A o \in oOut : /\ oCb[o.flow][o.try].pc = "done" /\ oCb[o.flow][o.try].orcid # None
                     /\ oFlow[o.flow].mode \in OAuth!Authenticated => o.by = oFlow[o.flow].user
  /\ \A o, p \in oOut : o.flow = p.flow /\ o.try = p.try => o = p

\* The code c was exchanged, for the ORCID o.
Gave(c, o) == \E f \in Flow, t \in Try : oCb[f][t].code = c /\ oCb[f][t].orcid = o

\* A nonce, and a signup that has taken one, go back to a code that was exchanged, and the
\* row of a signup has the ORCID of that code.
Verifications ==
  /\ \A c \in Code : oNonce[c] # None => \E o \in Orcid : Gave(c, o)
  /\ \A s \in Signer : oSigner[s].pc # "idle" =>
       oSigner[s].code \in Code /\ \E o \in Orcid : Gave(oSigner[s].code, o)
  /\ \A s \in Signer : oSigner[s].row # None =>
       oSigner[s].code \in Code /\ Gave(oSigner[s].code, oSigner[s].row)

OAuthInv ==
  OAuth!TypeOK /\ Flows /\ Served /\ Holders /\ Callers /\ Bindings /\ Outcomes /\ Verifications
  /\ OAuth!RowsProven /\ OAuth!OneSignup

(***************************************************************************)
(* Callbacks.                                                              *)
(***************************************************************************)

Stages == {"idle", "found", "exchange", "handle", "mint", "bind", "record", "done"}

\* The counters and the sets of an invariant state.
LEMMA TripTypesHold ==
    ASSUME OAuthInv
    PROVE  /\ oFlow \in [Flow -> OAuth!Begun \cup {None}]
           /\ oState \in [Flow -> OAuth!Tiers \cup {None}]
           /\ oCode \in [Code -> OAuth!Used \cup {None}]
           /\ oCb \in [Flow -> [Try -> OAuth!Callback]] /\ oRows \in [Account -> OAuth!Row \cup {None}]
           /\ oMail \in [Account -> SUBSET {"add", "reissue"}]
           /\ oChain \in [Account -> Orcid \cup {None, "accredited"}]
           /\ oNonce \in [Code -> OAuth!Tiers \cup {None}] /\ oSigner \in [Signer -> OAuth!Signing]
           /\ oRedisUp \in BOOLEAN /\ oFaults \in 0..MaxTripFaults /\ OAuth!Tier \in OAuth!Tiers
           /\ oOut \subseteq OAuth!Outcome /\ oProven \in [Account -> SUBSET Orcid]
           /\ oCrossed \subseteq Account /\ oPassed \subseteq Flow
  BY DEF OAuthInv, OAuth!TypeOK, OAuth!Tier, OAuth!Tiers

LEMMA NoneHolds ==
    /\ None \notin Account /\ None \notin Orcid /\ None \notin OAuth!Tiers /\ None \notin OAuth!Begun
    /\ None \notin OAuth!Row /\ None \notin OAuth!Used /\ None \notin Code /\ "spent" \notin Orcid
  <1>1. OAuth!OAuthAssumption
    BY PartsAssumption
  <1>2. "spent" \notin Orcid /\ None \notin Account \cup OAuth!Used \cup Code
        /\ None \notin OAuth!Tiers \cup OAuth!Begun \cup OAuth!Row
    BY <1>1 DEF OAuth!OAuthAssumption
  <1>3. Orcid \subseteq OAuth!Used
    BY DEF OAuth!Used
  <1> QED
    BY <1>2, <1>3

LEMMA TripFaultHolds ==
    ASSUME OAuthInv, OAuth!Fault \/ UNCHANGED oFaults
    PROVE  oFaults' \in 0..MaxTripFaults
  BY PartsAssumption, TripTypesHold DEF OAuth!Fault, OAuth!OAuthAssumption

LEMMA TripHolds ==
    ASSUME OAuthInv, NEW f \in Flow
    PROVE  /\ oFlow[f] \in OAuth!Begun \cup {None}
           /\ oFlow[f] # None => oFlow[f].mode \in Mode /\ oFlow[f].user \in Account \cup {None}
           /\ oFlow[f] # None /\ oFlow[f].mode \in OAuth!Authenticated => oFlow[f].user \in Account
  <1>1. oFlow[f] \in OAuth!Begun \cup {None}
    BY TripTypesHold
  <1>2. oFlow[f] # None => oFlow[f].mode \in Mode /\ oFlow[f].user \in Account \cup {None}
    BY <1>1 DEF OAuth!Begun
  <1>3. oFlow[f] # None /\ oFlow[f].mode \in OAuth!Authenticated => oFlow[f].user # None
    BY DEF OAuthInv, Flows
  <1> QED
    BY <1>1, <1>2, <1>3

LEMMA CallbackHolds ==
    ASSUME OAuthInv, NEW f \in Flow, NEW t \in Try
    PROVE  /\ oCb[f][t] \in OAuth!Callback /\ oCb[f][t].pc \in Stages
           /\ oCb[f][t].by \in Account \cup {None} /\ oCb[f][t].tier \in OAuth!Tiers \cup {None}
           /\ oCb[f][t].orcid \in Orcid \cup {None} /\ oCb[f][t].code \in Code \cup {None}
  <1>1. oCb[f][t] \in OAuth!Callback
    BY TripTypesHold
  <1> QED
    BY <1>1 DEF OAuth!Callback, Stages

\* A callback moves on.
LEMMA GotoHolds ==
    ASSUME OAuthInv, NEW f \in Flow, NEW t \in Try, NEW p \in Stages, OAuth!Goto(f, t, p)
    PROVE  /\ oCb' \in [Flow -> [Try -> OAuth!Callback]]
           /\ oCb'[f][t].pc = p /\ oCb'[f][t].by = oCb[f][t].by /\ oCb'[f][t].orcid = oCb[f][t].orcid
           /\ oCb'[f][t].code = oCb[f][t].code /\ oCb'[f][t].tier = oCb[f][t].tier
           /\ oCb'[f][t].late = oCb[f][t].late
           /\ \A g \in Flow, s \in Try : g # f \/ s # t => oCb'[g][s] = oCb[g][s]
  <1>1. oCb \in [Flow -> [Try -> OAuth!Callback]]
    BY TripTypesHold
  <1> DEFINE v == [oCb[f][t] EXCEPT !.pc = p]
  <1>2. /\ v \in OAuth!Callback /\ v.pc = p /\ v.by = oCb[f][t].by /\ v.orcid = oCb[f][t].orcid
        /\ v.code = oCb[f][t].code /\ v.tier = oCb[f][t].tier /\ v.late = oCb[f][t].late
    BY CallbackHolds DEF OAuth!Callback, Stages
  <1>3. oCb' = [oCb EXCEPT ![f][t] = v]
    BY <1>1 DEF OAuth!Goto
  <1> HIDE DEF v
  <1>4. oCb' \in [Flow -> [Try -> OAuth!Callback]] /\ oCb'[f][t] = v
    BY <1>1, <1>2, <1>3
  <1>5. \A g \in Flow, s \in Try : g # f \/ s # t => oCb'[g][s] = oCb[g][s]
    BY <1>1, <1>3
  <1> QED
    BY <1>2, <1>4, <1>5

\* A callback that was served moves on, or ends.
LEMMA Proceeds ==
    ASSUME OAuthInv, NEW f \in Flow, NEW t \in Try, NEW p \in Beyond \cup {"exchange", "done"},
           OAuth!Goto(f, t, p), oCb[f][t].pc \in Beyond \cup {"found", "exchange"},
           p \in Beyond => oCb[f][t].pc \in Beyond, p = "exchange" => oCb[f][t].pc = "found",
           p \in Beyond \cup {"exchange"} /\ oFlow[f].mode \in OAuth!Authenticated
             => oCb[f][t].by = oFlow[f].user,
           p \in {"bind", "record"} => oFlow[f].mode \in OAuth!Binds,
           p = "record" => oCb[f][t].orcid \in oProven'[oFlow[f].user],
           \A u \in Account : oProven[u] \subseteq oProven'[u],
           oFlow' = oFlow, \A c \in Code : oCode'[c] \in {oCode[c], "spent"},
           \A g \in Flow : oState'[g] \in {oState[g], None},
           \A g \in oPassed' : g \in oPassed \/ (g = f /\ oState'[g] = None)
    PROVE  /\ oCb' \in [Flow -> [Try -> OAuth!Callback]]
           /\ Flows' /\ Served' /\ Holders' /\ Callers' /\ Bindings'
  <1>0. p \in Stages
    BY DEF Beyond, Stages
  <1>1. /\ oCb' \in [Flow -> [Try -> OAuth!Callback]]
        /\ oCb'[f][t].pc = p /\ oCb'[f][t].by = oCb[f][t].by /\ oCb'[f][t].orcid = oCb[f][t].orcid
        /\ oCb'[f][t].code = oCb[f][t].code /\ oCb'[f][t].tier = oCb[f][t].tier
        /\ oCb'[f][t].late = oCb[f][t].late
        /\ \A g \in Flow, s \in Try : g # f \/ s # t => oCb'[g][s] = oCb[g][s]
    BY <1>0, GotoHolds
  <1>2. /\ oCb[f][t].pc # "idle" /\ oCb[f][t].pc # "done" /\ p # "idle" /\ p # "found"
        /\ oFlow[f] # None
    BY DEF Beyond, OAuthInv, Flows
  <1>3. \A g \in Flow, s \in Try :
          /\ oCb'[g][s].code = oCb[g][s].code /\ oCb'[g][s].orcid = oCb[g][s].orcid
          /\ oCb'[g][s].tier = oCb[g][s].tier /\ oCb'[g][s].late = oCb[g][s].late
    BY <1>1
  <1>4. Flows'
    <2>1. ASSUME NEW g \in Flow, NEW s \in Try, oCb'[g][s].pc # "idle"
          PROVE  oFlow[g] # None /\ oCb[g][s].code \in Code /\ oCode'[oCb[g][s].code] # None
      <3>1. oCb[g][s].pc # "idle"
        BY <1>1, <1>2, <2>1
      <3>2. oFlow[g] # None /\ oCb[g][s].code \in Code /\ oCode[oCb[g][s].code] # None
        BY <3>1 DEF OAuthInv, Flows
      <3> QED
        BY <3>2, NoneHolds DEF OAuth!Used
    <2>2. \A g \in Flow : oFlow[g] # None => (oFlow[g].mode \in OAuth!Authenticated <=> oFlow[g].user # None)
      BY DEF OAuthInv, Flows
    <2> QED
      BY <1>3, <2>1, <2>2 DEF Flows
  <1>5. Served'
    <2>1. \A g \in oPassed' : oFlow[g] # None /\ oState'[g] = None
      BY <1>2, TripTypesHold DEF OAuthInv, Served
    <2>2. ASSUME NEW g \in Flow, NEW s \in Try
          PROVE  /\ oCb'[g][s].pc = "found" => oState'[g] \in {None, oCb'[g][s].tier}
                 /\ oCb'[g][s].late => oCb'[g][s].pc = "done" /\ oCb'[g][s].orcid = None
      <3>1. /\ oCb[g][s].pc = "found" => oState[g] \in {None, oCb[g][s].tier}
            /\ oCb[g][s].late => oCb[g][s].pc = "done" /\ oCb[g][s].orcid = None
        BY DEF OAuthInv, Served
      <3>2. oCb'[g][s].pc = "found" => oCb[g][s].pc = "found"
        BY <1>1, <1>2
      <3>3. oCb'[g][s].late => g # f \/ s # t
        BY <1>2, <1>3, <3>1
      <3> QED
        BY <1>1, <1>3, <3>1, <3>2, <3>3
    <2> QED
      BY <2>1, <2>2 DEF Served
  <1>6. ASSUME NEW g \in Flow, NEW s \in Try
        PROVE  /\ oCb'[g][s].pc \in Beyond => oCb[g][s].orcid # None
               /\ oCb[g][s].orcid # None =>
                    /\ oCb'[g][s].pc \in Beyond \cup {"done"} /\ oCode'[oCb[g][s].code] = "spent"
                    /\ \A h \in Flow, r \in Try :
                         oCb[h][r].orcid # None /\ oCb[h][r].code = oCb[g][s].code => h = g /\ r = s
    <2>1. /\ oCb[g][s].pc \in Beyond => oCb[g][s].orcid # None
          /\ oCb[g][s].orcid # None =>
               /\ oCb[g][s].pc \in Beyond \cup {"done"} /\ oCode[oCb[g][s].code] = "spent"
               /\ \A h \in Flow, r \in Try :
                    oCb[h][r].orcid # None /\ oCb[h][r].code = oCb[g][s].code => h = g /\ r = s
      BY DEF OAuthInv, Holders
    <2>2. oCb'[g][s].pc \in Beyond => oCb[g][s].pc \in Beyond
      BY <1>1
    <2>3. oCb[g][s].pc \in Beyond \cup {"done"} => oCb'[g][s].pc \in Beyond \cup {"done"}
      BY <1>1 DEF Beyond
    <2>4. oCb[g][s].orcid # None => oCb[g][s].code \in Code
      <3>1. oCb[g][s].orcid # None => oCb[g][s].pc # "idle"
        BY <2>1 DEF Beyond
      <3> QED
        BY <3>1 DEF OAuthInv, Flows
    <2>5. oCb[g][s].orcid # None => oCode'[oCb[g][s].code] = "spent"
      BY <2>1, <2>4
    <2> QED
      BY <2>1, <2>2, <2>3, <2>5
  <1>7. Holders'
    BY <1>3, <1>6 DEF Holders
  <1>8. Callers'
    BY <1>1 DEF OAuthInv, Callers
  <1>9. ASSUME NEW g \in Flow, NEW s \in Try
        PROVE  /\ oCb'[g][s].pc \in {"bind", "record"} => oFlow[g].mode \in OAuth!Binds
               /\ oCb'[g][s].pc = "record" => oCb'[g][s].orcid \in oProven'[oFlow[g].user]
    <2>1. CASE g = f /\ s = t
      BY <1>1, <2>1
    <2>2. CASE ~(g = f /\ s = t)
      <3>1. oCb'[g][s] = oCb[g][s]
        BY <1>1, <2>2
      <3>2. oCb[g][s].pc \in {"bind", "record"} => oFlow[g].mode \in OAuth!Binds
        BY DEF OAuthInv, Bindings
      <3>3. oCb[g][s].pc = "record" => oCb[g][s].orcid \in oProven[oFlow[g].user]
        BY DEF OAuthInv, Bindings
      <3>4. oCb[g][s].pc = "record" => oFlow[g].user \in Account
        <4>1. oCb[g][s].pc = "record" => oFlow[g] # None
          BY DEF OAuthInv, Flows
        <4> QED
          BY <3>2, <4>1, TripHolds DEF OAuth!Binds, OAuth!Authenticated
      <3> QED
        BY <3>1, <3>2, <3>3, <3>4
    <2> QED
      BY <2>1, <2>2
  <1>10. Bindings'
    BY <1>9 DEF Bindings
  <1> QED
    BY <1>1, <1>4, <1>5, <1>7, <1>8, <1>10

\* What has been given, and what goes back to an exchanged code, stays when no callback that
\* is done moves and none loses its ORCID.
LEMMA GivenKept ==
    ASSUME OAuthInv, oFlow' = oFlow, oOut' = oOut, oNonce' = oNonce, oSigner' = oSigner,
           \A g \in Flow, s \in Try : oCb[g][s].pc = "done" => oCb'[g][s] = oCb[g][s],
           \A g \in Flow, s \in Try : oCb[g][s].orcid # None =>
             oCb'[g][s].code = oCb[g][s].code /\ oCb'[g][s].orcid = oCb[g][s].orcid
    PROVE  Outcomes' /\ Verifications' /\ OAuth!OneSignup'
  <1>1. \A o \in oOut : o.flow \in Flow /\ o.try \in Try
    BY TripTypesHold DEF OAuth!Outcome
  <1>2. Outcomes'
    BY <1>1 DEF OAuthInv, Outcomes
  <1>3. ASSUME NEW c, NEW o \in Orcid, Gave(c, o)
        PROVE  Gave(c, o)'
    BY <1>3, NoneHolds DEF Gave
  <1>4. \A s \in Signer : oSigner[s].row # None => oSigner[s].row \in Orcid
    BY TripTypesHold DEF OAuth!Signing
  <1>5. Verifications'
    BY <1>3, <1>4 DEF OAuthInv, Verifications
  <1> QED
    BY <1>2, <1>5 DEF OAuthInv, OAuth!OneSignup

\* A callback comes to its outcome.
LEMMA Answers ==
    ASSUME OAuthInv, NEW f \in Flow, NEW t \in Try, oCb[f][t].pc \in Beyond, OAuth!EndTry(f, t),
           NEW by \in Account \cup {None}, OAuth!Given(f, t, by),
           oFlow[f].mode \in OAuth!Authenticated => by = oFlow[f].user,
           oFlow' = oFlow, oCode' = oCode, oProven' = oProven, oState' = oState, oPassed' = oPassed
    PROVE  /\ oCb' \in [Flow -> [Try -> OAuth!Callback]] /\ oOut' \subseteq OAuth!Outcome
           /\ Flows' /\ Served' /\ Holders' /\ Callers' /\ Bindings' /\ Outcomes'
           /\ \A c, o : Gave(c, o) => Gave(c, o)'
           /\ oCb[f][t].code \in Code /\ oCb'[f][t].code = oCb[f][t].code
           /\ \E o \in Orcid : Gave(oCb[f][t].code, o)'
  <1> DEFINE e == [flow |-> f, try |-> t, by |-> by]
  <1>1. /\ oCb' \in [Flow -> [Try -> OAuth!Callback]] /\ oCb'[f][t].pc = "done"
        /\ oCb'[f][t].code = oCb[f][t].code /\ oCb'[f][t].orcid = oCb[f][t].orcid
        /\ \A g \in Flow, s \in Try : g # f \/ s # t => oCb'[g][s] = oCb[g][s]
    BY GotoHolds DEF OAuth!EndTry, Stages
  <1>2. Flows' /\ Served' /\ Holders' /\ Callers' /\ Bindings'
    <2>1. "done" \notin Beyond
      BY DEF Beyond
    <2> QED
      BY <2>1, Proceeds DEF OAuth!EndTry
  <1>3. /\ oCb[f][t].orcid \in Orcid /\ oCb[f][t].orcid # None /\ oCb[f][t].code \in Code
    <2>1. oCb[f][t].orcid # None /\ oCb[f][t].pc # "idle"
      BY DEF OAuthInv, Holders, Beyond
    <2>2. oCb[f][t].code \in Code
      BY <2>1 DEF OAuthInv, Flows
    <2> QED
      BY <2>1, <2>2, CallbackHolds
  <1>4. e \in OAuth!Outcome /\ e.flow = f /\ e.try = t /\ e.by = by
    BY DEF OAuth!Outcome
  <1>5. oOut' = oOut \cup {e}
    BY DEF OAuth!Given
  <1> HIDE DEF e
  <1>6. oOut' \subseteq OAuth!Outcome
    BY <1>4, <1>5, TripTypesHold
  <1>7. \A o \in oOut : o.flow \in Flow /\ o.try \in Try /\ (o.flow # f \/ o.try # t)
    <2>1. \A o \in oOut : o.flow \in Flow /\ o.try \in Try /\ oCb[o.flow][o.try].pc = "done"
      BY TripTypesHold DEF OAuth!Outcome, OAuthInv, Outcomes
    <2> QED
      BY <2>1 DEF Beyond
  <1>8. Outcomes'
    <2>1. ASSUME NEW o \in oOut'
          PROVE  /\ oCb'[o.flow][o.try].pc = "done" /\ oCb'[o.flow][o.try].orcid # None
                 /\ oFlow[o.flow].mode \in OAuth!Authenticated => o.by = oFlow[o.flow].user
      <3>1. CASE o = e
        BY <1>1, <1>3, <1>4, <3>1
      <3>2. CASE o \in oOut
        BY <1>1, <1>7, <3>2 DEF OAuthInv, Outcomes
      <3> QED
        BY <1>5, <3>1, <3>2
    <2>2. \A o, p \in oOut' : o.flow = p.flow /\ o.try = p.try => o = p
      BY <1>4, <1>5, <1>7 DEF OAuthInv, Outcomes
    <2> QED
      BY <2>1, <2>2 DEF Outcomes
  <1>9. \A g \in Flow, s \in Try : oCb'[g][s].code = oCb[g][s].code /\ oCb'[g][s].orcid = oCb[g][s].orcid
    BY <1>1
  <1>10. \A c, o : Gave(c, o) => Gave(c, o)'
    BY <1>9 DEF Gave
  <1>11. Gave(oCb[f][t].code, oCb[f][t].orcid)'
    BY <1>9 DEF Gave
  <1> QED
    BY <1>1, <1>2, <1>3, <1>6, <1>8, <1>10, <1>11

(***************************************************************************)
(* Initially.                                                              *)
(***************************************************************************)

LEMMA OAuthStarts == OAuth!Init => OAuthInv
  <1> SUFFICES ASSUME OAuth!Init PROVE OAuthInv
    OBVIOUS
  <1>1. /\ OAuth!IdleTry \in OAuth!Callback /\ OAuth!IdleTry.pc = "idle"
        /\ OAuth!IdleTry.orcid = None /\ OAuth!IdleTry.late = FALSE
    BY DEF OAuth!IdleTry, OAuth!Callback
  <1>2. /\ oCb \in [Flow -> [Try -> OAuth!Callback]]
        /\ \A f \in Flow, t \in Try :
             oCb[f][t].pc = "idle" /\ oCb[f][t].orcid = None /\ ~oCb[f][t].late
    BY <1>1 DEF OAuth!Init
  <1>3. oSigner \in [Signer -> OAuth!Signing]
    BY DEF OAuth!Init, OAuth!Signing
  <1>4. \A s \in Signer : oSigner[s].pc = "idle" /\ oSigner[s].row = None
    BY DEF OAuth!Init
  <1>5. oRows \in [Account -> OAuth!Row \cup {None}]
    BY DEF OAuth!Init, OAuth!Row
  <1>6. oChain \in [Account -> Orcid \cup {None, "accredited"}] /\ oProven \in [Account -> SUBSET Orcid]
    BY DEF OAuth!Init
  <1>7. oFaults \in 0..MaxTripFaults /\ oRedisUp \in BOOLEAN
    BY PartsAssumption DEF OAuth!Init, OAuth!OAuthAssumption
  <1>8. OAuth!TypeOK
    BY <1>2, <1>3, <1>5, <1>6, <1>7 DEF OAuth!Init, OAuth!TypeOK
  <1>9. Flows /\ Served /\ Holders /\ Callers /\ Bindings /\ Outcomes
    BY <1>2 DEF OAuth!Init, Flows, Served, Holders, Callers, Bindings, Outcomes, Beyond
  <1>10. Verifications /\ OAuth!OneSignup
    BY <1>4 DEF OAuth!Init, Verifications, OAuth!OneSignup
  <1>11. ASSUME NEW u \in Account, oRows[u] # None, oRows[u].orcid # None
         PROVE  oRows[u].verified /\ oRows[u].orcid \in oProven[u]
    <2>1. oRows[u] \in [orcid : Orcid \cup {None}, verified : {TRUE}]
      BY <1>11 DEF OAuth!Init
    <2>2. oRows[u].orcid = oChain[u] /\ oRows[u].orcid \in Orcid /\ oRows[u].verified
      BY <1>11, <2>1 DEF OAuth!Init
    <2> QED
      BY <2>2 DEF OAuth!Init
  <1>12. OAuth!RowsProven
    BY <1>11 DEF OAuth!RowsProven
  <1> QED
    BY <1>8, <1>9, <1>10, <1>12 DEF OAuthInv

(***************************************************************************)
(* The round trip.                                                         *)
(***************************************************************************)

LEMMA StartKeeps ==
    ASSUME OAuthInv, NEW f \in Flow, NEW mode \in Mode, NEW user \in Account \cup {None},
           OAuth!Start(f, mode, user)
    PROVE  OAuthInv'
  <1> DEFINE v == [mode |-> mode, user |-> user]
  <1>1. /\ oFlow[f] = None /\ (mode \in OAuth!Authenticated <=> user # None)
        /\ oFlow' = [oFlow EXCEPT ![f] = v] /\ oState' = [oState EXCEPT ![f] = OAuth!Tier]
        /\ UNCHANGED <<oCode, oCb, oPassed, OAuth!stored, oRedisUp, oFaults, oOut, oProven>>
    BY DEF OAuth!Start
  <1>2. v \in OAuth!Begun /\ v.mode = mode /\ v.user = user /\ v # None
    BY NoneHolds DEF OAuth!Begun
  <1> HIDE DEF v
  <1>3. /\ oFlow' \in [Flow -> OAuth!Begun \cup {None}] /\ oFlow'[f] = v
        /\ \A g \in Flow : g # f => oFlow'[g] = oFlow[g] /\ oState'[g] = oState[g]
        /\ oState' \in [Flow -> OAuth!Tiers \cup {None}]
    BY <1>1, <1>2, TripTypesHold
  <1>4. f \notin oPassed /\ \A t \in Try : oCb[f][t].pc = "idle"
    BY <1>1 DEF OAuthInv, Flows, Served
  <1>5. \A o \in oOut : o.flow # f /\ o.flow \in Flow
    <2>1. \A o \in oOut : o.flow \in Flow /\ o.try \in Try /\ oCb[o.flow][o.try].pc = "done"
      BY TripTypesHold DEF OAuth!Outcome, OAuthInv, Outcomes
    <2> QED
      BY <1>4, <2>1
  <1>6. OAuth!TypeOK'
    BY <1>1, <1>3, TripTypesHold DEF OAuth!TypeOK, OAuth!stored
  <1>7. Flows'
    BY <1>1, <1>2, <1>3 DEF OAuthInv, Flows
  <1>8. Served'
    BY <1>1, <1>3, <1>4, TripTypesHold DEF OAuthInv, Served
  <1>9. Verifications'
    BY <1>1 DEF OAuthInv, Verifications, Gave, OAuth!stored
  <1>10. Holders' /\ OAuth!RowsProven' /\ OAuth!OneSignup'
    BY <1>1 DEF OAuthInv, Holders, OAuth!RowsProven, OAuth!OneSignup, OAuth!stored
  <1>11. Callers' /\ Bindings'
    BY <1>1, <1>3, <1>4 DEF OAuthInv, Callers, Bindings, Beyond
  <1>12. Outcomes'
    BY <1>1, <1>3, <1>5 DEF OAuthInv, Outcomes
  <1> QED
    BY <1>6, <1>7, <1>8, <1>9, <1>10, <1>11, <1>12 DEF OAuthInv

LEMMA ConsentKeeps ==
    ASSUME OAuthInv, NEW c \in Code, NEW orcid \in Orcid, OAuth!Consent(c, orcid)
    PROVE  OAuthInv'
  <1>1. /\ oCode[c] = None /\ oCode' = [oCode EXCEPT ![c] = orcid]
        /\ UNCHANGED <<oFlow, oState, oPassed, oCb, OAuth!stored, oRedisUp, oFaults, oOut, oProven>>
    BY DEF OAuth!Consent
  <1>2. /\ oCode' \in [Code -> OAuth!Used \cup {None}]
        /\ \A d \in Code : oCode[d] # None => oCode'[d] = oCode[d]
    BY <1>1, TripTypesHold DEF OAuth!Used
  <1>3. OAuth!TypeOK'
    BY <1>1, <1>2, TripTypesHold DEF OAuth!TypeOK, OAuth!stored
  <1>4. Flows'
    BY <1>1, <1>2 DEF OAuthInv, Flows
  <1>5. Holders'
    <2>1. ASSUME NEW f \in Flow, NEW t \in Try, oCb[f][t].orcid # None
          PROVE  oCode'[oCb[f][t].code] = "spent"
      <3>1. oCode[oCb[f][t].code] = "spent" /\ oCb[f][t].pc # "idle"
        BY <2>1 DEF OAuthInv, Holders, Beyond
      <3>2. oCb[f][t].code \in Code /\ oCode[oCb[f][t].code] # None
        BY <3>1 DEF OAuthInv, Flows
      <3> QED
        BY <1>2, <3>1, <3>2
    <2> QED
      BY <1>1, <2>1 DEF OAuthInv, Holders
  <1>6. Verifications'
    BY <1>1 DEF OAuthInv, Verifications, Gave, OAuth!stored
  <1>7. Served' /\ Callers' /\ Bindings' /\ Outcomes' /\ OAuth!RowsProven' /\ OAuth!OneSignup'
    BY <1>1 DEF OAuthInv, Served, Callers, Bindings, Outcomes, OAuth!RowsProven, OAuth!OneSignup,
       OAuth!stored
  <1> QED
    BY <1>3, <1>4, <1>5, <1>6, <1>7 DEF OAuthInv

LEMMA PresentKeeps ==
    ASSUME OAuthInv, NEW f \in Flow, NEW t \in Try, NEW by \in Account \cup {None}, NEW c \in Code,
           OAuth!Present(f, t, by, c)
    PROVE  OAuthInv'
  <1> DEFINE v == [pc |-> IF oState[f] = OAuth!Tier THEN "found" ELSE "done", code |-> c,
                   by |-> by, tier |-> OAuth!Tier, orcid |-> None, late |-> f \in oPassed]
  <1>1. /\ oCb[f][t].pc = "idle" /\ oFlow[f] # None /\ oCode[c] # None
        /\ oCb' = [oCb EXCEPT ![f][t] = v]
        /\ UNCHANGED <<oFlow, oState, oCode, oPassed, OAuth!stored, oRedisUp, oFaults, oOut, oProven>>
    BY DEF OAuth!Present, OAuth!At
  <1>2. v \in OAuth!Callback /\ v.pc \in {"found", "done"} /\ v.code = c /\ v.orcid = None
    BY TripTypesHold DEF OAuth!Callback
  <1>3. v.pc = "found" => oState[f] = v.tier
    OBVIOUS
  <1>4. v.late => v.pc = "done"
    <2>1. f \in oPassed => oState[f] # OAuth!Tier
      BY TripTypesHold, NoneHolds DEF OAuthInv, Served
    <2> QED
      BY <2>1
  <1> HIDE DEF v
  <1>5. /\ oCb' \in [Flow -> [Try -> OAuth!Callback]] /\ oCb'[f][t] = v
        /\ \A g \in Flow, s \in Try : g # f \/ s # t => oCb'[g][s] = oCb[g][s]
    BY <1>1, <1>2, TripTypesHold
  <1>6. oCb[f][t].orcid = None
    BY <1>1 DEF OAuthInv, Holders, Beyond
  <1>7. OAuth!TypeOK'
    BY <1>1, <1>5, TripTypesHold DEF OAuth!TypeOK, OAuth!stored
  <1>8. Flows'
    BY <1>1, <1>2, <1>5 DEF OAuthInv, Flows
  <1>9. Served'
    BY <1>1, <1>2, <1>3, <1>4, <1>5 DEF OAuthInv, Served
  <1>10. \A g \in Flow, s \in Try :
           oCb'[g][s].pc \in Beyond \cup {"exchange"} \/ oCb'[g][s].orcid # None => oCb'[g][s] = oCb[g][s]
    BY <1>2, <1>5 DEF Beyond
  <1>11. Holders'
    BY <1>1, <1>10 DEF OAuthInv, Holders
  <1>12. Callers' /\ Bindings'
    BY <1>1, <1>10 DEF OAuthInv, Callers, Bindings, Beyond
  <1>13. \A g \in Flow, s \in Try :
           /\ oCb[g][s].pc = "done" => oCb'[g][s] = oCb[g][s]
           /\ oCb[g][s].orcid # None =>
                oCb'[g][s].code = oCb[g][s].code /\ oCb'[g][s].orcid = oCb[g][s].orcid
    BY <1>1, <1>5, <1>6
  <1>14. Outcomes' /\ Verifications' /\ OAuth!OneSignup'
    BY <1>1, <1>13, GivenKept DEF OAuth!stored
  <1>15. OAuth!RowsProven'
    BY <1>1 DEF OAuthInv, OAuth!RowsProven, OAuth!stored
  <1> QED
    BY <1>7, <1>8, <1>9, <1>11, <1>12, <1>14, <1>15 DEF OAuthInv

\* A callback that moves on has nothing to keep of its own.
LEMMA NoneLost ==
    ASSUME OAuthInv, NEW f \in Flow, NEW t \in Try, NEW p \in Stages, OAuth!Goto(f, t, p),
           oCb[f][t].pc # "done"
    PROVE  \A g \in Flow, s \in Try :
             /\ oCb[g][s].pc = "done" => oCb'[g][s] = oCb[g][s]
             /\ oCb'[g][s].code = oCb[g][s].code /\ oCb'[g][s].orcid = oCb[g][s].orcid
  BY GotoHolds

LEMMA ConsumeKeeps ==
    ASSUME OAuthInv, NEW f \in Flow, NEW t \in Try, OAuth!Consume(f, t)
    PROVE  OAuthInv'
  <1>1. /\ oCb[f][t].pc = "found" /\ UNCHANGED <<oFlow, oCode, OAuth!stored, oRedisUp, oOut, oProven>>
        /\ OAuth!Fault \/ UNCHANGED oFaults
        /\ oState' \in {oState, [oState EXCEPT ![f] = IF @ = oCb[f][t].tier THEN None ELSE @]}
        /\ \/ OAuth!EndTry(f, t) /\ oPassed' = oPassed
           \/ /\ OAuth!Goto(f, t, "exchange") /\ OAuth!Admitted(f, oCb[f][t].by)
              /\ oState' = [oState EXCEPT ![f] = IF @ = oCb[f][t].tier THEN None ELSE @]
              /\ oPassed' = oPassed \cup {f}
    BY DEF OAuth!Consume, OAuth!At
  <1>2. oState[f] \in {None, oCb[f][t].tier}
    BY <1>1 DEF OAuthInv, Served
  <1>3. /\ oState' \in [Flow -> OAuth!Tiers \cup {None}]
        /\ \A g \in Flow : oState'[g] \in {oState[g], None}
        /\ oState' = [oState EXCEPT ![f] = IF @ = oCb[f][t].tier THEN None ELSE @] => oState'[f] = None
    BY <1>1, <1>2, TripTypesHold
  <1>4. PICK p \in {"exchange", "done"} :
          OAuth!Goto(f, t, p) /\ (p = "exchange" => OAuth!Admitted(f, oCb[f][t].by))
    BY <1>1 DEF OAuth!EndTry
  <1>5. /\ oPassed' \subseteq Flow
        /\ \A g \in oPassed' : g \in oPassed \/ (g = f /\ oState'[g] = None)
    BY <1>1, <1>3, TripTypesHold
  <1>6. p \notin Beyond /\ p \in Stages /\ p # "record" /\ p \in Beyond \cup {"exchange", "done"}
    BY DEF Stages, Beyond
  <1>7. /\ oCb' \in [Flow -> [Try -> OAuth!Callback]]
        /\ Flows' /\ Served' /\ Holders' /\ Callers' /\ Bindings'
    <2>1. p \in Beyond \cup {"exchange"}
            /\ oFlow[f].mode \in OAuth!Authenticated => oCb[f][t].by = oFlow[f].user
      BY <1>4, <1>6 DEF OAuth!Admitted
    <2>2. p \notin {"bind", "record"} /\ oCb[f][t].pc \in Beyond \cup {"found", "exchange"}
      BY <1>1
    <2>3. \A c \in Code : oCode'[c] \in {oCode[c], "spent"}
      BY <1>1
    <2>4. oFlow' = oFlow /\ \A u \in Account : oProven[u] \subseteq oProven'[u]
      BY <1>1
    <2> QED
      BY <1>1, <1>3, <1>4, <1>5, <1>6, <2>1, <2>2, <2>3, <2>4, Proceeds
  <1>8. Outcomes' /\ Verifications' /\ OAuth!OneSignup'
    <2>1. oCb[f][t].pc # "done"
      BY <1>1
    <2> QED
      BY <1>1, <1>4, <1>6, <2>1, NoneLost, GivenKept DEF OAuth!stored
  <1>9. OAuth!TypeOK'
    BY <1>1, <1>3, <1>5, <1>7, TripFaultHolds, TripTypesHold DEF OAuth!TypeOK, OAuth!stored
  <1>10. OAuth!RowsProven'
    BY <1>1 DEF OAuthInv, OAuth!RowsProven, OAuth!stored
  <1> QED
    BY <1>7, <1>8, <1>9, <1>10 DEF OAuthInv

LEMMA ExchangeKeeps ==
    ASSUME OAuthInv, NEW f \in Flow, NEW t \in Try, OAuth!Exchange(f, t)
    PROVE  OAuthInv'
  <1> DEFINE c == oCb[f][t].code
  <1>1. /\ oCb[f][t].pc = "exchange"
        /\ UNCHANGED <<oFlow, oState, oPassed, OAuth!stored, oRedisUp, oOut, oProven>>
        /\ \/ /\ oCode[c] \in Orcid /\ oCode' = [oCode EXCEPT ![c] = "spent"]
              /\ oCb' = [oCb EXCEPT ![f][t].pc = "handle", ![f][t].orcid = oCode[c]]
              /\ UNCHANGED oFaults
           \/ /\ OAuth!EndTry(f, t) /\ (OAuth!Fault \/ UNCHANGED oFaults)
              /\ oCode' \in {oCode, [oCode EXCEPT ![c] = "spent"]}
    BY DEF OAuth!Exchange, OAuth!At
  <1>2. c \in Code /\ oCode[c] # None /\ oFlow[f] # None /\ oCb[f][t].orcid = None /\ ~oCb[f][t].late
    BY <1>1, CallbackHolds DEF OAuthInv, Flows, Holders, Served, Beyond
  <1>3. OAuth!RowsProven'
    BY <1>1 DEF OAuthInv, OAuth!RowsProven, OAuth!stored
  <1>4. oCode' \in [Code -> OAuth!Used \cup {None}] /\ \A d \in Code : oCode'[d] \in {oCode[d], "spent"}
    <2>1. "spent" \in OAuth!Used
      BY DEF OAuth!Used
    <2> QED
      BY <1>1, <1>2, <2>1, TripTypesHold
  <1>5. CASE /\ oCode[c] \in Orcid /\ oCode' = [oCode EXCEPT ![c] = "spent"]
             /\ oCb' = [oCb EXCEPT ![f][t].pc = "handle", ![f][t].orcid = oCode[c]]
             /\ UNCHANGED oFaults
    <2> DEFINE v == [oCb[f][t] EXCEPT !.pc = "handle", !.orcid = oCode[c]]
    <2>1. /\ v \in OAuth!Callback /\ v.pc = "handle" /\ v.orcid = oCode[c] /\ v.by = oCb[f][t].by
          /\ v.code = c /\ v.late = oCb[f][t].late /\ v.tier = oCb[f][t].tier
      BY <1>5, CallbackHolds DEF OAuth!Callback
    <2>2. oCb' = [oCb EXCEPT ![f][t] = v]
      BY <1>5, TripTypesHold
    <2> HIDE DEF v
    <2>3. /\ oCb' \in [Flow -> [Try -> OAuth!Callback]] /\ oCb'[f][t] = v
          /\ \A g \in Flow, s \in Try : g # f \/ s # t => oCb'[g][s] = oCb[g][s]
      BY <2>1, <2>2, TripTypesHold
    <2>4. oCode'[c] = "spent" /\ oCode[c] # "spent" /\ oCode[c] # None
      BY <1>2, <1>5, NoneHolds, TripTypesHold
    <2>5. \A g \in Flow, s \in Try : oCb[g][s].orcid # None => oCb[g][s].code # c
      BY <2>4 DEF OAuthInv, Holders
    <2>6. Flows'
      <3>1. \A d \in Code : oCode[d] # None => oCode'[d] # None
        BY <1>4, NoneHolds DEF OAuth!Used
      <3>2. \A g \in Flow, s \in Try :
              oCb'[g][s].pc # "idle" => oCb[g][s].pc # "idle" /\ oCb'[g][s].code = oCb[g][s].code
        BY <1>1, <2>1, <2>3
      <3>3. /\ \A g \in Flow : oFlow[g] # None => (oFlow[g].mode \in OAuth!Authenticated <=> oFlow[g].user # None)
            /\ \A g \in Flow, s \in Try :
                 oCb[g][s].pc # "idle" => oFlow[g] # None /\ oCb[g][s].code \in Code /\ oCode[oCb[g][s].code] # None
        BY DEF OAuthInv, Flows
      <3>4. oFlow' = oFlow
        BY <1>1
      <3> QED
        BY <3>1, <3>2, <3>3, <3>4 DEF Flows
    <2>7. Served'
      <3>1. ~v.late
        BY <1>2, <2>1, Zenon
      <3>2. \A g \in Flow, s \in Try :
              (oCb'[g][s].pc = "found" \/ oCb'[g][s].late) => oCb'[g][s] = oCb[g][s]
        BY <2>1, <2>3, <3>1
      <3> QED
        BY <1>1, <3>2 DEF OAuthInv, Served
    <2>8. ASSUME NEW g \in Flow, NEW s \in Try
          PROVE  /\ oCb'[g][s].pc \in Beyond => oCb'[g][s].orcid # None
                 /\ oCb'[g][s].orcid # None =>
                      /\ oCb'[g][s].pc \in Beyond \cup {"done"} /\ oCode'[oCb'[g][s].code] = "spent"
                      /\ \A h \in Flow, r \in Try :
                           oCb'[h][r].orcid # None /\ oCb'[h][r].code = oCb'[g][s].code => h = g /\ r = s
      <3>1. CASE g = f /\ s = t
        <4>1. \A h \in Flow, r \in Try :
                oCb'[h][r].orcid # None /\ oCb'[h][r].code = c => h = f /\ r = t
          BY <2>3, <2>5
        <4> QED
          BY <2>1, <2>3, <2>4, <3>1, <4>1 DEF Beyond
      <3>2. CASE ~(g = f /\ s = t)
        <4>1. oCb'[g][s] = oCb[g][s]
          BY <2>3, <3>2
        <4>2. /\ oCb[g][s].pc \in Beyond => oCb[g][s].orcid # None
              /\ oCb[g][s].orcid # None =>
                   /\ oCb[g][s].pc \in Beyond \cup {"done"} /\ oCode[oCb[g][s].code] = "spent"
                   /\ \A h \in Flow, r \in Try :
                        oCb[h][r].orcid # None /\ oCb[h][r].code = oCb[g][s].code => h = g /\ r = s
          BY DEF OAuthInv, Holders
        <4>3. oCb[g][s].orcid # None => oCb[g][s].code \in Code /\ oCb[g][s].code # c
          <5>1. oCb[g][s].orcid # None => oCb[g][s].pc # "idle"
            BY <4>2 DEF Beyond
          <5> QED
            BY <2>5, <5>1 DEF OAuthInv, Flows
        <4>4. oCb[g][s].orcid # None => oCode'[oCb[g][s].code] = "spent"
          BY <1>4, <4>2, <4>3
        <4>5. \A h \in Flow, r \in Try :
                oCb[g][s].orcid # None /\ oCb'[h][r].orcid # None /\ oCb'[h][r].code = oCb[g][s].code
                  => h = g /\ r = s
          BY <2>1, <2>3, <4>2, <4>3
        <4> QED
          BY <4>1, <4>2, <4>4, <4>5
      <3> QED
        BY <3>1, <3>2
    <2>9. Holders'
      BY <2>8 DEF Holders
    <2>10. Callers'
      <3>1. oFlow[f].mode \in OAuth!Authenticated => v.by = oFlow[f].user
        BY <1>1, <2>1 DEF OAuthInv, Callers
      <3> QED
        BY <1>1, <2>3, <3>1 DEF OAuthInv, Callers
    <2>11. Bindings'
      BY <1>1, <2>1, <2>3 DEF OAuthInv, Bindings
    <2>12. \A g \in Flow, s \in Try :
             /\ oCb[g][s].pc = "done" => oCb'[g][s] = oCb[g][s]
             /\ oCb[g][s].orcid # None =>
                  oCb'[g][s].code = oCb[g][s].code /\ oCb'[g][s].orcid = oCb[g][s].orcid
      BY <1>1, <1>2, <2>3
    <2>13. Outcomes' /\ Verifications' /\ OAuth!OneSignup'
      BY <1>1, <2>12, GivenKept DEF OAuth!stored
    <2>14. OAuth!TypeOK'
      BY <1>1, <1>4, <1>5, <2>3, TripTypesHold DEF OAuth!TypeOK, OAuth!stored
    <2> QED
      BY <1>3, <2>6, <2>7, <2>9, <2>10, <2>11, <2>13, <2>14 DEF OAuthInv
  <1>6. CASE OAuth!EndTry(f, t) /\ (OAuth!Fault \/ UNCHANGED oFaults)
    <2>1. "done" \in Stages /\ "done" \in Beyond \cup {"exchange", "done"} /\ "done" \notin Beyond
      BY DEF Stages, Beyond
    <2>2. OAuth!Goto(f, t, "done")
      BY <1>6 DEF OAuth!EndTry
    <2>3. /\ oFlow' = oFlow /\ (\A u \in Account : oProven[u] \subseteq oProven'[u])
          /\ oPassed' = oPassed /\ oState' = oState /\ oCb[f][t].pc \in Beyond \cup {"found", "exchange"}
      BY <1>1
    <2>4. /\ oCb' \in [Flow -> [Try -> OAuth!Callback]]
          /\ Flows' /\ Served' /\ Holders' /\ Callers' /\ Bindings'
      BY <1>4, <2>1, <2>2, <2>3, Proceeds
    <2>5. Outcomes' /\ Verifications' /\ OAuth!OneSignup'
      <3>1. oCb[f][t].pc # "done"
        BY <1>1
      <3> QED
        BY <1>1, <2>1, <2>2, <3>1, NoneLost, GivenKept DEF OAuth!stored
    <2>6. OAuth!TypeOK'
      BY <1>1, <1>4, <1>6, <2>4, TripFaultHolds, TripTypesHold DEF OAuth!TypeOK, OAuth!stored
    <2> QED
      BY <1>3, <2>4, <2>5, <2>6 DEF OAuthInv
  <1> QED
    BY <1>1, <1>5, <1>6

(***************************************************************************)
(* What the flow was for.                                                  *)
(***************************************************************************)

\* A handler that does nothing but move its callback.
LEMMA MovesKeep ==
    ASSUME OAuthInv, NEW f \in Flow, NEW t \in Try, NEW p \in {"mint", "bind", "done"},
           OAuth!At(f, t, "handle"), OAuth!Goto(f, t, p), p = "bind" => oFlow[f].mode \in OAuth!Binds,
           UNCHANGED <<oFlow, oState, oCode, oPassed, OAuth!stored, oRedisUp, oFaults, oOut, oProven>>
    PROVE  OAuthInv'
  <1>1. /\ p \in Stages /\ p \in Beyond \cup {"exchange", "done"} /\ p # "record" /\ p # "exchange"
        /\ oCb[f][t].pc = "handle" /\ "handle" \in Beyond
    BY DEF Stages, Beyond, OAuth!At
  <1>2. oFlow[f].mode \in OAuth!Authenticated => oCb[f][t].by = oFlow[f].user
    BY <1>1 DEF OAuthInv, Callers
  <1>3. /\ (\A c \in Code : oCode'[c] \in {oCode[c], "spent"}) /\ (\A g \in Flow : oState'[g] \in {oState[g], None})
        /\ \A u \in Account : oProven[u] \subseteq oProven'[u]
    OBVIOUS
  <1>4. /\ oCb' \in [Flow -> [Try -> OAuth!Callback]]
        /\ Flows' /\ Served' /\ Holders' /\ Callers' /\ Bindings'
    BY <1>1, <1>2, <1>3, Proceeds
  <1>5. Outcomes' /\ Verifications' /\ OAuth!OneSignup'
    <2>1. oCb[f][t].pc # "done"
      BY <1>1
    <2> QED
      BY <1>1, <2>1, NoneLost, GivenKept DEF OAuth!stored
  <1>6. OAuth!TypeOK'
    BY <1>4, TripTypesHold DEF OAuth!TypeOK, OAuth!stored
  <1>7. OAuth!RowsProven'
    BY DEF OAuthInv, OAuth!RowsProven, OAuth!stored
  <1> QED
    BY <1>4, <1>5, <1>6, <1>7 DEF OAuthInv

LEMMA RowHasKeeps ==
    ASSUME OAuthInv, NEW f \in Flow, NEW t \in Try, NEW mode, OAuth!RowHas(f, t, mode)
    PROVE  OAuthInv'
  BY MovesKeep DEF OAuth!RowHas

LEMMA MayBindKeeps ==
    ASSUME OAuthInv, NEW f \in Flow, NEW t \in Try, NEW mode \in OAuth!Binds, OAuth!MayBind(f, t, mode)
    PROVE  OAuthInv'
  BY MovesKeep DEF OAuth!MayBind

LEMMA RefuseKeeps ==
    ASSUME OAuthInv, NEW f \in Flow, NEW t \in Try, OAuth!Refuse(f, t)
    PROVE  OAuthInv'
  BY MovesKeep DEF OAuth!Refuse, OAuth!EndTry

LEMMA HandleSignupKeeps ==
    ASSUME OAuthInv, NEW f \in Flow, NEW t \in Try, OAuth!HandleSignup(f, t)
    PROVE  OAuthInv'
  <1>1. /\ oCb[f][t].pc = "handle" /\ "handle" \in Beyond /\ OAuth!EndTry(f, t)
        /\ oNonce' = [oNonce EXCEPT ![oCb[f][t].code] = OAuth!Tier]
        /\ OAuth!Given(f, t, oCb[f][t].by)
        /\ UNCHANGED <<oFlow, oState, oCode, oPassed, OAuth!emails, oChain, oSigner, oRedisUp,
                       oFaults, oProven>>
    BY DEF OAuth!HandleSignup, OAuth!At, Beyond
  <1>2. oFlow[f].mode \in OAuth!Authenticated => oCb[f][t].by = oFlow[f].user
    BY <1>1 DEF OAuthInv, Callers
  <1>3. /\ oCb' \in [Flow -> [Try -> OAuth!Callback]] /\ oOut' \subseteq OAuth!Outcome
        /\ Flows' /\ Served' /\ Holders' /\ Callers' /\ Bindings' /\ Outcomes'
        /\ \A c, o : Gave(c, o) => Gave(c, o)'
        /\ oCb[f][t].code \in Code /\ oCb'[f][t].code = oCb[f][t].code
        /\ \E o \in Orcid : Gave(oCb[f][t].code, o)'
    BY <1>1, <1>2, CallbackHolds, Answers
  <1>4. /\ oNonce' \in [Code -> OAuth!Tiers \cup {None}]
        /\ \A d \in Code : d # oCb[f][t].code => oNonce'[d] = oNonce[d]
    BY <1>1, <1>3, TripTypesHold
  <1>5. OAuth!TypeOK'
    BY <1>1, <1>3, <1>4, TripTypesHold DEF OAuth!TypeOK, OAuth!emails
  <1>6. Verifications'
    <2>1. \A d \in Code : oNonce'[d] # None => \E o \in Orcid : Gave(d, o)'
      BY <1>3, <1>4 DEF OAuthInv, Verifications
    <2>2. \A s \in Signer : oSigner[s].pc # "idle" =>
            oSigner[s].code \in Code /\ \E o \in Orcid : Gave(oSigner[s].code, o)'
      BY <1>1, <1>3 DEF OAuthInv, Verifications
    <2>3. \A s \in Signer : oSigner[s].row # None =>
            oSigner[s].code \in Code /\ Gave(oSigner[s].code, oSigner[s].row)'
      BY <1>1, <1>3 DEF OAuthInv, Verifications
    <2> QED
      BY <1>1, <2>1, <2>2, <2>3 DEF Verifications, Gave
  <1>7. OAuth!RowsProven' /\ OAuth!OneSignup'
    BY <1>1 DEF OAuthInv, OAuth!RowsProven, OAuth!OneSignup, OAuth!emails
  <1> QED
    BY <1>3, <1>5, <1>6, <1>7 DEF OAuthInv

\* An outcome that leaves nonces and signups as they are.
LEMMA AnswersKeep ==
    ASSUME OAuthInv, NEW f \in Flow, NEW t \in Try, oCb[f][t].pc \in Beyond, OAuth!EndTry(f, t),
           NEW by \in Account \cup {None}, OAuth!Given(f, t, by),
           oFlow[f].mode \in OAuth!Authenticated => by = oFlow[f].user,
           UNCHANGED <<oFlow, oState, oCode, oPassed, oMail, oCrossed, oChain, oNonce, oSigner,
                       oRedisUp, oProven>>,
           oRows' \in [Account -> OAuth!Row \cup {None}], oFaults' \in 0..MaxTripFaults,
           OAuth!RowsProven'
    PROVE  OAuthInv'
  <1>1. /\ oCb' \in [Flow -> [Try -> OAuth!Callback]] /\ oOut' \subseteq OAuth!Outcome
        /\ Flows' /\ Served' /\ Holders' /\ Callers' /\ Bindings' /\ Outcomes'
        /\ \A c, o : Gave(c, o) => Gave(c, o)'
    BY Answers
  <1>2. OAuth!TypeOK'
    BY <1>1, TripTypesHold DEF OAuth!TypeOK
  <1>3. Verifications'
    <2>1. \A d \in Code : oNonce[d] # None => \E o \in Orcid : Gave(d, o)'
      BY <1>1 DEF OAuthInv, Verifications
    <2>2. \A s \in Signer : oSigner[s].pc # "idle" =>
            oSigner[s].code \in Code /\ \E o \in Orcid : Gave(oSigner[s].code, o)'
      BY <1>1 DEF OAuthInv, Verifications
    <2>3. \A s \in Signer : oSigner[s].row # None =>
            oSigner[s].code \in Code /\ Gave(oSigner[s].code, oSigner[s].row)'
      BY <1>1 DEF OAuthInv, Verifications
    <2> QED
      BY <2>1, <2>2, <2>3 DEF Verifications, Gave
  <1>4. OAuth!OneSignup'
    BY DEF OAuthInv, OAuth!OneSignup
  <1> QED
    BY <1>1, <1>2, <1>3, <1>4 DEF OAuthInv

LEMMA HandleLoginKeeps ==
    ASSUME OAuthInv, NEW f \in Flow, NEW t \in Try, OAuth!HandleLogin(f, t)
    PROVE  OAuthInv'
  <1>1. PICK u \in Account : OAuth!Given(f, t, u)
    BY DEF OAuth!HandleLogin
  <1>2. /\ oCb[f][t].pc \in Beyond /\ OAuth!EndTry(f, t) /\ oFlow[f].mode \notin OAuth!Authenticated
        /\ UNCHANGED <<oFlow, oState, oCode, oPassed, OAuth!stored, oRedisUp, oFaults, oProven>>
    BY DEF OAuth!HandleLogin, OAuth!At, Beyond, OAuth!Authenticated
  <1>3. OAuth!RowsProven'
    BY <1>2 DEF OAuthInv, OAuth!RowsProven, OAuth!stored
  <1> QED
    BY <1>1, <1>2, <1>3, AnswersKeep, TripTypesHold DEF OAuth!stored

LEMMA MintKeeps ==
    ASSUME OAuthInv, NEW f \in Flow, NEW t \in Try, OAuth!Mint(f, t)
    PROVE  OAuthInv'
  <1>1. /\ oCb[f][t].pc \in Beyond /\ OAuth!EndTry(f, t) /\ OAuth!Given(f, t, oCb[f][t].by)
        /\ UNCHANGED <<oFlow, oState, oCode, oPassed, OAuth!stored, oRedisUp, oFaults, oProven>>
    BY DEF OAuth!Mint, OAuth!At, Beyond
  <1>2. oFlow[f].mode \in OAuth!Authenticated => oCb[f][t].by = oFlow[f].user
    BY <1>1 DEF OAuthInv, Callers
  <1>3. OAuth!RowsProven'
    BY <1>1 DEF OAuthInv, OAuth!RowsProven, OAuth!stored
  <1> QED
    BY <1>1, <1>2, <1>3, AnswersKeep, CallbackHolds, TripTypesHold DEF OAuth!stored

\* The op of a binding lands, or not.
LEMMA BroadcastKeeps ==
    ASSUME OAuthInv, NEW f \in Flow, NEW t \in Try, OAuth!Broadcast(f, t)
    PROVE  OAuthInv'
  <1> DEFINE u == oFlow[f].user
             orcid == oCb[f][t].orcid
             Lands == /\ oChain' = [oChain EXCEPT ![u] = orcid]
                      /\ oProven' = [oProven EXCEPT ![u] = @ \cup {orcid}]
  <1>1. /\ oCb[f][t].pc = "bind" /\ "bind" \in Beyond
        /\ UNCHANGED <<oFlow, oState, oCode, oPassed, OAuth!emails, oNonce, oSigner, oRedisUp, oOut>>
        /\ \/ Lands /\ OAuth!Goto(f, t, "record") /\ UNCHANGED oFaults
           \/ OAuth!Fault /\ OAuth!EndTry(f, t) /\ (Lands \/ UNCHANGED <<oChain, oProven>>)
    BY DEF OAuth!Broadcast, OAuth!At, Beyond
  <1>2. oFlow[f].mode \in OAuth!Binds /\ oFlow[f].mode \in OAuth!Authenticated /\ orcid \in Orcid
    BY <1>1, CallbackHolds DEF OAuthInv, Bindings, Holders, OAuth!Binds, OAuth!Authenticated
  <1>3. oFlow[f] # None
    BY <1>1 DEF OAuthInv, Flows
  <1>4. u \in Account /\ oCb[f][t].by = u
    BY <1>1, <1>2, <1>3, TripHolds DEF OAuthInv, Callers
  <1> HIDE DEF u, orcid
  <1>5. /\ oChain' \in [Account -> Orcid \cup {None, "accredited"}]
        /\ oProven' \in [Account -> SUBSET Orcid]
        /\ \A v \in Account : oProven[v] \subseteq oProven'[v]
        /\ OAuth!Goto(f, t, "record") => orcid \in oProven'[u]
        /\ OAuth!Fault \/ UNCHANGED oFaults
        /\ OAuth!Goto(f, t, "record") \/ OAuth!Goto(f, t, "done")
    <2>1. CASE Lands /\ OAuth!Goto(f, t, "record") /\ UNCHANGED oFaults
      BY <1>2, <1>4, <2>1, TripTypesHold
    <2>2. CASE OAuth!Fault /\ OAuth!EndTry(f, t) /\ (Lands \/ UNCHANGED <<oChain, oProven>>)
      <3>1. ~OAuth!Goto(f, t, "record")
        <4>1. oCb'[f][t].pc = "done"
          BY <2>2, GotoHolds DEF OAuth!EndTry, Stages
        <4>2. OAuth!Goto(f, t, "record") => oCb'[f][t].pc = "record"
          BY GotoHolds DEF Stages
        <4> QED
          BY <4>1, <4>2
      <3> QED
        <4>1. OAuth!Goto(f, t, "done") /\ OAuth!Fault
          BY <2>2 DEF OAuth!EndTry
        <4>2. CASE Lands
          BY <1>2, <1>4, <3>1, <4>1, <4>2, TripTypesHold
        <4>3. CASE UNCHANGED <<oChain, oProven>>
          BY <3>1, <4>1, <4>3, TripTypesHold
        <4> QED
          BY <2>2, <4>2, <4>3
    <2> QED
      BY <1>1, <2>1, <2>2
  <1>6. PICK p \in {"record", "done"} :
          OAuth!Goto(f, t, p) /\ (p = "record" => orcid \in oProven'[u])
    BY <1>5
  <1>7. p \in Stages /\ p \in Beyond \cup {"exchange", "done"} /\ p # "exchange"
    BY DEF Stages, Beyond
  <1>8. /\ oCb' \in [Flow -> [Try -> OAuth!Callback]]
        /\ Flows' /\ Served' /\ Holders' /\ Callers' /\ Bindings'
    <2>1. p = "record" => oCb[f][t].orcid \in oProven'[oFlow[f].user]
      BY <1>6 DEF u, orcid
    <2>2. oCb[f][t].by = oFlow[f].user
      BY <1>4 DEF u
    <2>3. /\ (\A c \in Code : oCode'[c] \in {oCode[c], "spent"}) /\ oFlow' = oFlow /\ oPassed' = oPassed
          /\ (\A g \in Flow : oState'[g] \in {oState[g], None})
      BY <1>1
    <2> QED
      BY <1>1, <1>2, <1>5, <1>6, <1>7, <2>1, <2>2, <2>3, Proceeds
  <1>9. Outcomes' /\ Verifications' /\ OAuth!OneSignup'
    <2>1. oCb[f][t].pc # "done"
      BY <1>1
    <2> QED
      BY <1>1, <1>6, <1>7, <2>1, NoneLost, GivenKept
  <1>10. OAuth!TypeOK'
    BY <1>1, <1>5, <1>8, TripFaultHolds, TripTypesHold DEF OAuth!TypeOK, OAuth!emails
  <1>11. OAuth!RowsProven'
    BY <1>1, <1>5 DEF OAuthInv, OAuth!RowsProven, OAuth!emails
  <1> QED
    BY <1>8, <1>9, <1>10, <1>11 DEF OAuthInv

\* A row is written whose ORCID, if it has one, is proved, and whose email is verified or
\* was crossed.
LEMMA RowWritten ==
    ASSUME OAuthInv, NEW u \in Account, NEW v \in OAuth!Row \cup {None}, oRows' = [oRows EXCEPT ![u] = v],
           oProven' = oProven, oCrossed \subseteq oCrossed' \cup {u},
           v # None => v.orcid = None \/ ((v.verified \/ u \in oCrossed') /\ v.orcid \in oProven[u])
    PROVE  oRows' \in [Account -> OAuth!Row \cup {None}] /\ OAuth!RowsProven'
  <1>1. /\ oRows' \in [Account -> OAuth!Row \cup {None}] /\ oRows'[u] = v
        /\ \A w \in Account : w # u => oRows'[w] = oRows[w]
    BY TripTypesHold
  <1>2. ASSUME NEW w \in Account, oRows'[w] # None, oRows'[w].orcid # None
        PROVE  oRows'[w].orcid \in oProven[w] /\ (oRows'[w].verified \/ w \in oCrossed')
    <2>1. CASE w = u
      BY <1>1, <1>2, <2>1
    <2>2. CASE w # u
      BY <1>1, <1>2, <2>2 DEF OAuthInv, OAuth!RowsProven
    <2> QED
      BY <2>1, <2>2
  <1> QED
    BY <1>1, <1>2 DEF OAuth!RowsProven

\* Behind a binding the row of the account is written, if there is one to write.
LEMMA UpdateKeeps ==
    ASSUME OAuthInv, NEW f \in Flow, NEW t \in Try, OAuth!UpdateAccountOrcid(f, t)
    PROVE  OAuthInv'
  <1> DEFINE u == oFlow[f].user
             orcid == oCb[f][t].orcid
  <1>1. /\ oCb[f][t].pc = "record" /\ "record" \in Beyond /\ OAuth!EndTry(f, t)
        /\ OAuth!Given(f, t, oCb[f][t].by)
        /\ UNCHANGED <<oFlow, oState, oCode, oPassed, oMail, oCrossed, oChain, oNonce, oSigner,
                       oRedisUp, oProven>>
        /\ OAuth!Fault \/ UNCHANGED oFaults
        /\ \/ oRows' = oRows
           \/ OAuth!Writable(u, orcid) /\ oRows' = [oRows EXCEPT ![u].orcid = orcid]
    BY DEF OAuth!UpdateAccountOrcid, OAuth!At, Beyond
  <1>2. /\ oFlow[f].mode \in OAuth!Binds /\ oFlow[f].mode \in OAuth!Authenticated
        /\ orcid \in Orcid /\ orcid \in oProven[u] /\ oFlow[f] # None
    BY <1>1, CallbackHolds DEF OAuthInv, Bindings, Holders, OAuth!Binds, OAuth!Authenticated, Flows
  <1>3. u \in Account /\ oCb[f][t].by = u
    BY <1>1, <1>2, TripHolds DEF OAuthInv, Callers
  <1>4. oCb[f][t].by = oFlow[f].user /\ oCb[f][t].by \in Account \cup {None}
    BY <1>3
  <1> HIDE DEF u, orcid
  <1>5. oRows' \in [Account -> OAuth!Row \cup {None}] /\ OAuth!RowsProven'
    <2>1. CASE oRows' = oRows
      BY <1>1, <2>1, TripTypesHold DEF OAuthInv, OAuth!RowsProven
    <2>2. CASE OAuth!Writable(u, orcid) /\ oRows' = [oRows EXCEPT ![u].orcid = orcid]
      <3> DEFINE v == [oRows[u] EXCEPT !.orcid = orcid]
      <3>1. oRows[u] # None /\ oRows[u].verified /\ oRows[u] \in OAuth!Row
        BY <1>3, <2>2, TripTypesHold DEF OAuth!Writable
      <3>2. v \in OAuth!Row /\ v.orcid = orcid /\ v.verified
        BY <1>2, <3>1 DEF OAuth!Row
      <3>3. oRows' = [oRows EXCEPT ![u] = v]
        BY <1>3, <2>2, TripTypesHold
      <3> HIDE DEF v
      <3> QED
        BY <1>1, <1>2, <1>3, <3>2, <3>3, RowWritten
    <2> QED
      BY <1>1, <2>1, <2>2
  <1> QED
    BY <1>1, <1>4, <1>5, AnswersKeep, TripFaultHolds

(***************************************************************************)
(* Signup with a verified ORCID, and what happens around the round trip.   *)
(***************************************************************************)

\* What a step away from the flows keeps.
LEMMA FlowsRest ==
    ASSUME OAuthInv, UNCHANGED <<oFlow, oCode, oCb, oPassed, oOut, oProven>>,
           \A f \in Flow : oState'[f] \in {oState[f], None}
    PROVE  Flows' /\ Served' /\ Holders' /\ Callers' /\ Bindings' /\ Outcomes'
  <1>1. Served'
    BY TripTypesHold DEF OAuthInv, Served
  <1> QED
    BY <1>1 DEF OAuthInv, Flows, Holders, Callers, Bindings, Outcomes

LEMMA SigningHolds ==
    ASSUME OAuthInv, NEW s \in Signer
    PROVE  /\ oSigner[s] \in OAuth!Signing /\ oSigner[s].pc \in {"idle", "del", "insert", "done"}
           /\ oSigner[s].code \in Code \cup {None} /\ oSigner[s].row \in Orcid \cup {None}
  <1>1. oSigner[s] \in OAuth!Signing
    BY TripTypesHold
  <1> QED
    BY <1>1 DEF OAuth!Signing

LEMMA TakeNonceKeeps ==
    ASSUME OAuthInv, NEW s \in Signer, NEW c \in Code, OAuth!TakeNonce(s, c)
    PROVE  OAuthInv'
  <1> DEFINE v == [pc |-> IF OAuth!Tier = "redis" THEN "del" ELSE "insert", code |-> c, row |-> None]
  <1>1. /\ oNonce[c] = OAuth!Tier /\ oSigner' = [oSigner EXCEPT ![s] = v]
        /\ oNonce' = oNonce \/ oNonce' = [oNonce EXCEPT ![c] = None]
        /\ UNCHANGED <<OAuth!flows, OAuth!emails, oChain, oRedisUp, oFaults, oOut, oProven>>
    BY DEF OAuth!TakeNonce
  <1>2. v \in OAuth!Signing /\ v.pc # "idle" /\ v.code = c /\ v.row = None
    BY DEF OAuth!Signing
  <1> HIDE DEF v
  <1>3. /\ oSigner' \in [Signer -> OAuth!Signing] /\ oSigner'[s] = v
        /\ \A q \in Signer : q # s => oSigner'[q] = oSigner[q]
    BY <1>1, <1>2, TripTypesHold
  <1>4. oNonce' \in [Code -> OAuth!Tiers \cup {None}] /\ \A d \in Code : oNonce'[d] # None => oNonce[d] # None
    BY <1>1, TripTypesHold
  <1>5. \E o \in Orcid : Gave(c, o)
    <2>1. oNonce[c] # None
      BY <1>1, TripTypesHold, NoneHolds
    <2> QED
      BY <2>1 DEF OAuthInv, Verifications
  <1>6. oCb' = oCb
    BY <1>1 DEF OAuth!flows
  <1>7. Verifications'
    BY <1>2, <1>3, <1>4, <1>5, <1>6 DEF OAuthInv, Verifications, Gave
  <1>8. OAuth!OneSignup'
    BY <1>2, <1>3 DEF OAuthInv, OAuth!OneSignup
  <1>9. OAuth!TypeOK'
    BY <1>1, <1>3, <1>4, TripTypesHold DEF OAuth!TypeOK, OAuth!flows, OAuth!emails
  <1>10. OAuth!RowsProven'
    BY <1>1 DEF OAuthInv, OAuth!RowsProven, OAuth!emails
  <1> QED
    BY <1>1, <1>7, <1>8, <1>9, <1>10, FlowsRest DEF OAuthInv, OAuth!flows

LEMMA DeleteNonceKeeps ==
    ASSUME OAuthInv, NEW s \in Signer, OAuth!DeleteNonce(s)
    PROVE  OAuthInv'
  <1>1. PICK p \in {"insert", "done"} : oSigner' = [oSigner EXCEPT ![s].pc = p]
    BY DEF OAuth!DeleteNonce
  <1>2. /\ oSigner[s].pc = "del" /\ (OAuth!Fault \/ UNCHANGED oFaults)
        /\ oNonce' = [oNonce EXCEPT ![oSigner[s].code] = IF @ = "redis" THEN None ELSE @]
        /\ UNCHANGED <<OAuth!flows, OAuth!emails, oChain, oRedisUp, oOut, oProven>>
    BY DEF OAuth!DeleteNonce
  <1> DEFINE v == [oSigner[s] EXCEPT !.pc = p]
  <1>3. v \in OAuth!Signing /\ v.pc = p /\ v.code = oSigner[s].code /\ v.row = oSigner[s].row
    BY SigningHolds DEF OAuth!Signing
  <1>4. oSigner' = [oSigner EXCEPT ![s] = v]
    BY <1>1, TripTypesHold
  <1> HIDE DEF v
  <1>5. /\ oSigner' \in [Signer -> OAuth!Signing] /\ oSigner'[s] = v
        /\ \A q \in Signer : q # s => oSigner'[q] = oSigner[q]
    BY <1>3, <1>4, TripTypesHold
  <1>6. oNonce' \in [Code -> OAuth!Tiers \cup {None}] /\ \A d \in Code : oNonce'[d] # None => oNonce[d] # None
    BY <1>2, TripTypesHold
  <1>7. Verifications'
    <2>1. oCb' = oCb
      BY <1>2 DEF OAuth!flows
    <2>2. \A q \in Signer : oSigner'[q].code = oSigner[q].code /\ oSigner'[q].row = oSigner[q].row
      BY <1>3, <1>5
    <2>3. \A q \in Signer : oSigner'[q].pc # "idle" => oSigner[q].pc # "idle"
      <3>1. oSigner[s].pc # "idle"
        BY <1>2
      <3> QED
        BY <1>5, <3>1
    <2>4. \A c \in Code : oNonce'[c] # None => \E o \in Orcid : Gave(c, o)
      BY <1>6 DEF OAuthInv, Verifications
    <2>5. \A q \in Signer : oSigner'[q].pc # "idle" =>
            oSigner'[q].code \in Code /\ \E o \in Orcid : Gave(oSigner'[q].code, o)
      BY <2>2, <2>3 DEF OAuthInv, Verifications
    <2>6. \A q \in Signer : oSigner'[q].row # None =>
            oSigner'[q].code \in Code /\ Gave(oSigner'[q].code, oSigner'[q].row)
      BY <2>2 DEF OAuthInv, Verifications
    <2> QED
      BY <2>1, <2>4, <2>5, <2>6 DEF Verifications, Gave
  <1>8. OAuth!OneSignup'
    BY <1>3, <1>5 DEF OAuthInv, OAuth!OneSignup
  <1>9. OAuth!TypeOK'
    BY <1>2, <1>5, <1>6, TripFaultHolds, TripTypesHold DEF OAuth!TypeOK, OAuth!flows, OAuth!emails
  <1>10. OAuth!RowsProven'
    BY <1>2 DEF OAuthInv, OAuth!RowsProven, OAuth!emails
  <1> QED
    BY <1>2, <1>7, <1>8, <1>9, <1>10, FlowsRest DEF OAuthInv, OAuth!flows

\* A code that was exchanged gave one ORCID.
LEMMA OneOrcid ==
    ASSUME OAuthInv, NEW c, NEW o \in Orcid, NEW q \in Orcid, Gave(c, o), Gave(c, q)
    PROVE  o = q
  <1>1. PICK f \in Flow, t \in Try : oCb[f][t].code = c /\ oCb[f][t].orcid = o
    BY DEF Gave
  <1>2. PICK g \in Flow, s \in Try : oCb[g][s].code = c /\ oCb[g][s].orcid = q
    BY DEF Gave
  <1>3. o # None /\ q # None
    BY NoneHolds
  <1> QED
    BY <1>1, <1>2, <1>3 DEF OAuthInv, Holders

\* A second signup finds the ORCID in the row of the first.
LEMMA InsertRowKeeps ==
    ASSUME OAuthInv, NEW s \in Signer, OAuth!InsertRow(s)
    PROVE  OAuthInv'
  <1> DEFINE orcid == OAuth!Verified(oSigner[s].code)
             row == IF OAuth!Taken(orcid) THEN None ELSE orcid
  <1>1. /\ oSigner[s].pc = "insert"
        /\ oSigner' = [oSigner EXCEPT ![s].pc = "done", ![s].row = row]
        /\ UNCHANGED <<OAuth!flows, OAuth!emails, oChain, oNonce, oRedisUp, oFaults, oOut, oProven>>
    BY DEF OAuth!InsertRow
  <1>2. oSigner[s].code \in Code /\ \E o \in Orcid : Gave(oSigner[s].code, o)
    BY <1>1 DEF OAuthInv, Verifications
  <1>3. orcid \in Orcid /\ Gave(oSigner[s].code, orcid)
    BY <1>2 DEF Gave, OAuth!Verified
  <1> HIDE DEF orcid
  <1>4. row \in Orcid \cup {None} /\ (row # None => row = orcid /\ ~OAuth!Taken(orcid))
    BY <1>3
  <1> HIDE DEF row
  <1> DEFINE v == [oSigner[s] EXCEPT !.pc = "done", !.row = row]
  <1>5. v \in OAuth!Signing /\ v.pc = "done" /\ v.code = oSigner[s].code /\ v.row = row
    BY <1>4, SigningHolds DEF OAuth!Signing
  <1>6. oSigner' = [oSigner EXCEPT ![s] = v]
    BY <1>1, TripTypesHold
  <1> HIDE DEF v
  <1>7. /\ oSigner' \in [Signer -> OAuth!Signing] /\ oSigner'[s] = v
        /\ \A q \in Signer : q # s => oSigner'[q] = oSigner[q]
    BY <1>5, <1>6, TripTypesHold
  <1>8. Verifications'
    <2>1. oCb' = oCb /\ oNonce' = oNonce
      BY <1>1 DEF OAuth!flows
    <2>2. \A q \in Signer : oSigner'[q].code = oSigner[q].code
      BY <1>5, <1>7
    <2>3. \A q \in Signer : oSigner'[q].pc # "idle" => oSigner[q].pc # "idle"
      <3>1. oSigner[s].pc # "idle"
        BY <1>1
      <3> QED
        BY <1>7, <3>1
    <2>4. \A q \in Signer : oSigner'[q].pc # "idle" =>
            oSigner'[q].code \in Code /\ \E o \in Orcid : Gave(oSigner'[q].code, o)
      BY <2>2, <2>3 DEF OAuthInv, Verifications
    <2>5. ASSUME NEW q \in Signer, oSigner'[q].row # None
          PROVE  oSigner'[q].code \in Code /\ Gave(oSigner'[q].code, oSigner'[q].row)
      <3>1. CASE q = s
        BY <1>2, <1>3, <1>4, <1>5, <1>7, <2>5, <3>1
      <3>2. CASE q # s
        BY <1>7, <2>5, <3>2 DEF OAuthInv, Verifications
      <3> QED
        BY <3>1, <3>2
    <2>6. \A c \in Code : oNonce[c] # None => \E o \in Orcid : Gave(c, o)
      BY DEF OAuthInv, Verifications
    <2> QED
      BY <2>1, <2>4, <2>5, <2>6 DEF Verifications, Gave
  <1>9. ASSUME NEW q \in Signer, q # s, oSigner[q].row # None, row # None
        PROVE  oSigner[q].code # oSigner[s].code
    <2>1. Gave(oSigner[q].code, oSigner[q].row) /\ oSigner[q].row \in Orcid
      BY <1>9, SigningHolds DEF OAuthInv, Verifications
    <2>2. oSigner[q].row # orcid
      BY <1>4, <1>9 DEF OAuth!Taken
    <2> QED
      BY <1>3, <2>1, <2>2, OneOrcid
  <1>10. OAuth!OneSignup'
    BY <1>5, <1>7, <1>9 DEF OAuthInv, OAuth!OneSignup
  <1>11. OAuth!TypeOK'
    BY <1>1, <1>7, TripTypesHold DEF OAuth!TypeOK, OAuth!flows, OAuth!emails
  <1>12. OAuth!RowsProven'
    BY <1>1 DEF OAuthInv, OAuth!RowsProven, OAuth!emails
  <1> QED
    BY <1>1, <1>8, <1>10, <1>11, <1>12, FlowsRest DEF OAuthInv, OAuth!flows

\* A step that concerns rows and registrations alone.
LEMMA RowsKeep ==
    ASSUME OAuthInv,
           UNCHANGED <<oFlow, oState, oCode, oCb, oPassed, oChain, oNonce, oSigner, oRedisUp, oFaults,
                       oOut, oProven>>,
           oRows' \in [Account -> OAuth!Row \cup {None}], oCrossed' \subseteq Account,
           oMail' \in [Account -> SUBSET {"add", "reissue"}], OAuth!RowsProven'
    PROVE  OAuthInv'
  <1>1. OAuth!TypeOK'
    BY TripTypesHold DEF OAuth!TypeOK
  <1>2. Verifications' /\ OAuth!OneSignup'
    BY DEF OAuthInv, Verifications, OAuth!OneSignup, Gave
  <1> QED
    BY <1>1, <1>2, FlowsRest DEF OAuthInv

LEMMA RegisterEmailKeeps ==
    ASSUME OAuthInv, NEW u \in Account, OAuth!RegisterEmail(u)
    PROVE  OAuthInv'
  <1>1. /\ UNCHANGED <<oFlow, oState, oCode, oCb, oPassed, oRows, oCrossed, oChain, oNonce, oSigner,
                       oRedisUp, oFaults, oOut, oProven>>
        /\ oMail' = [oMail EXCEPT ![u] = @ \cup {IF oRows[u] = None THEN "add" ELSE "reissue"}]
    BY DEF OAuth!RegisterEmail, OAuth!flows
  <1>2. oMail' \in [Account -> SUBSET {"add", "reissue"}]
    BY <1>1, TripTypesHold
  <1>3. OAuth!RowsProven'
    BY <1>1 DEF OAuthInv, OAuth!RowsProven
  <1> QED
    BY <1>1, <1>2, <1>3, RowsKeep, TripTypesHold

\* The row of a re-issue keeps its ORCID, and is crossed when it was verified.
LEMMA WriteEmailKeeps ==
    ASSUME OAuthInv, NEW u \in Account, NEW kind \in oMail[u], OAuth!WriteEmail(u, kind)
    PROVE  OAuthInv'
  <1>1. /\ UNCHANGED <<oFlow, oState, oCode, oCb, oPassed, oChain, oNonce, oSigner, oRedisUp, oFaults,
                       oOut, oProven>>
        /\ oMail' \in {oMail, [oMail EXCEPT ![u] = @ \ {kind}]}
    BY DEF OAuth!WriteEmail, OAuth!flows
  <1>2. oMail' \in [Account -> SUBSET {"add", "reissue"}]
    BY <1>1, TripTypesHold
  <1>3. /\ oRows' \in [Account -> OAuth!Row \cup {None}] /\ OAuth!RowsProven'
        /\ oCrossed' \subseteq Account
    <2>1. CASE /\ oRows[u] = None /\ UNCHANGED oCrossed
               /\ oRows' = [oRows EXCEPT ![u] = [orcid |-> None, verified |-> FALSE]]
      <3> DEFINE v == [orcid |-> None, verified |-> FALSE]
      <3>1. v \in OAuth!Row /\ v.orcid = None
        BY DEF OAuth!Row
      <3>2. oRows' = [oRows EXCEPT ![u] = v]
        BY <2>1
      <3> HIDE DEF v
      <3> QED
        BY <1>1, <2>1, <3>1, <3>2, RowWritten, TripTypesHold
    <2>2. CASE /\ oRows[u] # None /\ oRows' = [oRows EXCEPT ![u] = OAuth!Reissued(@)]
               /\ oCrossed' = IF oRows[u].verified THEN oCrossed \cup {u} ELSE oCrossed
      <3> DEFINE v == [oRows[u] EXCEPT !.verified = FALSE]
      <3>1. oRows[u] \in OAuth!Row
        BY <2>2, TripTypesHold
      <3>2. v \in OAuth!Row /\ v.orcid = oRows[u].orcid
        BY <3>1 DEF OAuth!Row
      <3>3. oRows' = [oRows EXCEPT ![u] = v]
        BY <2>2, TripTypesHold DEF OAuth!Reissued
      <3> HIDE DEF v
      <3>4. /\ oCrossed \subseteq oCrossed' /\ oCrossed' \subseteq Account
            /\ oRows[u].verified => u \in oCrossed'
        BY <2>2, TripTypesHold
      <3>5. oRows[u].orcid # None => oRows[u].orcid \in oProven[u] /\ u \in oCrossed'
        <4>1. oRows[u].orcid # None =>
                oRows[u].orcid \in oProven[u] /\ (oRows[u].verified \/ u \in oCrossed)
          BY <2>2 DEF OAuthInv, OAuth!RowsProven
        <4> QED
          BY <3>4, <4>1
      <3> QED
        BY <1>1, <3>2, <3>3, <3>4, <3>5, RowWritten
    <2>3. CASE UNCHANGED <<oRows, oCrossed>>
      BY <1>1, <2>3, TripTypesHold DEF OAuthInv, OAuth!RowsProven
    <2> QED
      BY <2>1, <2>2, <2>3 DEF OAuth!WriteEmail
  <1> QED
    BY <1>1, <1>2, <1>3, RowsKeep

\* The email of a row is verified, or the row goes.
LEMMA RowsEndKeeps ==
    ASSUME OAuthInv, NEW u \in Account, OAuth!VerifyEmail(u) \/ OAuth!Reap(u)
    PROVE  OAuthInv'
  <1>1. /\ UNCHANGED <<oFlow, oState, oCode, oCb, oPassed, oMail, oChain, oNonce, oSigner, oRedisUp,
                       oFaults, oOut, oProven>>
        /\ oCrossed' = oCrossed \ {u}
    BY DEF OAuth!VerifyEmail, OAuth!Reap, OAuth!flows
  <1>2. oRows' \in [Account -> OAuth!Row \cup {None}] /\ OAuth!RowsProven'
    <2>1. CASE OAuth!VerifyEmail(u)
      <3> DEFINE v == [oRows[u] EXCEPT !.verified = TRUE]
      <3>1. oRows[u] \in OAuth!Row /\ oRows[u] # None
        BY <2>1, TripTypesHold DEF OAuth!VerifyEmail, OAuth!Unverified
      <3>2. v \in OAuth!Row /\ v.orcid = oRows[u].orcid /\ v.verified
        BY <3>1 DEF OAuth!Row
      <3>3. oRows' = [oRows EXCEPT ![u] = v]
        BY <2>1, TripTypesHold DEF OAuth!VerifyEmail
      <3> HIDE DEF v
      <3>4. oRows[u].orcid # None => oRows[u].orcid \in oProven[u]
        BY <3>1 DEF OAuthInv, OAuth!RowsProven
      <3> QED
        BY <1>1, <3>2, <3>3, <3>4, RowWritten
    <2>2. CASE OAuth!Reap(u)
      BY <1>1, <2>2, RowWritten DEF OAuth!Reap
    <2> QED
      BY <2>1, <2>2
  <1>3. oCrossed' \subseteq Account
    BY <1>1, TripTypesHold
  <1> QED
    BY <1>1, <1>2, <1>3, RowsKeep, TripTypesHold

\* Redis goes or comes back, a state or a nonce expires.
LEMMA AroundKeeps ==
    ASSUME OAuthInv,
           OAuth!Flip \/ (\E f \in Flow : OAuth!ExpireState(f)) \/ (\E c \in Code : OAuth!ExpireNonce(c))
    PROVE  OAuthInv'
  <1>1. UNCHANGED <<oFlow, oCode, oCb, oPassed, oRows, oMail, oCrossed, oChain, oSigner, oOut, oProven>>
    BY DEF OAuth!Flip, OAuth!ExpireState, OAuth!ExpireNonce, OAuth!flows, OAuth!stored, OAuth!emails
  <1>2. /\ oState' \in [Flow -> OAuth!Tiers \cup {None}] /\ oNonce' \in [Code -> OAuth!Tiers \cup {None}]
        /\ \A g \in Flow : oState'[g] \in {oState[g], None}
        /\ \A c \in Code : oNonce'[c] # None => oNonce[c] # None
        /\ oRedisUp' \in BOOLEAN /\ (OAuth!Fault \/ UNCHANGED oFaults)
    <2>1. CASE OAuth!Flip
      BY <2>1, TripTypesHold DEF OAuth!Flip, OAuth!flows, OAuth!stored
    <2>2. CASE \E f \in Flow : OAuth!ExpireState(f)
      <3>1. PICK f \in Flow : OAuth!ExpireState(f)
        BY <2>2
      <3>2. oState' = [oState EXCEPT ![f] = None] /\ UNCHANGED <<oNonce, oRedisUp, oFaults>>
        BY <3>1 DEF OAuth!ExpireState, OAuth!stored
      <3> QED
        BY <3>2, TripTypesHold
    <2>3. CASE \E c \in Code : OAuth!ExpireNonce(c)
      <3>1. PICK c \in Code : OAuth!ExpireNonce(c)
        BY <2>3
      <3>2. oNonce' = [oNonce EXCEPT ![c] = None] /\ UNCHANGED <<oState, oRedisUp, oFaults>>
        BY <3>1 DEF OAuth!ExpireNonce, OAuth!flows
      <3> QED
        BY <3>2, TripTypesHold
    <2> QED
      BY <2>1, <2>2, <2>3
  <1>3. OAuth!TypeOK'
    BY <1>1, <1>2, TripFaultHolds, TripTypesHold DEF OAuth!TypeOK
  <1>4. Verifications' /\ OAuth!OneSignup' /\ OAuth!RowsProven'
    BY <1>1, <1>2 DEF OAuthInv, Verifications, Gave, OAuth!OneSignup, OAuth!RowsProven
  <1> QED
    BY <1>1, <1>2, <1>3, <1>4, FlowsRest DEF OAuthInv

LEMMA OAuthStep == OAuthInv /\ [OAuth!Next]_OAuth!vars => OAuthInv'
  <1> SUFFICES ASSUME OAuthInv, [OAuth!Next]_OAuth!vars PROVE OAuthInv'
    OBVIOUS
  <1>1. ASSUME NEW f \in Flow, NEW t \in Try,
               \/ \E by \in Account \cup {None}, c \in Code : OAuth!Present(f, t, by, c)
               \/ OAuth!Consume(f, t) \/ OAuth!Exchange(f, t) \/ OAuth!HandleSignup(f, t) \/ OAuth!HandleLogin(f, t)
               \/ OAuth!HandleFreshAuth(f, t) \/ OAuth!HandleSessionAuth(f, t) \/ OAuth!Mint(f, t)
               \/ OAuth!HandleAccredit(f, t) \/ OAuth!HandleLink(f, t) \/ OAuth!Refuse(f, t) \/ OAuth!Broadcast(f, t)
               \/ OAuth!UpdateAccountOrcid(f, t)
        PROVE  OAuthInv'
    <2>1. CASE \E by \in Account \cup {None}, c \in Code : OAuth!Present(f, t, by, c)
      BY <2>1, PresentKeeps
    <2>2. CASE OAuth!Consume(f, t) \/ OAuth!Exchange(f, t)
      BY <2>2, ConsumeKeeps, ExchangeKeeps
    <2>3. CASE OAuth!HandleSignup(f, t) \/ OAuth!HandleLogin(f, t) \/ OAuth!Mint(f, t) \/ OAuth!Refuse(f, t)
      BY <2>3, HandleSignupKeeps, HandleLoginKeeps, MintKeeps, RefuseKeeps
    <2>4. CASE OAuth!HandleFreshAuth(f, t) \/ OAuth!HandleSessionAuth(f, t)
      BY <2>4, RowHasKeeps DEF OAuth!HandleFreshAuth, OAuth!HandleSessionAuth
    <2>5. CASE OAuth!HandleAccredit(f, t) \/ OAuth!HandleLink(f, t)
      BY <2>5, MayBindKeeps DEF OAuth!HandleAccredit, OAuth!HandleLink, OAuth!Binds
    <2>6. CASE OAuth!Broadcast(f, t) \/ OAuth!UpdateAccountOrcid(f, t)
      BY <2>6, BroadcastKeeps, UpdateKeeps
    <2> QED
      BY <1>1, <2>1, <2>2, <2>3, <2>4, <2>5, <2>6
  <1>2. CASE \E f \in Flow, mode \in Mode, user \in Account \cup {None} : OAuth!Start(f, mode, user)
    BY <1>2, StartKeeps
  <1>3. CASE \E c \in Code, orcid \in Orcid : OAuth!Consent(c, orcid)
    BY <1>3, ConsentKeeps
  <1>4. CASE \E s \in Signer : OAuth!DeleteNonce(s) \/ OAuth!InsertRow(s) \/ \E c \in Code : OAuth!TakeNonce(s, c)
    BY <1>4, DeleteNonceKeeps, InsertRowKeeps, TakeNonceKeeps
  <1>5. CASE \E u \in Account :
               \/ OAuth!RegisterEmail(u) \/ OAuth!VerifyEmail(u) \/ OAuth!Reap(u)
               \/ \E kind \in oMail[u] : OAuth!WriteEmail(u, kind)
    BY <1>5, RegisterEmailKeeps, WriteEmailKeeps, RowsEndKeeps
  <1>6. CASE OAuth!Flip \/ (\E f \in Flow : OAuth!ExpireState(f)) \/ (\E c \in Code : OAuth!ExpireNonce(c))
    BY <1>6, AroundKeeps
  <1>7. CASE UNCHANGED OAuth!vars
    BY <1>7, FlowsRest DEF OAuth!vars, OAuthInv, OAuth!TypeOK, Verifications, Gave, OAuth!RowsProven,
       OAuth!OneSignup
  <1> QED
    BY <1>1, <1>2, <1>3, <1>4, <1>5, <1>6, <1>7 DEF OAuth!Next

(***************************************************************************)
(* The theorems.                                                           *)
(***************************************************************************)

\* OrcidOAuth: the inductive invariant.  A code is exchanged for one callback, a flow that
\* has let one through has no state left for a later one, and behind the state the caller is
\* the initiator; nonces and the rows of signups go back to a code that was exchanged.
THEOREM OAuthInvariant == OAuth!Spec => []OAuthInv
  BY OAuthStarts, OAuthStep, PTL DEF OAuth!Spec

\* OrcidOAuth: every variable stays in its type.
THEOREM OAuthTyped == OAuth!Spec => []OAuth!TypeOK
  <1>1. OAuthInv => OAuth!TypeOK
    BY DEF OAuthInv
  <1> QED
    BY <1>1, OAuthInvariant, PTL

\* The outcomes are those of codes, of callbacks that were in time, and of initiators.
LEMMA OutcomesOwned ==
    ASSUME OAuthInv
    PROVE  OAuth!OutcomeIsOwn
  <1>1. \A o \in oOut : o.flow \in Flow /\ o.try \in Try
    BY TripTypesHold DEF OAuth!Outcome
  <1>2. ASSUME NEW o \in oOut, NEW p \in oOut, OAuth!CodeOf(o) = OAuth!CodeOf(p)
        PROVE  o = p
    <2>1. oCb[o.flow][o.try].orcid # None /\ oCb[p.flow][p.try].orcid # None
      BY DEF OAuthInv, Outcomes
    <2>2. o.flow = p.flow /\ o.try = p.try
      BY <1>1, <1>2, <2>1 DEF OAuthInv, Holders, OAuth!CodeOf
    <2> QED
      BY <2>2 DEF OAuthInv, Outcomes
  <1>3. \A o \in oOut : ~oCb[o.flow][o.try].late
    BY <1>1 DEF OAuthInv, Outcomes, Served
  <1> QED
    BY <1>2, <1>3 DEF OAuthInv, Outcomes, OAuth!OutcomeIsOwn

\* OrcidOAuth (POST /callback, handleSignup, updateAccountOrcid): a code comes to one outcome,
\* a flow that has let a callback through serves none after it, and what needs an account
\* goes to the one that began the flow; the row of an account has no ORCID it did not prove,
\* and none beside an unverified email but where a re-issue crossed the verification; and a
\* verification admits one signup.
THEOREM OrcidHolds == OAuth!Spec => []OrcidSound
  <1>1. OAuthInv => OrcidSound
    BY OutcomesOwned DEF OAuthInv, OrcidSound
  <1> QED
    BY <1>1, OAuthInvariant, PTL

(***************************************************************************)
(* The claims of a paper.                                                  *)
(***************************************************************************)

\* Not signed with the key of the bridge for a co-author.
Plain(o) == o.signer = Bridge => o.asked = Admin

\* An op signed with the key of the bridge for a co-author approves another account, and the
\* co-author's authority is later than what was settled.
Rises(a) ==
  \E j \in lClear + 1..Len(lChain) : lChain[j].who = a /\ lChain[j].act \in {"approve", "accredit"}
Rightful(o) ==
  o.signer = Bridge /\ o.asked # Admin => o.act = "approve" /\ o.asked # o.who /\ Rises(o.asked)

RoutesInv ==
  /\ Claims!TypeOK /\ lClear <= lHaf /\ Len(FirstOps) <= Len(lChain)
  /\ \A a \in Claimant : ~Claims!CoAuthor(lClear, a)
  /\ \A o \in lFlight : Rightful(o)
  /\ Claims!Rooted

LEMMA ClaimTypesHold ==
    ASSUME RoutesInv
    PROVE  /\ lAuthor \in Claimant \cup {Bridge} /\ lChain \in Seq(Claims!Op) /\ Len(lChain) \in Nat
           /\ lHaf \in 0..Len(lChain) /\ lClear \in 0..lHaf /\ lClear \in Nat /\ lHaf \in Nat
           /\ lFlight \subseteq Claims!Op /\ Bridge \notin Claimant /\ Admin \in Claimant
           /\ Len(FirstOps) \in Nat /\ FirstOps \in Seq(Claims!Op) /\ Len(FirstOps) <= Len(lChain)
  BY PartsAssumption DEF RoutesInv, Claims!TypeOK, Claims!RoutesAssumption

\* What the first n ops say does not change.
LEMMA Said ==
    ASSUME RoutesInv, lAuthor' = lAuthor, lChain' \in Seq(Claims!Op), Len(lChain) <= Len(lChain'),
           \A i \in 1..Len(lChain) : lChain'[i] = lChain[i],
           NEW n \in 0..Len(lChain), NEW a
    PROVE  Claims!CoAuthor(n, a)' <=> Claims!CoAuthor(n, a)
  <1>1. ASSUME NEW act
        PROVE  Claims!Of(n, act, a)' = Claims!Of(n, act, a)
    BY ClaimTypesHold DEF Claims!Of
  <1>2. Claims!Of(n, "claim", a) \subseteq 1..n /\ Claims!Of(n, "approve", a) \subseteq 1..n
        /\ Claims!Of(n, "revoke", a) \subseteq 1..n
    BY DEF Claims!Of
  <1>3. \A i \in 1..n : lChain'[i] = lChain[i]
    BY ClaimTypesHold
  <1>4. ASSUME NEW c
        PROVE  Claims!Revoked(n, a, c)' <=> Claims!Revoked(n, a, c)
    BY SMTT(30), <1>1, <1>2, <1>3 DEF Claims!Revoked
  <1>5. Claims!Accepted(n, a)' <=> Claims!Accepted(n, a)
    BY <1>1, <1>2, <1>3, <1>4 DEF Claims!Accepted
  <1>6. Claims!Accredited(n, a)' <=> Claims!Accredited(n, a)
    BY <1>1 DEF Claims!Accredited
  <1> QED
    BY <1>5, <1>6 DEF Claims!CoAuthor

\* Who becomes a co-author was approved, or accredited, in between.
LEMMA MadeCoAuthor ==
    ASSUME RoutesInv, NEW m \in Nat, NEW n \in Nat, m <= n, n <= Len(lChain), NEW a,
           Claims!CoAuthor(n, a), ~Claims!CoAuthor(m, a)
    PROVE  \E j \in m + 1..n : lChain[j].who = a /\ lChain[j].act \in {"approve", "accredit"}
  <1> SUFFICES ASSUME \A j \in m + 1..n : ~(lChain[j].who = a /\ lChain[j].act \in {"approve", "accredit"})
               PROVE  Claims!CoAuthor(m, a)
    OBVIOUS
  <1>1. ASSUME NEW act \in {"approve", "accredit"}
        PROVE  Claims!Of(n, act, a) = Claims!Of(m, act, a)
    <2>1. \A i \in Claims!Of(n, act, a) : i \in 1..m
      BY <1>1 DEF Claims!Of
    <2> QED
      BY <2>1 DEF Claims!Of
  <1>2. Claims!Of(m, "revoke", a) \subseteq Claims!Of(n, "revoke", a)
          /\ Claims!Of(m, "strip", a) \subseteq Claims!Of(n, "strip", a)
    BY DEF Claims!Of
  <1>3. Claims!Accredited(m, a)
    BY <1>1, <1>2 DEF Claims!CoAuthor, Claims!Accredited
  <1>4. Claims!Accepted(m, a)
    <2>1. PICK c \in Claims!Of(n, "claim", a) :
            /\ \E j \in Claims!Of(n, "approve", a) : j > c /\ lChain[j].signer \in {lAuthor, Bridge}
            /\ ~Claims!Revoked(n, a, c)
      BY DEF Claims!CoAuthor, Claims!Accepted
    <2>2. PICK j \in Claims!Of(n, "approve", a) : j > c /\ lChain[j].signer \in {lAuthor, Bridge}
      BY <2>1
    <2>3. j \in 1..m /\ c \in 1..n
      BY <1>1, <2>1, <2>2 DEF Claims!Of
    <2>4. c \in Claims!Of(m, "claim", a)
      BY <2>1, <2>2, <2>3 DEF Claims!Of
    <2>5. ~Claims!Revoked(m, a, c)
      BY <1>1, <1>2, <2>1 DEF Claims!Revoked
    <2> QED
      BY <1>1, <2>2, <2>4, <2>5 DEF Claims!Accepted
  <1> QED
    BY <1>3, <1>4 DEF Claims!CoAuthor

\* An account with authority rose since nobody had any.
LEMMA AuthorityRises ==
    ASSUME RoutesInv, NEW a \in Claimant, Claims!Authority(a)
    PROVE  Rises(a) /\ ~Claims!Settled
  <1>1. ~Claims!CoAuthor(lClear, a) /\ Claims!CoAuthor(lHaf, a)
    BY DEF RoutesInv, Claims!Authority
  <1>2. \E j \in lClear + 1..lHaf : lChain[j].who = a /\ lChain[j].act \in {"approve", "accredit"}
    BY <1>1, ClaimTypesHold, MadeCoAuthor
  <1> QED
    BY <1>1, <1>2, ClaimTypesHold DEF Rises, Claims!Settled

LEMMA RoutesStart == Claims!Init => RoutesInv
  <1> SUFFICES ASSUME Claims!Init PROVE RoutesInv
    OBVIOUS
  <1>1. /\ lAuthor \in Paper /\ lChain = FirstOps /\ FirstOps \in Seq(Claims!Op) /\ Len(FirstOps) \in Nat
        /\ lHaf = Len(FirstOps) /\ lClear = 0 /\ lFlight = {}
    BY PartsAssumption DEF Claims!Init, Claims!RoutesAssumption
  <1>2. Claims!TypeOK
    BY <1>1, PartsAssumption DEF Claims!TypeOK, Claims!RoutesAssumption
  <1>3. \A a \in Claimant : ~Claims!CoAuthor(lClear, a)
    BY <1>1 DEF Claims!CoAuthor, Claims!Accepted, Claims!Of
  <1>4. Claims!Rooted
    BY <1>1 DEF Claims!Rooted
  <1> QED
    BY <1>1, <1>2, <1>3, <1>4 DEF RoutesInv

\* A step that sends, drops or indexes, or appends an op: once all is settled, nothing is
\* sent or signed for a co-author with the key of the bridge.
LEMMA StepKeeps ==
    ASSUME RoutesInv, lAuthor' = lAuthor,
           NEW more, \A o \in more : o \in Claims!Op /\ Rightful(o) /\ (Claims!Settled => Plain(o)),
           lFlight' \subseteq lFlight \cup more, lHaf' \in lHaf..Len(lChain),
           lClear' = IF Claims!Settled THEN Len(lChain) ELSE lClear,
           \/ lChain' = lChain
           \/ \E o \in Claims!Op : lChain' = Append(lChain, o) /\ Rightful(o) /\ (Claims!Settled => Plain(o))
    PROVE  RoutesInv'
  <1>1. /\ lChain' \in Seq(Claims!Op) /\ Len(lChain') \in Nat /\ Len(lChain) <= Len(lChain')
        /\ \A i \in 1..Len(lChain) : lChain'[i] = lChain[i]
    <2>0. lChain \in Seq(Claims!Op) /\ Len(lChain) \in Nat
      BY ClaimTypesHold
    <2>1. CASE lChain' = lChain
      BY <2>0, <2>1
    <2>2. ASSUME NEW o \in Claims!Op, lChain' = Append(lChain, o)
          PROVE  /\ lChain' \in Seq(Claims!Op) /\ Len(lChain') = Len(lChain) + 1
                 /\ \A i \in 1..Len(lChain) : lChain'[i] = lChain[i]
      BY <2>0, <2>2
    <2> QED
      BY <2>0, <2>1, <2>2
  <1>2. lClear' \in 0..Len(lChain) /\ lClear <= lClear' /\ lHaf' \in 0..Len(lChain) /\ lHaf' \in Nat
        /\ lClear' <= lHaf'
    BY ClaimTypesHold DEF Claims!Settled
  <1>3. Claims!TypeOK'
    <2>1. lFlight' \subseteq Claims!Op
      BY ClaimTypesHold
    <2>2. lAuthor' \in Paper
      BY DEF RoutesInv, Claims!TypeOK
    <2> QED
      BY <1>1, <1>2, <2>1, <2>2, ClaimTypesHold DEF Claims!TypeOK
  <1>4. \A a \in Claimant : ~Claims!CoAuthor(lClear, a)'
    <2> SUFFICES ASSUME NEW a \in Claimant PROVE ~Claims!CoAuthor(lClear, a)'
      OBVIOUS
    <2>1. PICK n : n = lClear'
      OBVIOUS
    <2>2. n \in 0..Len(lChain)
      BY <1>2, <2>1
    <2>3. ~Claims!CoAuthor(n, a)
      BY <2>1 DEF RoutesInv, Claims!Settled
    <2>4. ~Claims!CoAuthor(n, a)'
      BY <1>1, <2>2, <2>3, Said
    <2> QED
      BY <2>1, <2>4 DEF Claims!CoAuthor, Claims!Accepted, Claims!Accredited, Claims!Revoked, Claims!Of
  <1>5. \A o \in lFlight : Rightful(o) /\ (Claims!Settled => Plain(o))
    BY DEF RoutesInv, Claims!Settled
  <1>6. ASSUME NEW o, Rightful(o), Claims!Settled => Plain(o)
        PROVE  Rightful(o)'
    <2>1. CASE Claims!Settled
      BY <1>6, <2>1 DEF Rightful, Plain
    <2>2. CASE ~Claims!Settled
      <3>1. lClear' = lClear
        BY <2>2
      <3>2. Rises(o.asked) => Rises(o.asked)'
        BY <1>1, <3>1, ClaimTypesHold DEF Rises
      <3> QED
        BY <1>6, <3>2 DEF Rightful
    <2> QED
      BY <2>1, <2>2
  <1>7. \A o \in lFlight' : Rightful(o)'
    BY <1>5, <1>6
  <1>8. Claims!Rooted'
    <2> SUFFICES ASSUME NEW i \in (Len(FirstOps) + 1)..Len(lChain'),
                        lChain'[i].signer = Bridge, lChain'[i].asked # Admin
                 PROVE  /\ lChain'[i].act = "approve" /\ lChain'[i].asked # lChain'[i].who
                        /\ \E j \in (IF lClear' < i THEN lClear' + 1 ELSE 1)..(i - 1) :
                             lChain'[j].who = lChain'[i].asked /\ lChain'[j].act \in {"approve", "accredit"}
      BY DEF Claims!Rooted
    <2>1. CASE i <= Len(lChain)
      <3>1. i \in (Len(FirstOps) + 1)..Len(lChain) /\ lChain'[i] = lChain[i]
        BY <1>1, <2>1, ClaimTypesHold
      <3>2. /\ lChain[i].act = "approve" /\ lChain[i].asked # lChain[i].who
            /\ \E j \in (IF lClear < i THEN lClear + 1 ELSE 1)..(i - 1) :
                 lChain[j].who = lChain[i].asked /\ lChain[j].act \in {"approve", "accredit"}
        BY <3>1 DEF RoutesInv, Claims!Rooted
      <3>3. PICK j \in (IF lClear < i THEN lClear + 1 ELSE 1)..(i - 1) :
                 lChain[j].who = lChain[i].asked /\ lChain[j].act \in {"approve", "accredit"}
        BY <3>2
      <3>4. j \in 1..Len(lChain) /\ j <= i - 1 /\ lChain'[j] = lChain[j]
        BY <1>1, <2>1, <3>3, ClaimTypesHold
      <3>5. j \in (IF lClear' < i THEN lClear' + 1 ELSE 1)..(i - 1)
        BY <2>1, <3>3, <3>4, <1>2, ClaimTypesHold
      <3> QED
        BY <3>1, <3>2, <3>3, <3>4, <3>5
    <2>2. CASE ~(i <= Len(lChain))
      <3>1. PICK o \in Claims!Op : lChain' = Append(lChain, o) /\ Rightful(o) /\ (Claims!Settled => Plain(o))
        BY <2>2, ClaimTypesHold
      <3>2. i = Len(lChain) + 1 /\ lChain'[i] = o
        BY <2>2, <3>1, ClaimTypesHold
      <3>3. ~Claims!Settled /\ lClear' = lClear
        BY <3>1, <3>2 DEF Plain
      <3>4. o.act = "approve" /\ o.asked # o.who /\ Rises(o.asked)
        BY <3>1, <3>2 DEF Rightful
      <3>5. PICK j \in lClear + 1..Len(lChain) :
                   lChain[j].who = o.asked /\ lChain[j].act \in {"approve", "accredit"}
        BY <3>4 DEF Rises
      <3>6. lChain'[j] = lChain[j] /\ j \in (IF lClear' < i THEN lClear' + 1 ELSE 1)..(i - 1)
        BY <1>1, <3>2, <3>3, <3>5, ClaimTypesHold
      <3> QED
        BY <3>2, <3>4, <3>5, <3>6
    <2> QED
      BY <2>1, <2>2
  <1>9. Len(FirstOps) <= Len(lChain')
    BY <1>1, ClaimTypesHold
  <1> QED
    BY <1>2, <1>3, <1>4, <1>7, <1>8, <1>9 DEF RoutesInv

\* A request is let through.
LEMMA SendsKeeps ==
    ASSUME RoutesInv, lClear' = IF Claims!Settled THEN Len(lChain) ELSE lClear,
           NEW op, Claims!Sends(op), op \in Claims!Op, Rightful(op), Claims!Settled => Plain(op)
    PROVE  RoutesInv'
  <1>1. PICK more : more = {op}
    OBVIOUS
  <1>2. /\ lFlight' \subseteq lFlight \cup more /\ lAuthor' = lAuthor /\ lHaf' = lHaf /\ lChain' = lChain
        /\ \A o \in more : o \in Claims!Op /\ Rightful(o) /\ (Claims!Settled => Plain(o))
    BY <1>1 DEF Claims!Sends
  <1>3. lHaf' \in lHaf..Len(lChain)
    BY <1>2, ClaimTypesHold
  <1> QED
    BY <1>2, <1>3, StepKeeps

\* Nothing is sent.
LEMMA QuietKeeps ==
    ASSUME RoutesInv, lAuthor' = lAuthor, lFlight' \subseteq lFlight, lHaf' \in lHaf..Len(lChain),
           lClear' = IF Claims!Settled THEN Len(lChain) ELSE lClear,
           \/ lChain' = lChain
           \/ \E o \in Claims!Op : lChain' = Append(lChain, o) /\ Rightful(o) /\ (Claims!Settled => Plain(o))
    PROVE  RoutesInv'
  <1>1. PICK more : more = {}
    OBVIOUS
  <1>2. lFlight' \subseteq lFlight \cup more /\ \A o \in more : FALSE
    BY <1>1
  <1> QED
    BY <1>2, StepKeeps

\* An op is signed with a key of somebody's own.
LEMMA OwnKeeps ==
    ASSUME RoutesInv, lClear' = IF Claims!Settled THEN Len(lChain) ELSE lClear,
           NEW act \in Claims!Act, NEW a \in Claimant, NEW s \in Claimant, Claims!Lands(Claims!Made(act, a,
           s, s)),
           UNCHANGED <<lAuthor, lHaf, lFlight>>
    PROVE  RoutesInv'
  <1> DEFINE o == Claims!Made(act, a, s, s)
  <1>1. o \in Claims!Op /\ o.signer # Bridge
    BY ClaimTypesHold DEF Claims!Made, Claims!Op
  <1>2. Rightful(o) /\ Plain(o)
    BY <1>1 DEF Rightful, Plain
  <1>3. lChain' = Append(lChain, o)
    BY DEF Claims!Lands
  <1> HIDE DEF o
  <1> QED
    BY <1>1, <1>2, <1>3, QuietKeeps, ClaimTypesHold

LEMMA RoutesStep ==
    ASSUME RoutesInv, [Claims!Next]_Claims!vars
    PROVE  RoutesInv'
  <1>1. CASE UNCHANGED Claims!vars
    <2>1. /\ lAuthor' = lAuthor /\ lChain' = lChain /\ lHaf' = lHaf /\ lFlight' = lFlight /\ lClear' = lClear
      BY <1>1 DEF Claims!vars
    <2>2. Claims!TypeOK'
      BY <2>1 DEF RoutesInv, Claims!TypeOK
    <2>3. \A a : Claims!CoAuthor(lClear, a)' <=> Claims!CoAuthor(lClear, a)
      BY <2>1 DEF Claims!CoAuthor, Claims!Accepted, Claims!Accredited, Claims!Revoked, Claims!Of
    <2>4. \A o : Rightful(o) => Rightful(o)'
      BY <2>1 DEF Rightful, Rises
    <2>5. Claims!Rooted'
      BY <2>1 DEF RoutesInv, Claims!Rooted
    <2> QED
      BY <2>1, <2>2, <2>3, <2>4, <2>5 DEF RoutesInv
  <1>2. CASE Claims!Next
    <2> lClear' = IF Claims!Settled THEN Len(lChain) ELSE lClear
      BY <1>2 DEF Claims!Next
    <2>1. ASSUME NEW user \in Claimant, NEW claimer \in Claimant, Claims!Approve(user, claimer)
          PROVE  RoutesInv'
      <3>1. PICK authority \in {FALSE, Claims!Authority(user)} : Claims!Sends(Claims!Approving(user, claimer, authority))
        BY <2>1 DEF Claims!Approve
      <3>2. PICK op : op = Claims!Approving(user, claimer, authority)
        OBVIOUS
      <3>3. op # None /\ Claims!Sends(op)
        BY <3>1, <3>2 DEF Claims!Sends
      <3>4. \/ lAuthor = Bridge /\ user # claimer /\ (user = Admin \/ authority)
               /\ op = Claims!Made("approve", claimer, Bridge, user)
            \/ op = Claims!Made("approve", claimer, user, user)
        BY <3>2, <3>3 DEF Claims!Approving
      <3>5. op \in Claims!Op
        BY <3>4 DEF Claims!Made, Claims!Op, Claims!Act
      <3>6. op.signer = Bridge /\ op.asked # Admin =>
              op.act = "approve" /\ op.asked = user /\ op.who = claimer /\ user # claimer /\ authority
        BY <3>4, ClaimTypesHold DEF Claims!Made
      <3>7. authority => Rises(user) /\ ~Claims!Settled
        BY <3>1, AuthorityRises
      <3>8. Rightful(op) /\ (Claims!Settled => Plain(op))
        BY <3>6, <3>7 DEF Rightful, Plain
      <3> QED
        BY <3>3, <3>5, <3>8, SendsKeeps
    <2>2. ASSUME NEW user \in Claimant, NEW claimer \in Claimant, Claims!Revoke(user, claimer)
          PROVE  RoutesInv'
      <3>1. PICK op : op = Claims!Revoking(user, claimer)
        OBVIOUS
      <3>2. op # None /\ Claims!Sends(op)
        BY <2>2, <3>1 DEF Claims!Revoke, Claims!Sends
      <3>3. op = Claims!Made("revoke", claimer, IF user = Admin /\ lAuthor = Bridge THEN Bridge ELSE user, user)
        BY <3>1, <3>2 DEF Claims!Revoking
      <3>4. op \in Claims!Op /\ (op.signer = Bridge => op.asked = Admin)
        BY <3>3, ClaimTypesHold DEF Claims!Made, Claims!Op, Claims!Act
      <3>5. Rightful(op) /\ Plain(op)
        BY <3>4 DEF Rightful, Plain
      <3> QED
        BY <3>2, <3>4, <3>5, SendsKeeps
    <2>3. ASSUME NEW o \in lFlight, Claims!Land(o)
          PROVE  RoutesInv'
      <3>1. ~Claims!Settled /\ Rightful(o) /\ o \in Claims!Op
        BY ClaimTypesHold DEF RoutesInv, Claims!Settled
      <3>2. /\ lChain' = Append(lChain, o) /\ lAuthor' = lAuthor /\ lHaf' = lHaf
            /\ lFlight' \subseteq lFlight
        BY <2>3 DEF Claims!Land, Claims!Lands
      <3> QED
        BY <3>1, <3>2, QuietKeeps, ClaimTypesHold
    <2>4. ASSUME NEW o \in lFlight, Claims!Drop(o)
          PROVE  RoutesInv'
      <3>1. lChain' = lChain /\ lAuthor' = lAuthor /\ lHaf' = lHaf /\ lFlight' \subseteq lFlight
        BY <2>4 DEF Claims!Drop
      <3> QED
        BY <3>1, QuietKeeps, ClaimTypesHold
    <2>5. ASSUME NEW a \in Claimant, Claims!Claim(a)
          PROVE  RoutesInv'
      BY <2>5, OwnKeeps DEF Claims!Claim, Claims!Act
    <2>6. ASSUME NEW a \in Claimant, Claims!Resign(a)
          PROVE  RoutesInv'
      BY <2>6, OwnKeeps DEF Claims!Resign, Claims!Act
    <2>7. ASSUME NEW a \in Claimant, NEW act \in {"accredit", "strip"}, Claims!Govern(act, a)
          PROVE  RoutesInv'
      BY <2>7, OwnKeeps, ClaimTypesHold DEF Claims!Govern, Claims!Act
    <2>8. ASSUME Claims!Index
          PROVE  RoutesInv'
      <3>1. lChain' = lChain /\ lAuthor' = lAuthor /\ lFlight' \subseteq lFlight /\ lHaf' = lHaf + 1
            /\ lHaf < Len(lChain)
        BY <2>8 DEF Claims!Index
      <3> QED
        BY <3>1, QuietKeeps, ClaimTypesHold
    <2> QED
      BY <1>2, <2>1, <2>2, <2>3, <2>4, <2>5, <2>6, <2>7, <2>8 DEF Claims!Next
  <1> QED
    BY <1>1, <1>2

\* The routes keep the invariant.
THEOREM RoutesInvariant == Claims!Spec => []RoutesInv
  <1>1. Claims!Init => RoutesInv
    BY RoutesStart
  <1>2. RoutesInv /\ [Claims!Next]_Claims!vars => RoutesInv'
    BY RoutesStep
  <1> QED
    BY <1>1, <1>2, PTL DEF Claims!Spec

THEOREM RoutesTyped == Claims!Spec => []Claims!TypeOK
  <1>1. RoutesInv => Claims!TypeOK
    BY DEF RoutesInv
  <1> QED
    BY <1>1, RoutesInvariant, PTL

THEOREM ClaimsHold == Claims!Spec => []ClaimsRooted
  <1>1. RoutesInv => ClaimsRooted
    BY DEF ClaimsRooted, RoutesInv
  <1> QED
    BY <1>1, RoutesInvariant, PTL

(***************************************************************************)
(* The feed and the digest.                                                *)
(***************************************************************************)

(***************************************************************************)
(* The inductive invariant.                                                *)
(***************************************************************************)

\* What lies up to block n was shown, or mailed, or is excused.
Told(n) == \A e \in Tidings!Events(0) : e[1] <= n => e \in nGot.feed \cup nExcused.feed
Mailed(n) == \A e \in Tidings!Events(0) : e[1] <= n => e \in nGot.mail \cup nExcused.mail

\* A window of the chain lacks nothing before what it holds, but for the members of S.
Below(W) == \A e \in W : e[1] <= Len(nChain)
Whole(W, S) == \A e \in Tidings!Events(0), f \in W : e[1] <= f[1] => e \in W \cup S

\* The cursor of the feed, and those that polls were sent with, have passed nothing.
FeedInv ==
  /\ Told(nCursor) /\ \A t \in Tab : nPoll[t] # None => Told(nPoll[t])
  /\ nCached # None => Below(nCached) /\ Whole(nCached, nExcused.feed)

\* Nor has the cursor of the digest, and the run under way will not when it ends.
MailInv ==
  /\ nPrefs.last > 0 => Mailed(nPrefs.last)
  /\ nRun.pc # "idle" => nRun.news # {} /\ Below(nRun.news) /\ Whole(nRun.news, nGot.mail \cup nExcused.mail)
  /\ nRun.pc = "advance" => nRun.news \subseteq nGot.mail

\* While nothing fails what was mailed lies behind the cursor, or will when the run ends.
OnceInv ==
  /\ ~nGot.twice
  /\ nFaults = 0 =>
       /\ nRun.pc = "idle" => \A e \in nGot.since : e[1] <= nPrefs.last
       /\ nRun.pc = "send" => \A e \in nGot.since, f \in nRun.news : e[1] < f[1]
       /\ nRun.pc = "advance" => \A e \in nGot.since : \E f \in nRun.news : e[1] <= f[1]

NoticesInv == Tidings!TypeOK /\ FeedInv /\ MailInv /\ OnceInv

(***************************************************************************)
(* Numbers of blocks.                                                      *)
(***************************************************************************)

\* A non-empty set of numbers has a least member, which Min picks.
LEMMA LeastExists ==
    ASSUME NEW T \in SUBSET Nat, T # {}
    PROVE  \E x \in T : \A y \in T : x <= y
  <1> DEFINE R == OpToRel(<, Nat)
  <1>1. IsWellFoundedOn(R, Nat)
    BY NatLessThanWellFounded
  <1>2. \A x, y \in Nat : x < y => <<x, y>> \in R
    BY DEF OpToRel
  <1> HIDE DEF R
  <1>3. PICK x \in T : \A y \in T : ~(<<y, x>> \in R)
    BY <1>1, WFMin
  <1>4. \A y \in T : ~(y < x)
    BY <1>2, <1>3
  <1> QED
    BY <1>3, <1>4

LEMMA MinHolds ==
    ASSUME NEW T \in SUBSET Nat, T # {}
    PROVE  Tidings!Min(T) \in T /\ \A y \in T : Tidings!Min(T) <= y
  BY LeastExists DEF Tidings!Min

\* A non-empty bounded set of numbers has a greatest member, which Max picks.
LEMMA MaxHolds ==
    ASSUME NEW n \in Nat, NEW T \in SUBSET (0..n), T # {}
    PROVE  Tidings!Max(T) \in T /\ \A y \in T : y <= Tidings!Max(T)
  <1> DEFINE U == {n - y : y \in T}
  <1>1. U \in SUBSET Nat
    OBVIOUS
  <1>2. U # {}
    OBVIOUS
  <1>3. PICK u \in U : \A v \in U : u <= v
    BY <1>1, <1>2, LeastExists
  <1>4. PICK x \in T : u = n - x
    OBVIOUS
  <1>5. \A y \in T : y <= x
    <2> SUFFICES ASSUME NEW y \in T PROVE y <= x
      OBVIOUS
    <2>1. u <= n - y
      BY <1>3
    <2> QED
      BY <1>4, <2>1
  <1>6. \E z \in T : \A y \in T : z >= y
    BY <1>4, <1>5
  <1> QED
    BY <1>6 DEF Tidings!Max

\* The least and the greatest of a set are so of every part of it that has them.
LEMMA MinStays ==
    ASSUME NEW T \in SUBSET Nat, NEW U \in SUBSET T, Tidings!Min(T) \in U
    PROVE  Tidings!Min(U) = Tidings!Min(T)
  <1>1. /\ Tidings!Min(T) \in T /\ \A y \in T : Tidings!Min(T) <= y
        /\ Tidings!Min(U) \in U /\ \A y \in U : Tidings!Min(U) <= y
    BY MinHolds
  <1>2. Tidings!Min(T) \in Nat /\ Tidings!Min(U) \in Nat /\ Tidings!Min(U) <= Tidings!Min(T)
          /\ Tidings!Min(T) <= Tidings!Min(U)
    BY <1>1
  <1> QED
    BY <1>2

LEMMA MaxStays ==
    ASSUME NEW n \in Nat, NEW T \in SUBSET (0..n), NEW U \in SUBSET T, Tidings!Max(T) \in U
    PROVE  Tidings!Max(U) = Tidings!Max(T)
  <1>1. /\ Tidings!Max(T) \in T /\ \A y \in T : y <= Tidings!Max(T)
        /\ Tidings!Max(U) \in U /\ \A y \in U : y <= Tidings!Max(U)
    BY MaxHolds
  <1>2. Tidings!Max(U) \in T
    BY <1>1
  <1>3. \A y \in T : y \in Nat
    OBVIOUS
  <1>4. Tidings!Max(T) \in Nat /\ Tidings!Max(U) \in Nat /\ Tidings!Max(U) <= Tidings!Max(T)
          /\ Tidings!Max(T) <= Tidings!Max(U)
    BY <1>1, <1>2, <1>3
  <1> QED
    BY <1>4

(***************************************************************************)
(* The events.                                                             *)
(***************************************************************************)

\* The window begins in the chain.
LEMMA NoticeFloorHolds ==
    ASSUME Tidings!TypeOK
    PROVE  Tidings!WindowFloor \in 0..Len(nChain) /\ Tidings!WindowFloor \in Nat /\ Len(nChain) \in Nat
             /\ nHead \in Nat
  <1>1. Len(nChain) \in Nat /\ nHead \in 0..Len(nChain) /\ Window \in Nat
    BY PartsAssumption DEF Tidings!TypeOK, Tidings!NotificationsAssumption
  <1>2. CASE nHead > 0
    <2>1. CASE nHead - Window >= 0
      <3>1. {0, nHead - Window} \in SUBSET (0..Len(nChain)) /\ {0, nHead - Window} # {}
        BY <1>1, <2>1
      <3>2. Tidings!Max({0, nHead - Window}) \in {0, nHead - Window}
        BY <1>1, <3>1, MaxHolds
      <3> QED
        BY <1>1, <1>2, <2>1, <3>2 DEF Tidings!WindowFloor
    <2>2. CASE ~(nHead - Window >= 0)
      <3>1. \A z \in {0, nHead - Window} : (\A y \in {0, nHead - Window} : z >= y) <=> z = 0
        BY <1>1, <2>2
      <3>2. Tidings!Max({0, nHead - Window}) = 0
        BY <3>1 DEF Tidings!Max
      <3> QED
        BY <1>1, <1>2, <3>2 DEF Tidings!WindowFloor
    <2> QED
      BY <2>1, <2>2
  <1>3. CASE ~(nHead > 0)
    BY <1>1, <1>3 DEF Tidings!WindowFloor
  <1> QED
    BY <1>1, <1>2, <1>3

\* The blocks of a topic above a floor.
LEMMA BlocksHold ==
    ASSUME Tidings!TypeOK, NEW low \in Nat, NEW k
    PROVE  /\ Tidings!Blocks(k, low) \in SUBSET (0..Len(nChain)) /\ Tidings!Blocks(k, low) \in SUBSET Nat
           /\ \A b \in Tidings!Blocks(k, low) : b \in 1..Len(nChain) /\ b > low
           /\ Tidings!Blocks(k, low) = {b \in Tidings!Blocks(k, 0) : b > low}
  BY DEF Tidings!TypeOK, Tidings!Blocks

\* An event lies in the chain, above the floor.
LEMMA EventsHold ==
    ASSUME Tidings!TypeOK, NEW low \in Nat, NEW e \in Tidings!Events(low)
    PROVE  e \in Tidings!Event /\ e[1] \in 1..Len(nChain) /\ e[1] > low
  <1>0. Len(nChain) \in Nat /\ Len(nChain) <= MaxBlock /\ MaxBlock \in Nat
    BY PartsAssumption DEF Tidings!TypeOK, Tidings!NotificationsAssumption
  <1>1. \E k \in Tidings!Topic : \E b \in Tidings!Blocks(k, low) : e = <<b, k>>
    <2>1. CASE e \in Tidings!Firsts(low)
      <3>1. PICK k \in Post : Tidings!Blocks(k, low) # {} /\ e = <<Tidings!Min(Tidings!Blocks(k, low)), k>>
        BY <2>1 DEF Tidings!Firsts, Tidings!Shown
      <3>2. Tidings!Min(Tidings!Blocks(k, low)) \in Tidings!Blocks(k, low)
        BY <3>1, BlocksHold, MinHolds
      <3> QED
        BY <3>1, <3>2 DEF Tidings!Topic
    <2>2. CASE e \in Tidings!Votes(low)
      <3>1. PICK k \in Vote : Tidings!Blocks(k, low) # {} /\ e = <<Tidings!Max(Tidings!Blocks(k, low)), k>>
        BY <2>2 DEF Tidings!Votes, Tidings!Shown
      <3>2. Tidings!Max(Tidings!Blocks(k, low)) \in Tidings!Blocks(k, low)
        BY <1>0, <3>1, BlocksHold, MaxHolds
      <3> QED
        BY <3>1, <3>2 DEF Tidings!Topic
    <2>3. CASE e \in Tidings!Notices(low)
      BY <2>3 DEF Tidings!Notices, Tidings!Topic
    <2> QED
      BY <2>1, <2>2, <2>3 DEF Tidings!Events
  <1>2. PICK k \in Tidings!Topic : \E b \in Tidings!Blocks(k, low) : e = <<b, k>>
    BY <1>1
  <1>3. PICK b \in Tidings!Blocks(k, low) : e = <<b, k>>
    BY <1>2
  <1>4. b \in 1..Len(nChain) /\ b > low
    BY BlocksHold
  <1> QED
    BY <1>0, <1>3, <1>4 DEF Tidings!Event

\* A block adds events of its own only: an edit is silent, and a vote moves to it.
LEMMA BlockAdds ==
    ASSUME Tidings!TypeOK, NEW ops \in Tidings!Ops, nChain' = Append(nChain, ops), NEW e \in Tidings!Events(0)'
    PROVE  e \in Tidings!Events(0) \/ e[1] = Len(nChain) + 1
  <1>0. /\ Len(nChain) \in Nat /\ nChain \in Seq(Tidings!Ops) /\ nChain' \in Seq(Tidings!Ops)
             /\ Len(nChain') = Len(nChain) + 1
        /\ \A b \in DOMAIN nChain : nChain'[b] = nChain[b]
        /\ DOMAIN nChain = 1..Len(nChain) /\ DOMAIN nChain' = 1..(Len(nChain) + 1)
    BY DEF Tidings!TypeOK
  <1>1. ASSUME NEW k
        PROVE  /\ Tidings!Blocks(k, 0) \in SUBSET Nat /\ Tidings!Blocks(k, 0)' \in SUBSET Nat
               /\ Tidings!Blocks(k, 0)' \in SUBSET (0..(Len(nChain) + 1)) /\ Len(nChain) + 1 \in Nat
               /\ Tidings!Blocks(k, 0) \in SUBSET (Tidings!Blocks(k, 0)')
               /\ \A b \in Tidings!Blocks(k, 0)' : b # Len(nChain) + 1 => b \in Tidings!Blocks(k, 0)
               /\ \A b \in Tidings!Blocks(k, 0) : nChain'[b] = nChain[b]
    BY <1>0 DEF Tidings!Blocks
  <1>2. CASE e \in Tidings!Firsts(0)'
    <2>1. PICK k \in Post : Tidings!Blocks(k, 0)' # {} /\ e = <<Tidings!Min(Tidings!Blocks(k, 0)'), k>>
      BY <1>2 DEF Tidings!Firsts, Tidings!Shown
    <2> DEFINE m == Tidings!Min(Tidings!Blocks(k, 0)')
    <2>2. m \in Tidings!Blocks(k, 0)'
      BY <1>1, <2>1, MinHolds
    <2>3. CASE m # Len(nChain) + 1
      <3>1. m \in Tidings!Blocks(k, 0)
        BY <1>1, <2>2, <2>3
      <3>2. Tidings!Min(Tidings!Blocks(k, 0)) = m
        BY <1>1, <3>1, MinStays
      <3> QED
        BY <2>1, <3>1, <3>2 DEF Tidings!Events, Tidings!Firsts, Tidings!Shown
    <2> QED
      BY <2>1, <2>3
  <1>3. CASE e \in Tidings!Votes(0)'
    <2>1. PICK k \in Vote : /\ Tidings!Blocks(k, 0)' # {} /\ e = <<Tidings!Max(Tidings!Blocks(k, 0)'), k>>
                            /\ nChain'[Tidings!Max(Tidings!Blocks(k, 0)')][k] # 0
      BY <1>3 DEF Tidings!Votes, Tidings!Shown
    <2> DEFINE m == Tidings!Max(Tidings!Blocks(k, 0)')
    <2>2. m \in Tidings!Blocks(k, 0)'
      BY <1>1, <2>1, MaxHolds
    <2>3. CASE m # Len(nChain) + 1
      <3>1. m \in Tidings!Blocks(k, 0)
        BY <1>1, <2>2, <2>3
      <3>2. Tidings!Max(Tidings!Blocks(k, 0)) = m
        BY <1>1, <3>1, MaxStays
      <3>3. nChain[m][k] # 0
        BY <1>1, <2>1, <3>1
      <3> QED
        BY <2>1, <3>1, <3>2, <3>3 DEF Tidings!Events, Tidings!Votes, Tidings!Shown
    <2> QED
      BY <2>1, <2>3
  <1>4. CASE e \in Tidings!Notices(0)'
    <2>1. PICK k \in Notice : \E b \in Tidings!Blocks(k, 0)' : e = <<b, k>>
      BY <1>4 DEF Tidings!Notices
    <2>2. PICK b \in Tidings!Blocks(k, 0)' : e = <<b, k>>
      BY <2>1
    <2> QED
      BY <1>1, <2>2 DEF Tidings!Events, Tidings!Notices
  <1> QED
    BY <1>2, <1>3, <1>4 DEF Tidings!Events

\* What happened above a floor is an event of the window that begins there.
LEMMA AboveFloor ==
    ASSUME Tidings!TypeOK, NEW low \in Nat, NEW e \in Tidings!Events(0), e[1] > low
    PROVE  e \in Tidings!Events(low)
  <1>0. Len(nChain) \in Nat
    BY DEF Tidings!TypeOK
  <1>1. CASE e \in Tidings!Firsts(0)
    <2>1. PICK k \in Post : Tidings!Blocks(k, 0) # {} /\ e = <<Tidings!Min(Tidings!Blocks(k, 0)), k>>
      BY <1>1 DEF Tidings!Firsts, Tidings!Shown
    <2>2. Tidings!Min(Tidings!Blocks(k, 0)) \in Tidings!Blocks(k, low)
            /\ Tidings!Blocks(k, low) \in SUBSET Tidings!Blocks(k, 0)
      BY <2>1, BlocksHold, MinHolds
    <2>3. Tidings!Min(Tidings!Blocks(k, low)) = Tidings!Min(Tidings!Blocks(k, 0))
      BY <2>2, BlocksHold, MinStays
    <2> QED
      BY <2>1, <2>2, <2>3 DEF Tidings!Events, Tidings!Firsts, Tidings!Shown
  <1>2. CASE e \in Tidings!Votes(0)
    <2>1. PICK k \in Vote : /\ Tidings!Blocks(k, 0) # {} /\ e = <<Tidings!Max(Tidings!Blocks(k, 0)), k>>
                            /\ nChain[Tidings!Max(Tidings!Blocks(k, 0))][k] # 0
      BY <1>2 DEF Tidings!Votes, Tidings!Shown
    <2>2. Tidings!Max(Tidings!Blocks(k, 0)) \in Tidings!Blocks(k, low)
            /\ Tidings!Blocks(k, low) \in SUBSET Tidings!Blocks(k, 0)
      BY <1>0, <2>1, BlocksHold, MaxHolds
    <2>3. Tidings!Max(Tidings!Blocks(k, low)) = Tidings!Max(Tidings!Blocks(k, 0))
      BY <1>0, <2>2, BlocksHold, MaxStays
    <2> QED
      BY <2>1, <2>2, <2>3 DEF Tidings!Events, Tidings!Votes, Tidings!Shown
  <1>3. CASE e \in Tidings!Notices(0)
    <2>1. PICK k \in Notice : \E b \in Tidings!Blocks(k, 0) : e = <<b, k>>
      BY <1>3 DEF Tidings!Notices
    <2>2. PICK b \in Tidings!Blocks(k, 0) : e = <<b, k>>
      BY <2>1
    <2>3. b \in Tidings!Blocks(k, low)
      BY <2>2, BlocksHold
    <2> QED
      BY <2>2, <2>3 DEF Tidings!Events, Tidings!Notices
  <1> QED
    BY <1>1, <1>2, <1>3 DEF Tidings!Events

(***************************************************************************)
(* Windows and pages.                                                      *)
(***************************************************************************)

\* The instance has a copy of the standard operators of its own.
LEMMA EventCardinality ==
    /\ \A S : Tidings!Cardinality(S) = Cardinality(S)
    /\ \A S : Tidings!IsFiniteSet(S) = IsFiniteSet(S)
  BY DEF Tidings!Cardinality, Cardinality, Tidings!IsFiniteSet, IsFiniteSet

\* Sets of events are finite.
LEMMA Finite ==
    ASSUME NEW S \in SUBSET Tidings!Event
    PROVE  IsFiniteSet(S) /\ Cardinality(S) \in Nat
  <1>1. IsFiniteSet(1..MaxBlock) /\ IsFiniteSet(Tidings!Topic)
    BY SMTT(30), PartsAssumption, FS_Interval, EventCardinality DEF Tidings!NotificationsAssumption
  <1>2. IsFiniteSet(Tidings!Event)
    BY <1>1, FS_Product DEF Tidings!Event
  <1> QED
    BY <1>2, FS_Subset, FS_CardinalityType

LEMMA Fewer ==
    ASSUME NEW S \in SUBSET Tidings!Event, NEW T \in SUBSET S
    PROVE  Cardinality(T) <= Cardinality(S) /\ Cardinality(T) \in Nat /\ Cardinality(S) \in Nat
  BY Finite, FS_Subset

\* The blocks of events.
LEMMA Numbered ==
    ASSUME NEW e \in Tidings!Event
    PROVE  e[1] \in 1..MaxBlock /\ e[1] \in Nat /\ e[1] >= 1
  BY PartsAssumption DEF Tidings!Event, Tidings!NotificationsAssumption

\* A page has whole blocks, the first first.
LEMMA PageWhole ==
    ASSUME NEW S \in SUBSET Tidings!Event, NEW f \in Tidings!Page(S), NEW e \in S, e[1] <= f[1]
    PROVE  e \in Tidings!Page(S)
  <1>0. f \in S /\ e[1] \in Nat /\ f[1] \in Nat /\ \A g \in S : g[1] \in Nat
    BY Numbered DEF Tidings!Page
  <1>1. CASE \A g \in S : g[1] >= f[1]
    <2>1. \A g \in S : g[1] >= e[1]
      BY <1>0, <1>1
    <2> QED
      BY <2>1 DEF Tidings!Page
  <1>2. CASE Cardinality({g \in S : g[1] <= f[1]}) <= Limit
    <2>1. {g \in S : g[1] <= e[1]} \in SUBSET {g \in S : g[1] <= f[1]}
      BY <1>0
    <2>2. Cardinality({g \in S : g[1] <= e[1]}) <= Cardinality({g \in S : g[1] <= f[1]})
          /\ Cardinality({g \in S : g[1] <= e[1]}) \in Nat /\ Cardinality({g \in S : g[1] <= f[1]}) \in Nat
      BY <2>1, Fewer
    <2>3. Cardinality({g \in S : g[1] <= e[1]}) <= Limit
      BY <1>2, <2>2, PartsAssumption DEF Tidings!NotificationsAssumption
    <2> QED
      BY SMTT(30), <2>3, EventCardinality DEF Tidings!Page
  <1> QED
    BY SMTT(30), <1>1, <1>2, EventCardinality DEF Tidings!Page

\* The window of the digest has whole blocks, the oldest first.
LEMMA OldestWhole ==
    ASSUME Tidings!TypeOK, NEW low \in Nat, NEW f \in Tidings!FetchEvents(low, "asc"),
           NEW e \in Tidings!Events(low), e[1] <= f[1]
    PROVE  e \in Tidings!FetchEvents(low, "asc")
  <1> DEFINE S == Tidings!Events(low)
  <1>1. S \in SUBSET Tidings!Event
    BY EventsHold
  <1>2. f \in S /\ e \in S /\ e[1] \in Nat /\ f[1] \in Nat /\ \A g \in S : g[1] \in Nat
    BY <1>1, Numbered DEF Tidings!FetchEvents
  <1>3. Tidings!Beyond(e, S, "asc") \in SUBSET Tidings!Beyond(f, S, "asc")
          /\ Tidings!Beyond(f, S, "asc") \in SUBSET Tidings!Event
    BY <1>1, <1>2 DEF Tidings!Beyond
  <1>4. Cardinality(Tidings!Beyond(f, S, "asc")) <= FetchCap
    BY SMTT(30), EventCardinality DEF Tidings!FetchEvents
  <1> HIDE DEF S
  <1>5. Cardinality(Tidings!Beyond(e, S, "asc")) <= FetchCap
    BY <1>3, <1>4, Fewer, PartsAssumption DEF Tidings!NotificationsAssumption
  <1> QED
    BY SMTT(30), <1>5, EventCardinality DEF Tidings!FetchEvents, S

\* What the window of the feed lacks is excused.
LEMMA NewestOrMore ==
    ASSUME Tidings!TypeOK, NEW low \in Nat, NEW e \in Tidings!Events(low),
           e \notin Tidings!FetchEvents(low, "desc")
    PROVE  Cardinality(Tidings!Beyond(e, Tidings!Events(low), "desc")) > FetchCap
  <1> DEFINE B == Tidings!Beyond(e, Tidings!Events(low), "desc")
  <1>1. B \in SUBSET Tidings!Event
    BY EventsHold DEF Tidings!Beyond
  <1>2. Cardinality(B) \in Nat
    BY <1>1, Finite
  <1>3. ~(Cardinality(B) <= FetchCap)
    BY SMTT(30), EventCardinality DEF Tidings!FetchEvents
  <1> HIDE DEF B
  <1>4. Cardinality(B) > FetchCap
    BY <1>2, <1>3, PartsAssumption DEF Tidings!NotificationsAssumption
  <1> QED
    BY <1>4 DEF B

\* The last block of some events.
LEMMA LastBlock ==
    ASSUME NEW S \in SUBSET Tidings!Event, S # {}
    PROVE  /\ Tidings!Max({e[1] : e \in S}) \in Nat /\ \A e \in S : e[1] <= Tidings!Max({g[1] : g \in S})
           /\ \E f \in S : f[1] = Tidings!Max({e[1] : e \in S})
  <1> DEFINE T == {e[1] : e \in S}
  <1>1. T \in SUBSET (0..MaxBlock) /\ T # {}
    BY Numbered, PartsAssumption DEF Tidings!NotificationsAssumption
  <1> HIDE DEF T
  <1>2. Tidings!Max(T) \in T /\ \A y \in T : y <= Tidings!Max(T)
    BY <1>1, MaxHolds, PartsAssumption DEF Tidings!NotificationsAssumption
  <1>3. \A e \in S : e[1] \in T
    BY DEF T
  <1>4. \E f \in S : f[1] = Tidings!Max(T)
    BY <1>2 DEF T
  <1>5. \A y \in T : y \in Nat
    BY <1>1
  <1>6. Tidings!Max(T) \in Nat
    BY <1>2, <1>5
  <1>7. \A e \in S : e[1] <= Tidings!Max(T)
    BY <1>2, <1>3
  <1> QED
    BY <1>4, <1>6, <1>7 DEF T

(***************************************************************************)
(* What several steps have in common.                                      *)
(***************************************************************************)

\* Without a new block the events are the same.
LEMMA EventsStay ==
    ASSUME UNCHANGED nChain
    PROVE  Tidings!Events(0)' = Tidings!Events(0) /\ Len(nChain)' = Len(nChain)
  BY DEF Tidings!Events, Tidings!Firsts, Tidings!Votes, Tidings!Notices, Tidings!Shown, Tidings!Blocks

\* The records of the account.
LEMMA FieldsHold ==
    ASSUME Tidings!TypeOK
    PROVE  /\ nPrefs.on \in BOOLEAN /\ nPrefs.last \in 0..Len(nChain) /\ nPrefs.last \in Nat
           /\ nRun.pc \in {"idle", "send", "advance"} /\ nRun.news \in SUBSET Tidings!Event
           /\ nGot.feed \in SUBSET Tidings!Event /\ nGot.mail \in SUBSET Tidings!Event /\ nGot.since \in SUBSET Tidings!Event
           /\ nGot.twice \in BOOLEAN
           /\ nExcused.feed \in SUBSET Tidings!Event /\ nExcused.mail \in SUBSET Tidings!Event
           /\ Len(nChain) \in Nat /\ Len(nChain) <= MaxBlock /\ MaxBlock \in Nat /\ nCursor \in 0..Len(nChain)
           /\ nFaults \in Nat /\ MaxNoticeFaults \in Nat /\ nHead \in 0..Len(nChain) /\ nHead \in Nat
           /\ Tidings!IdleRun \in Tidings!Run /\ Tidings!IdleRun.pc = "idle"
  BY PartsAssumption DEF Tidings!TypeOK, Tidings!NotificationsAssumption, Tidings!IdleRun, Tidings!Run,
     Tidings!Given, Tidings!Excuse

\* What was told stays told.
LEMMA StaysTold ==
    ASSUME UNCHANGED nChain, nGot.feed \subseteq nGot'.feed, nExcused.feed \subseteq nExcused'.feed, NEW n,
           Told(n)
    PROVE  Told(n)'
  BY EventsStay DEF Told

LEMMA StaysMailed ==
    ASSUME UNCHANGED nChain, nGot.mail \subseteq nGot'.mail, nExcused.mail \subseteq nExcused'.mail, NEW n,
           Mailed(n)
    PROVE  Mailed(n)'
  BY EventsStay DEF Mailed

\* Steps that do not touch the feed, the digest, or what was mailed since it was enabled.
LEMMA FeedKept ==
    ASSUME FeedInv, UNCHANGED <<nChain, nCached, nCursor, nPoll>>, nGot'.feed = nGot.feed,
                                nExcused'.feed = nExcused.feed
    PROVE  FeedInv'
  <1>1. Told(nCursor)'
    BY StaysTold DEF FeedInv
  <1>2. ASSUME NEW t \in Tab, nPoll'[t] # None
        PROVE  Told(nPoll[t])'
    BY <1>2, StaysTold DEF FeedInv
  <1>3. nCached # None => Below(nCached)' /\ Whole(nCached, nExcused.feed)'
    BY EventsStay DEF FeedInv, Below, Whole
  <1> QED
    BY <1>1, <1>2, <1>3 DEF FeedInv

LEMMA MailKept ==
    ASSUME MailInv, UNCHANGED <<nChain, nPrefs, nRun>>, nGot.mail \subseteq nGot'.mail,
                                nExcused.mail \subseteq nExcused'.mail
    PROVE  MailInv'
  <1>1. nPrefs.last > 0 => Mailed(nPrefs.last)'
    BY StaysMailed DEF MailInv
  <1>2. nRun.pc # "idle" => nRun.news # {} /\ Below(nRun.news)'
          /\ Whole(nRun.news, nGot.mail \cup nExcused.mail)'
    BY EventsStay DEF MailInv, Below, Whole
  <1>3. nRun.pc = "advance" => nRun.news \subseteq nGot'.mail
    BY DEF MailInv
  <1> QED
    BY <1>1, <1>2, <1>3 DEF MailInv

LEMMA OnceKept ==
    ASSUME OnceInv, UNCHANGED <<nPrefs, nRun, nFaults>>, nGot'.since = nGot.since, nGot'.twice = nGot.twice
    PROVE  OnceInv'
  BY DEF OnceInv

(***************************************************************************)
(* The feed.                                                               *)
(***************************************************************************)

LEMMA PollStep ==
    ASSUME NoticesInv, NEW t \in Tab, Tidings!Poll(t)
    PROVE  NoticesInv'
  <1>1. nPoll' = [nPoll EXCEPT ![t] = nCursor] /\ UNCHANGED <<nChain, nHead, nCached, nCursor, nPrefs,
                                                              nRun, nFaults, nGot, nExcused>>
    BY DEF Tidings!Poll
  <1>2. nPoll \in [Tab -> 0..Len(nChain) \cup {None}] /\ nCursor \in 0..Len(nChain)
    BY DEF NoticesInv, Tidings!TypeOK
  <1>3. Tidings!TypeOK'
    BY <1>1, <1>2 DEF NoticesInv, Tidings!TypeOK
  <1>4. FeedInv'
    <2>1. Told(nCursor)'
      BY <1>1, StaysTold DEF NoticesInv, FeedInv
    <2>2. ASSUME NEW u \in Tab, nPoll'[u] # None
          PROVE  Told(nPoll[u])'
      <3>1. PICK n : n = nPoll'[u]
        OBVIOUS
      <3>2. Told(n)
        BY <1>1, <1>2, <2>2, <3>1 DEF NoticesInv, FeedInv
      <3>3. Told(n)'
        BY <1>1, <3>2, StaysTold
      <3> QED
        BY <3>1, <3>3
    <2>3. nCached # None => Below(nCached)' /\ Whole(nCached, nExcused.feed)'
      BY <1>1, EventsStay DEF NoticesInv, FeedInv, Below, Whole
    <2> QED
      BY <1>1, <2>1, <2>2, <2>3 DEF FeedInv
  <1> QED
    BY <1>1, <1>3, <1>4, MailKept, OnceKept DEF NoticesInv

\* The window an answer is cut from, kept for a minute or read anew, lacks nothing before
\* what it holds but what is excused with the answer.
LEMMA WindowServed ==
    ASSUME NoticesInv, NEW window \in ({nCached} \ {None}) \cup {Tidings!FetchEvents(Tidings!WindowFloor,
           "desc")}
    PROVE  /\ window \in SUBSET Tidings!Event /\ Below(window)
           /\ Whole(window, nExcused.feed \cup Tidings!Passed)
  <1>1. CASE window = nCached /\ nCached # None
    BY <1>1 DEF NoticesInv, Tidings!TypeOK, FeedInv, Whole
  <1>2. CASE window = Tidings!FetchEvents(Tidings!WindowFloor, "desc")
    <2>1. Tidings!WindowFloor \in Nat /\ Tidings!TypeOK
      BY NoticeFloorHolds DEF NoticesInv
    <2>2. window \in SUBSET Tidings!Event /\ Below(window)
      BY <1>2, <2>1, EventsHold, FieldsHold DEF Tidings!FetchEvents, Below
    <2>3. ASSUME NEW e \in Tidings!Events(0), e \notin window, ~(e[1] <= Tidings!WindowFloor)
          PROVE  Cardinality(Tidings!Beyond(e, Tidings!Events(Tidings!WindowFloor), "desc")) > FetchCap
      <3>1. e[1] > Tidings!WindowFloor
        BY <2>1, <2>3, EventsHold
      <3>2. e \in Tidings!Events(Tidings!WindowFloor)
        BY <2>1, <3>1, AboveFloor
      <3> QED
        BY <1>2, <2>1, <2>3, <3>2, NewestOrMore
    <2> QED
      BY SMTT(30), <2>2, <2>3, EventCardinality DEF Whole, Tidings!Passed
  <1> QED
    BY <1>1, <1>2

LEMMA AnswerStep ==
    ASSUME NoticesInv, NEW t \in Tab, Tidings!Answer(t)
    PROVE  NoticesInv'
  <1>1. /\ nPoll[t] # None /\ nPoll' = [nPoll EXCEPT ![t] = None] /\ UNCHANGED <<nChain, nHead, nPrefs, nRun>>
        /\ nPoll \in [Tab -> 0..Len(nChain) \cup {None}] /\ nPoll[t] \in 0..Len(nChain)
    BY DEF Tidings!Answer, NoticesInv, Tidings!TypeOK
  <1>2. CASE Tidings!Fault /\ UNCHANGED <<nCached, nCursor, nGot, nExcused>>
    <2>1. nFaults' \in 0..MaxNoticeFaults /\ nFaults' # 0 /\ nFaults' = nFaults + 1
      BY <1>2, FieldsHold DEF Tidings!Fault, NoticesInv
    <2>2. Tidings!TypeOK'
      BY <1>1, <1>2, <2>1 DEF NoticesInv, Tidings!TypeOK
    <2>3. FeedInv'
      <3>1. Told(nCursor)'
        BY <1>1, <1>2, StaysTold DEF NoticesInv, FeedInv
      <3>2. ASSUME NEW u \in Tab, nPoll'[u] # None
            PROVE  nPoll'[u] = nPoll[u] /\ Told(nPoll[u])'
        BY <1>1, <1>2, <3>2, StaysTold DEF NoticesInv, FeedInv
      <3>3. nCached # None => Below(nCached)' /\ Whole(nCached, nExcused.feed)'
        BY <1>1, <1>2, EventsStay DEF NoticesInv, FeedInv, Below, Whole
      <3> QED
        BY <1>1, <1>2, <3>1, <3>2, <3>3, EventsStay DEF FeedInv, Told
    <2>4. MailInv'
      BY <1>1, <1>2, MailKept DEF NoticesInv
    <2>5. OnceInv'
      BY <1>1, <1>2, <2>1 DEF NoticesInv, OnceInv
    <2> QED
      BY <2>2, <2>3, <2>4, <2>5 DEF NoticesInv
  <1>3. ASSUME NEW window \in ({nCached} \ {None}) \cup {Tidings!FetchEvents(Tidings!WindowFloor, "desc")},
               nCached' = window,
               nCursor' = IF Tidings!Page(Tidings!After(window, nPoll[t])) = {} THEN nCursor
                         ELSE Tidings!Max({e[1] : e \in Tidings!Page(Tidings!After(window, nPoll[t]))}),
               nGot' = [nGot EXCEPT !.feed = @ \cup Tidings!Page(Tidings!After(window, nPoll[t]))],
               nExcused' = [nExcused EXCEPT !.feed = @ \cup Tidings!Passed],
               UNCHANGED nFaults
        PROVE  NoticesInv'
    <2> DEFINE after == Tidings!After(window, nPoll[t])
               events == Tidings!Page(after)
               more == Tidings!Passed
    <2>1. window \in SUBSET Tidings!Event /\ Below(window) /\ Whole(window, nExcused.feed \cup more)
      BY <1>3, WindowServed
    <2>2. more \in SUBSET Tidings!Event
      BY EventsHold DEF NoticesInv, Tidings!Passed
    <2>3. /\ after \in SUBSET window /\ events \in SUBSET after /\ events \in SUBSET Tidings!Event
          /\ \A e \in window : e \in after <=> e[1] > nPoll[t]
      BY <2>1 DEF Tidings!After, Tidings!Page
    <2>4. nGot' = [nGot EXCEPT !.feed = @ \cup events] /\ nExcused' = [nExcused EXCEPT !.feed = @ \cup more]
          /\ nCursor' = IF events = {} THEN nCursor ELSE Tidings!Max({e[1] : e \in events})
      BY <1>3
    <2>0. \A f \in events, e \in after : e[1] <= f[1] => e \in events
      BY <2>1, <2>3, PageWhole
    <2> HIDE DEF after, events, more
    <2>5. /\ nGot'.feed = nGot.feed \cup events /\ nGot'.mail = nGot.mail /\ nGot'.since = nGot.since
               /\ nGot'.twice = nGot.twice
          /\ nExcused'.feed = nExcused.feed \cup more /\ nExcused'.mail = nExcused.mail
          /\ nGot' \in Tidings!Given
          /\ nExcused' \in Tidings!Excuse
      BY <2>2, <2>3, <2>4 DEF NoticesInv, Tidings!TypeOK, Tidings!Run, Tidings!Given, Tidings!Excuse
    <2>6. nCursor' \in 0..Len(nChain) /\ Told(nCursor)'
      <3>1. CASE events = {}
        <4>1. nCursor' = nCursor
          BY <2>4, <3>1
        <4> QED
          BY <1>1, <2>5, <4>1, StaysTold DEF NoticesInv, FeedInv, Tidings!TypeOK
      <3>2. CASE events # {}
        <4>1. PICK f \in events : f[1] = nCursor' /\ nCursor' \in Nat
          BY <2>3, <2>4, <3>2, LastBlock
        <4>2. f \in window /\ f[1] <= Len(nChain)
          BY <2>1, <2>3 DEF Below
        <4>3. nCursor' \in 0..Len(nChain)
          BY <4>1, <4>2, FieldsHold DEF NoticesInv
        <4>4. ASSUME NEW e \in Tidings!Events(0), e[1] <= nCursor'
              PROVE  e \in nGot'.feed \cup nExcused'.feed
          <5>1. e[1] \in Nat /\ nPoll[t] \in Nat
            BY <1>1, EventsHold, FieldsHold DEF NoticesInv
          <5>2. CASE e[1] <= nPoll[t]
            BY <1>1, <2>5, <5>2 DEF NoticesInv, FeedInv, Told
          <5>3. CASE e[1] > nPoll[t]
            <6>1. e \in window \cup nExcused'.feed
              BY <2>1, <2>5, <4>1, <4>2, <4>4 DEF Whole
            <6>2. e \in window => e \in events
              BY <2>3, <2>0, <4>1, <4>4, <5>3
            <6> QED
              BY <2>5, <6>1, <6>2
          <5> QED
            BY <5>1, <5>2, <5>3
        <4> QED
          BY <1>1, <4>3, <4>4, EventsStay DEF Told
      <3> QED
        BY <3>1, <3>2
    <2>7. Tidings!TypeOK'
      BY <1>1, <1>3, <2>1, <2>5, <2>6 DEF NoticesInv, Tidings!TypeOK
    <2>8. FeedInv'
      <3>1. ASSUME NEW u \in Tab, nPoll'[u] # None
            PROVE  nPoll'[u] = nPoll[u] /\ Told(nPoll[u])'
        BY <1>1, <2>5, <3>1, StaysTold DEF NoticesInv, FeedInv
      <3>2. Below(window)' /\ Whole(window, nExcused.feed)'
        BY <1>1, <2>1, <2>5, EventsStay DEF Below, Whole
      <3> QED
        BY <1>1, <1>3, <2>6, <3>1, <3>2, EventsStay DEF FeedInv, Told, Below, Whole
    <2>9. MailInv' /\ OnceInv'
      BY <1>1, <1>3, <2>5, MailKept, OnceKept DEF NoticesInv
    <2> QED
      BY <2>7, <2>8, <2>9 DEF NoticesInv
  <1> QED
    BY <1>2, <1>3 DEF Tidings!Answer

(***************************************************************************)
(* The digest.                                                             *)
(***************************************************************************)

LEMMA EnableStep ==
    ASSUME NoticesInv, Tidings!Enable
    PROVE  NoticesInv'
  <1> DEFINE past == {e \in Tidings!Events(0) : e[1] <= nHead}
  <1>1. past \in SUBSET Tidings!Event
    BY EventsHold DEF NoticesInv
  <1>2. /\ nPrefs' = [on |-> TRUE, last |-> nHead] /\ nExcused' = [nExcused EXCEPT !.mail = @ \cup past]
        /\ nGot' = [nGot EXCEPT !.since = {}] /\ UNCHANGED <<nChain, nHead, nCached, nCursor, nPoll, nRun,
                                                             nFaults>>
        /\ \A e \in Tidings!Events(0) : e[1] <= nHead => e \in past
    BY DEF Tidings!Enable
  <1> HIDE DEF past
  <1>3. /\ nPrefs'.last = nHead /\ nPrefs' \in [on : BOOLEAN, last : 0..Len(nChain)]
        /\ nGot'.feed = nGot.feed /\ nGot'.mail = nGot.mail /\ nGot'.since = {} /\ nGot'.twice = nGot.twice
        /\ nExcused'.feed = nExcused.feed /\ nExcused'.mail = nExcused.mail \cup past
        /\ nGot' \in Tidings!Given
        /\ nExcused' \in Tidings!Excuse
    BY <1>1, <1>2 DEF NoticesInv, Tidings!TypeOK, Tidings!Run, Tidings!Given, Tidings!Excuse
  <1>4. Tidings!TypeOK'
    BY <1>2, <1>3 DEF NoticesInv, Tidings!TypeOK
  <1>5. MailInv'
    <2>1. Mailed(nPrefs.last)'
      BY <1>2, <1>3, EventsStay DEF Mailed
    <2>2. nRun.pc # "idle" => nRun.news # {} /\ Below(nRun.news)'
            /\ Whole(nRun.news, nGot.mail \cup nExcused.mail)'
      BY <1>2, <1>3, EventsStay DEF NoticesInv, MailInv, Below, Whole
    <2> QED
      BY <1>2, <1>3, <2>1, <2>2 DEF NoticesInv, MailInv
  <1>6. OnceInv'
    BY <1>2, <1>3 DEF NoticesInv, OnceInv
  <1> QED
    BY <1>2, <1>3, <1>4, <1>5, <1>6, FeedKept DEF NoticesInv

LEMMA DisableStep ==
    ASSUME NoticesInv, Tidings!Disable
    PROVE  NoticesInv'
  <1>1. /\ nPrefs' = [nPrefs EXCEPT !.on = FALSE]
        /\ UNCHANGED <<nChain, nHead, nCached, nCursor, nPoll, nRun, nFaults, nGot, nExcused>>
    BY DEF Tidings!Disable
  <1>2. nPrefs'.last = nPrefs.last /\ nPrefs' \in [on : BOOLEAN, last : 0..Len(nChain)]
    BY <1>1 DEF NoticesInv, Tidings!TypeOK
  <1>3. Tidings!TypeOK'
    BY <1>1, <1>2 DEF NoticesInv, Tidings!TypeOK
  <1>4. MailInv'
    <2>1. nPrefs.last > 0 => Mailed(nPrefs.last)'
      BY <1>1, <1>2, StaysMailed DEF NoticesInv, MailInv
    <2>2. nRun.pc # "idle" => nRun.news # {} /\ Below(nRun.news)'
            /\ Whole(nRun.news, nGot.mail \cup nExcused.mail)'
      BY <1>1, EventsStay DEF NoticesInv, MailInv, Below, Whole
    <2> QED
      BY <1>1, <1>2, <2>1, <2>2 DEF NoticesInv, MailInv
  <1>5. OnceInv'
    BY <1>1, <1>2 DEF NoticesInv, OnceInv
  <1> QED
    BY <1>1, <1>3, <1>4, <1>5, FeedKept DEF NoticesInv

\* What a run takes up lacks nothing before its end: the oldest come first, what lies behind
\* the cursor was mailed, and what lies below the window is excused.
LEMMA DigestStep ==
    ASSUME NoticesInv, Tidings!Digest
    PROVE  NoticesInv'
  <1> DEFINE window == Tidings!FetchEvents(Tidings!WindowFloor, "asc")
             news == Tidings!After(window, nPrefs.last)
             past == {e \in Tidings!Events(0) : e[1] <= Tidings!WindowFloor}
  <1>0. Tidings!TypeOK /\ Tidings!WindowFloor \in Nat /\ nPrefs.last \in Nat
    BY NoticeFloorHolds, FieldsHold DEF NoticesInv
  <1>1. past \in SUBSET Tidings!Event
    BY EventsHold DEF NoticesInv
  <1>2. /\ nRun.pc = "idle" /\ nPrefs.last > 0 /\ news # {} /\ nRun' = [pc |-> "send", news |-> news]
        /\ nExcused' = [nExcused EXCEPT !.mail = @ \cup past]
        /\ UNCHANGED <<nChain, nHead, nCached, nCursor, nPoll, nPrefs, nFaults, nGot>>
    BY DEF Tidings!Digest
  <1>3. news \in SUBSET Tidings!Event /\ Below(news) /\ \A f \in news : f[1] > nPrefs.last /\ f[1] \in Nat
    BY <1>0, EventsHold DEF Tidings!After, Tidings!FetchEvents, Below
  <1>4. ASSUME NEW e \in Tidings!Events(0), NEW f \in news, e[1] <= f[1]
        PROVE  e \in news \cup nGot.mail \cup nExcused.mail \cup past
    <2>1. e[1] \in Nat
      BY <1>0, EventsHold
    <2>2. CASE e[1] <= nPrefs.last
      BY <1>2, <2>2 DEF NoticesInv, MailInv, Mailed
    <2>3. CASE e[1] <= Tidings!WindowFloor
      BY <2>3
    <2>4. CASE e[1] > nPrefs.last /\ e[1] > Tidings!WindowFloor
      <3>1. e \in Tidings!Events(Tidings!WindowFloor)
        BY <1>0, <2>4, AboveFloor
      <3>2. f \in Tidings!FetchEvents(Tidings!WindowFloor, "asc")
        BY DEF Tidings!After
      <3>3. e \in window
        BY <1>0, <1>4, <3>1, <3>2, OldestWhole
      <3> QED
        BY <2>4, <3>3 DEF Tidings!After
    <2> QED
      BY <1>0, <2>1, <2>2, <2>3, <2>4
  <1> HIDE DEF news, past, window
  <1>5. /\ nRun'.pc = "send" /\ nRun'.news = news /\ nRun' \in Tidings!Run
        /\ nExcused'.feed = nExcused.feed /\ nExcused'.mail = nExcused.mail \cup past
        /\ nExcused' \in Tidings!Excuse
    BY <1>1, <1>2, <1>3 DEF NoticesInv, Tidings!TypeOK, Tidings!Run, Tidings!Given, Tidings!Excuse
  <1>6. Tidings!TypeOK'
    BY <1>2, <1>5 DEF NoticesInv, Tidings!TypeOK
  <1>7. MailInv'
    <2>1. nPrefs.last > 0 => Mailed(nPrefs.last)'
      BY <1>2, <1>5, StaysMailed DEF NoticesInv, MailInv
    <2>2. Below(nRun.news)' /\ Whole(nRun.news, nGot.mail \cup nExcused.mail)'
      BY <1>2, <1>3, <1>4, <1>5, EventsStay DEF Below, Whole
    <2> QED
      BY <1>2, <1>5, <2>1, <2>2 DEF MailInv
  <1>8. OnceInv'
    <2>1. ASSUME nFaults = 0, NEW e \in nGot.since, NEW f \in news
          PROVE  e[1] < f[1]
      <3>1. e[1] <= nPrefs.last /\ e[1] \in Nat
        BY <1>2, <2>1, FieldsHold, Numbered DEF NoticesInv, OnceInv
      <3> QED
        BY <1>0, <1>3, <3>1
    <2> QED
      BY <1>2, <1>5, <2>1 DEF NoticesInv, OnceInv
  <1> QED
    BY <1>2, <1>5, <1>6, <1>7, <1>8, FeedKept DEF NoticesInv

\* A run that fails leaves the row as it was.
LEMMA RunFails ==
    ASSUME NoticesInv, UNCHANGED <<nChain, nPrefs>>, nRun' = Tidings!IdleRun, nFaults' = nFaults + 1,
           nGot.mail \subseteq nGot'.mail, nExcused.mail \subseteq nExcused'.mail, ~nGot'.twice
    PROVE  MailInv' /\ OnceInv'
  <1>1. nRun'.pc = "idle" /\ nFaults' # 0
    BY FieldsHold DEF NoticesInv
  <1>2. nPrefs.last > 0 => Mailed(nPrefs.last)'
    BY StaysMailed DEF NoticesInv, MailInv
  <1> QED
    BY <1>1, <1>2 DEF MailInv, OnceInv

LEMMA SendStep ==
    ASSUME NoticesInv, Tidings!SendDigestEmail
    PROVE  NoticesInv'
  <1>1. nRun.pc = "send" /\ UNCHANGED <<nChain, nHead, nCached, nCursor, nPoll, nPrefs, nExcused>>
    BY DEF Tidings!SendDigestEmail
  <1>2. /\ nRun.news \in SUBSET Tidings!Event /\ nRun.news # {} /\ Below(nRun.news)
        /\ Whole(nRun.news, nGot.mail \cup nExcused.mail)
    BY <1>1, FieldsHold DEF NoticesInv, MailInv
  <1> DEFINE Mails == nGot' = [nGot EXCEPT !.mail = @ \cup nRun.news, !.since = @ \cup nRun.news,
                                         !.twice = @ \/ (nFaults = 0 /\ nGot.since \cap nRun.news # {})]
  <1>3. nFaults = 0 => nGot.since \cap nRun.news = {}
    BY <1>1, <1>2, FieldsHold, Numbered DEF NoticesInv, OnceInv
  <1>4. ASSUME Mails
        PROVE  /\ nGot'.feed = nGot.feed /\ nGot'.mail = nGot.mail \cup nRun.news
               /\ nGot'.since = nGot.since \cup nRun.news /\ ~nGot'.twice
               /\ nGot' \in Tidings!Given
    <2>1. ~(nGot.twice \/ (nFaults = 0 /\ nGot.since \cap nRun.news # {}))
      BY <1>3 DEF NoticesInv, OnceInv
    <2>2. (nGot.twice \/ (nFaults = 0 /\ nGot.since \cap nRun.news # {})) = FALSE
      BY <2>1
    <2>3. nGot' = [nGot EXCEPT !.mail = @ \cup nRun.news, !.since = @ \cup nRun.news, !.twice = FALSE]
      BY <1>4, <2>2
    <2> QED
      BY <1>2, <2>3 DEF NoticesInv, Tidings!TypeOK, Tidings!Given
  <1>5. CASE Mails /\ nRun' = [nRun EXCEPT !.pc = "advance"] /\ UNCHANGED nFaults
    <2>1. nRun'.pc = "advance" /\ nRun'.news = nRun.news /\ nRun' \in Tidings!Run
      BY <1>5 DEF NoticesInv, Tidings!TypeOK, Tidings!Run, Tidings!Given, Tidings!Excuse
    <2>2. Tidings!TypeOK'
      BY <1>1, <1>4, <1>5, <2>1 DEF NoticesInv, Tidings!TypeOK
    <2>3. MailInv'
      <3>1. nPrefs.last > 0 => Mailed(nPrefs.last)'
        BY <1>1, <1>4, <1>5, StaysMailed DEF NoticesInv, MailInv
      <3>2. Below(nRun.news)' /\ Whole(nRun.news, nGot.mail \cup nExcused.mail)'
        BY <1>1, <1>2, <1>4, <1>5, <2>1, EventsStay DEF Below, Whole
      <3> QED
        BY <1>1, <1>2, <1>4, <1>5, <2>1, <3>1, <3>2 DEF MailInv
    <2>4. OnceInv'
      <3>1. ASSUME nFaults = 0, NEW e \in nGot'.since
            PROVE  \E f \in nRun.news : e[1] <= f[1]
        <4>1. CASE e \in nRun.news
          <5>1. e[1] \in Nat
            BY <1>2, <4>1, Numbered
          <5> QED
            BY <4>1, <5>1
        <4>2. CASE e \in nGot.since
          <5>1. PICK f \in nRun.news : e[1] < f[1]
            BY <1>1, <1>2, <3>1, <4>2 DEF NoticesInv, OnceInv
          <5>2. e[1] \in Nat /\ f[1] \in Nat
            BY <1>2, <4>2, FieldsHold, Numbered DEF NoticesInv
          <5> QED
            BY <5>1, <5>2
        <4> QED
          BY <1>4, <1>5, <3>1, <4>1, <4>2
      <3> QED
        BY <1>4, <1>5, <2>1, <3>1 DEF OnceInv
    <2> QED
      BY <1>1, <1>4, <1>5, <2>2, <2>3, <2>4, FeedKept DEF NoticesInv
  <1>6. CASE Tidings!Fault /\ nRun' = Tidings!IdleRun /\ (Mails \/ UNCHANGED nGot)
    <2>1. /\ nGot'.feed = nGot.feed /\ nGot.mail \subseteq nGot'.mail /\ ~nGot'.twice
          /\ nGot' \in Tidings!Given
      BY <1>4, <1>6 DEF NoticesInv, OnceInv, Tidings!TypeOK, Tidings!Run, Tidings!Given, Tidings!Excuse
    <2>2. nFaults' \in 0..MaxNoticeFaults /\ nFaults' = nFaults + 1
      BY <1>6, FieldsHold DEF Tidings!Fault, NoticesInv
    <2>3. nRun' \in Tidings!Run
      BY <1>6, FieldsHold DEF NoticesInv
    <2>4. Tidings!TypeOK'
      BY <1>1, <2>1, <2>2, <2>3 DEF NoticesInv, Tidings!TypeOK
    <2>5. MailInv' /\ OnceInv'
      BY <1>1, <1>6, <2>1, <2>2, RunFails
    <2> QED
      BY <1>1, <2>1, <2>4, <2>5, FeedKept DEF NoticesInv
  <1> QED
    BY <1>5, <1>6 DEF Tidings!SendDigestEmail

\* The cursor moves to the end of what was mailed.
LEMMA UpdateStep ==
    ASSUME NoticesInv, Tidings!UpdateLastDigestBlock
    PROVE  NoticesInv'
  <1>1. nRun.pc = "advance" /\ nRun' = Tidings!IdleRun /\ UNCHANGED <<nChain, nHead, nCached, nCursor,
                                                                      nPoll, nGot, nExcused>>
    BY DEF Tidings!UpdateLastDigestBlock
  <1>2. /\ nRun.news \in SUBSET Tidings!Event /\ nRun.news # {} /\ Below(nRun.news)
        /\ Whole(nRun.news, nGot.mail \cup nExcused.mail) /\ nRun.news \subseteq nGot.mail
    BY <1>1, FieldsHold DEF NoticesInv, MailInv
  <1>3. nRun'.pc = "idle" /\ nRun' \in Tidings!Run
    BY <1>1, FieldsHold DEF NoticesInv
  <1>4. CASE nPrefs' = [nPrefs EXCEPT !.last = Tidings!Reached(nRun.news)] /\ UNCHANGED nFaults
    <2>1. PICK n : n = Tidings!Reached(nRun.news)
      OBVIOUS
    <2>2. /\ n \in Nat /\ \A e \in nRun.news : e[1] <= n
          /\ \E f \in nRun.news : f[1] = n
      BY <1>2, <2>1, LastBlock DEF Tidings!Reached
    <2>3. PICK f \in nRun.news : f[1] = n
      BY <2>2
    <2>4. n \in 0..Len(nChain)
      BY <1>2, <2>2, <2>3, FieldsHold DEF Below, NoticesInv
    <2>5. nPrefs'.last = n /\ nPrefs' \in [on : BOOLEAN, last : 0..Len(nChain)]
      BY <1>4, <2>1, <2>4 DEF NoticesInv, Tidings!TypeOK
    <2>6. Tidings!TypeOK'
      BY <1>1, <1>3, <1>4, <2>5 DEF NoticesInv, Tidings!TypeOK
    <2>7. Mailed(nPrefs.last)'
      BY <1>1, <1>2, <2>3, <2>5, EventsStay DEF Mailed, Whole
    <2>8. OnceInv'
      <3>1. ASSUME nFaults = 0, NEW e \in nGot.since
            PROVE  e[1] <= n
        <4>1. PICK g \in nRun.news : e[1] <= g[1]
          BY <1>1, <3>1 DEF NoticesInv, OnceInv
        <4>2. e[1] \in Nat /\ g[1] \in Nat /\ g[1] <= n
          BY <1>2, <2>2, <3>1, FieldsHold, Numbered DEF NoticesInv
        <4> QED
          BY <2>2, <4>1, <4>2
      <3> QED
        BY <1>1, <1>3, <1>4, <2>5, <3>1 DEF NoticesInv, OnceInv
    <2> QED
      BY <1>1, <1>3, <2>6, <2>7, <2>8, FeedKept DEF NoticesInv, MailInv
  <1>5. CASE Tidings!Fault /\ UNCHANGED nPrefs
    <2>1. nFaults' \in 0..MaxNoticeFaults /\ nFaults' = nFaults + 1
      BY <1>5, FieldsHold DEF Tidings!Fault, NoticesInv
    <2>2. Tidings!TypeOK'
      BY <1>1, <1>3, <1>5, <2>1 DEF NoticesInv, Tidings!TypeOK
    <2>3. MailInv' /\ OnceInv'
      BY <1>1, <1>5, <2>1, RunFails DEF NoticesInv, OnceInv
    <2> QED
      BY <1>1, <2>2, <2>3, FeedKept DEF NoticesInv
  <1> QED
    BY <1>4, <1>5 DEF Tidings!UpdateLastDigestBlock

(***************************************************************************)
(* Blocks, and the process.                                                *)
(***************************************************************************)

\* What a block adds lies beyond every cursor and every window.
LEMMA BlockStep ==
    ASSUME NoticesInv, NEW ops \in Tidings!Ops, Tidings!Block(ops)
    PROVE  NoticesInv'
  <1>1. /\ Len(nChain) < MaxBlock /\ nChain' = Append(nChain, ops)
        /\ UNCHANGED <<nHead, nCached, nCursor, nPoll, nPrefs, nRun, nFaults, nGot, nExcused>>
    BY DEF Tidings!Block
  <1>2. /\ Len(nChain) \in Nat /\ nChain' \in Seq(Tidings!Ops) /\ Len(nChain') = Len(nChain) + 1
             /\ Len(nChain') <= MaxBlock
        /\ \A e \in Tidings!Events(0)' : e \in Tidings!Events(0) \/ e[1] = Len(nChain) + 1
    BY <1>1, BlockAdds, FieldsHold DEF NoticesInv, Tidings!TypeOK
  <1>3. /\ \A n \in 0..Len(nChain) : n \in 0..Len(nChain') /\ n \in Nat
        /\ Len(nChain) + 1 > Len(nChain)
    BY <1>2
  <1>4. Tidings!TypeOK'
    <2>1. nHead \in 0..Len(nChain') /\ nCursor \in 0..Len(nChain') /\ nFaults \in 0..MaxNoticeFaults
      BY <1>3 DEF NoticesInv, Tidings!TypeOK
    <2>2. nPoll \in [Tab -> 0..Len(nChain') \cup {None}] /\ nPrefs \in [on : BOOLEAN, last : 0..Len(nChain')]
      BY <1>3 DEF NoticesInv, Tidings!TypeOK
    <2> QED
      BY <1>1, <1>2, <2>1, <2>2 DEF NoticesInv, Tidings!TypeOK
  <1>5. ASSUME NEW n \in 0..Len(nChain), Told(n)
        PROVE  Told(n)'
    BY <1>1, <1>2, <1>3, <1>5 DEF Told
  <1>6. ASSUME NEW n \in 0..Len(nChain), Mailed(n)
        PROVE  Mailed(n)'
    BY <1>1, <1>2, <1>3, <1>6 DEF Mailed
  <1>7. ASSUME NEW W \in SUBSET Tidings!Event, Below(W), NEW S, Whole(W, S)
        PROVE  Below(W)' /\ \A e \in Tidings!Events(0)', f \in W : e[1] <= f[1] => e \in W \cup S
    <2>1. \A f \in W : f[1] \in Nat /\ f[1] <= Len(nChain)
      BY <1>7, Numbered DEF Below
    <2>2. Below(W)'
      BY <1>2, <2>1 DEF Below
    <2> QED
      BY <1>2, <1>7, <2>1, <2>2 DEF Whole
  <1>8. FeedInv'
    <2>1. Told(nCursor)'
      BY <1>1, <1>5 DEF NoticesInv, FeedInv, Tidings!TypeOK
    <2>2. ASSUME NEW t \in Tab, nPoll'[t] # None
          PROVE  Told(nPoll[t])'
      BY <1>1, <1>5, <2>2 DEF NoticesInv, FeedInv, Tidings!TypeOK
    <2>3. nCached # None => Below(nCached)' /\ Whole(nCached, nExcused.feed)'
      BY <1>1, <1>7 DEF NoticesInv, FeedInv, Tidings!TypeOK, Whole, Tidings!Run, Tidings!Given, Tidings!Excuse
    <2> QED
      BY <1>1, <2>1, <2>2, <2>3 DEF FeedInv
  <1>9. MailInv'
    <2>1. nPrefs.last > 0 => Mailed(nPrefs.last)'
      BY <1>1, <1>6, FieldsHold DEF NoticesInv, MailInv
    <2>2. nRun.pc # "idle" => nRun.news # {} /\ Below(nRun.news)'
            /\ Whole(nRun.news, nGot.mail \cup nExcused.mail)'
      BY <1>1, <1>7, FieldsHold DEF NoticesInv, MailInv, Whole
    <2> QED
      BY <1>1, <2>1, <2>2 DEF NoticesInv, MailInv
  <1> QED
    BY <1>1, <1>4, <1>8, <1>9, OnceKept DEF NoticesInv

LEMMA WatchStep ==
    ASSUME NoticesInv, Tidings!Watch
    PROVE  NoticesInv'
  <1>1. nHead' = Len(nChain) /\ UNCHANGED <<nChain, nCached, nCursor, nPoll, nPrefs, nRun, nFaults, nGot,
                                            nExcused>>
    BY DEF Tidings!Watch
  <1>2. Tidings!TypeOK'
    BY <1>1, FieldsHold DEF NoticesInv, Tidings!TypeOK
  <1> QED
    BY <1>1, <1>2, FeedKept, MailKept, OnceKept DEF NoticesInv

LEMMA RestartStep ==
    ASSUME NoticesInv, Tidings!Restart
    PROVE  NoticesInv'
  <1>1. /\ nFaults' = nFaults + 1 /\ nFaults < MaxNoticeFaults /\ nHead' = 0 /\ nCached' = None
             /\ nRun' = Tidings!IdleRun
        /\ UNCHANGED <<nChain, nCursor, nPoll, nPrefs, nGot, nExcused>>
    BY DEF Tidings!Restart, Tidings!Fault
  <1>2. nRun' \in Tidings!Run /\ nFaults' \in 0..MaxNoticeFaults /\ 0 \in 0..Len(nChain)
    BY <1>1, FieldsHold DEF NoticesInv
  <1>3. Tidings!TypeOK'
    BY <1>1, <1>2 DEF NoticesInv, Tidings!TypeOK
  <1>4. FeedInv'
    <2>1. Told(nCursor)'
      BY <1>1, StaysTold DEF NoticesInv, FeedInv
    <2>2. ASSUME NEW t \in Tab, nPoll'[t] # None
          PROVE  Told(nPoll[t])'
      BY <1>1, <2>2, StaysTold DEF NoticesInv, FeedInv
    <2> QED
      BY <1>1, <2>1, <2>2 DEF FeedInv
  <1>5. MailInv' /\ OnceInv'
    BY <1>1, RunFails DEF NoticesInv, OnceInv
  <1> QED
    BY <1>3, <1>4, <1>5 DEF NoticesInv

(***************************************************************************)
(* The theorems.                                                           *)
(***************************************************************************)

LEMMA NoticesStart == Tidings!Init => NoticesInv
  <1> SUFFICES ASSUME Tidings!Init PROVE NoticesInv
    OBVIOUS
  <1>1. /\ nChain = <<>> /\ nHead = 0 /\ nCached = None /\ nCursor = 0 /\ nPoll = [t \in Tab |-> None]
        /\ nPrefs = [on |-> FALSE, last |-> 0] /\ nRun = [pc |-> "idle", news |-> {}] /\ nFaults = 0
        /\ nGot = [feed |-> {}, mail |-> {}, since |-> {}, twice |-> FALSE]
             /\ nExcused = [feed |-> {}, mail |-> {}]
    BY DEF Tidings!Init, Tidings!IdleRun
  <1>2. Len(nChain) = 0 /\ nChain \in Seq(Tidings!Ops) /\ MaxBlock \in Nat /\ MaxNoticeFaults \in Nat
    BY <1>1, PartsAssumption DEF Tidings!NotificationsAssumption
  <1>3. Tidings!TypeOK
    BY <1>1, <1>2 DEF Tidings!TypeOK, Tidings!Run, Tidings!Given, Tidings!Excuse
  <1>4. Tidings!Events(0) = {}
    BY <1>2, <1>3, EventsHold
  <1> QED
    BY <1>1, <1>3, <1>4 DEF NoticesInv, FeedInv, MailInv, OnceInv, Told

LEMMA NoticesStep == NoticesInv /\ [Tidings!Next]_Tidings!vars => NoticesInv'
  <1> SUFFICES ASSUME NoticesInv, [Tidings!Next]_Tidings!vars PROVE NoticesInv'
    OBVIOUS
  <1>1. ASSUME NEW K \in SUBSET Tidings!Topic, NEW ops \in [K -> {0, 1}], Tidings!Block(ops)
        PROVE  NoticesInv'
    <2>1. ops \in Tidings!Ops
      BY DEF Tidings!Ops
    <2> QED
      BY <1>1, <2>1, BlockStep
  <1>2. CASE UNCHANGED Tidings!vars
    <2>1. UNCHANGED <<nChain, nHead, nCached, nCursor, nPoll, nPrefs, nRun, nFaults, nGot, nExcused>>
      BY <1>2 DEF Tidings!vars
    <2>2. Tidings!TypeOK'
      BY <2>1 DEF NoticesInv, Tidings!TypeOK
    <2> QED
      BY <2>1, <2>2, FeedKept, MailKept, OnceKept DEF NoticesInv
  <1> QED
    BY <1>1, <1>2, PollStep, AnswerStep, EnableStep, DisableStep, DigestStep, SendStep, UpdateStep, WatchStep,
       RestartStep DEF Tidings!Next

\* The invariant holds at the start and after every step of the routes, the tabs and the
\* digest (routes/notifications.ts, digest.ts).
THEOREM NoticesInvariant == Tidings!Spec => []NoticesInv
  BY NoticesStart, NoticesStep, PTL DEF Tidings!Spec

\* Every variable of the feed and the digest stays in its type.
THEOREM NoticesTyped == Tidings!Spec => []Tidings!TypeOK
  <1>1. NoticesInv => Tidings!TypeOK
    BY DEF NoticesInv
  <1> QED
    BY <1>1, NoticesInvariant, PTL

\* fetchNotificationsFromHaf cuts its window at whole blocks, applySinceBlockFilter its page,
\* and runDigest moves its cursor to the last block it mailed: no cursor passes an event that
\* was neither shown nor mailed, and while nothing fails nothing is mailed twice.
THEOREM NoticesHold == Tidings!Spec => []ToldOnce
  <1>1. NoticesInv => ToldOnce
    BY DEF ToldOnce, NoticesInv, FeedInv, MailInv, OnceInv, Tidings!FeedWhole, Tidings!DigestWhole, Told, Mailed
  <1> QED
    BY <1>1, NoticesInvariant, PTL
=============================================================================
