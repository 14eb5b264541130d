----------------------------- MODULE AdminRoster -----------------------------
(* Who may act as an administrator: the last grant or revoke of each account   *)
(* on the chain, read through a cache of five minutes over a HAF that lags.    *)
(* A request reads the level of its actor, proves its identity, reads the      *)
(* level of its target, and only then broadcasts; root is configuration.       *)
EXTENDS Integers, Sequences, FiniteSets, SequencesExt, FiniteSetsExt

CONSTANTS Account, Root, Req, None,
          Acts,       \* the routes called
          Ttl,        \* ADMIN_ROSTER_TTL_MS, in ticks
          Start,      \* the ops that are indexed when a behaviour begins
          MaxOps, MaxNow, MaxFaults  \* bounds

Level == {"admin", "super_admin", "root"}
Granted == {"admin", "super_admin"}

\* Who made an op, on what level, and how many ops the view of the target held by then.
Ops == [act : {"grant", "revoke", "sanction"}, by : Account, cap : Level, who : Account,
        level : Granted \cup {None}, seen : 0..MaxOps]

RosterAssumption ==
  /\ Acts \subseteq {"grant", "revoke", "sanction"} /\ Root \in Account /\ None \notin Level
  /\ {Ttl, MaxOps, MaxNow, MaxFaults} \subseteq Nat
  /\ Start \in Seq(Ops) /\ Len(Start) <= MaxOps
  /\ \A o \in ToSet(Start) : o.act = "grant" => o.level \in Granted

VARIABLES
  now,
  chain,    \* the ops, one to a block
  flight,   \* ops whose broadcast timed out: they may land yet
  haf,      \* how many of them HAF has indexed
  since,    \* history: when HAF indexed each
  cache,    \* admin_roster_all: how many ops it was read from and when it expires, or None
  req,      \* requests
  faults,
  stale     \* history: an administrator acted on a level that had been taken away for too long

vars == <<now, chain, flight, haf, since, cache, req, faults, stale>>

Resting == [pc |-> "idle", act |-> None, me |-> None, level |-> None, cap |-> None, to |-> None]

Request == [pc : {"idle", "admitted", "sending"}, act : Acts \cup {None}, me : Account \cup {None},
            level : Granted \cup {None}, cap : Level \cup {None},
            to : [who : Account, seen : 0..MaxOps] \cup {None}]

TypeOK ==
  /\ now \in 0..MaxNow
  /\ chain \in Seq(Ops) /\ flight \subseteq Ops /\ IsFiniteSet(flight) /\ Len(chain) + Cardinality(flight) <= MaxOps
  /\ haf \in 0..Len(chain) /\ since \in Seq(0..MaxNow) /\ Len(since) = haf
  /\ cache \in [read : 0..haf, until : Nat] \cup {None}
  /\ req \in [Req -> Request] /\ faults \in 0..MaxFaults /\ stale \in BOOLEAN

Fault == faults < MaxFaults /\ faults' = faults + 1
Chain == <<chain, flight, haf, since>>

-----------------------------------------------------------------------------
(* The roster *)

Rank(level) == CASE level = "root" -> 3 [] level = "super_admin" -> 2 [] level = "admin" -> 1 [] OTHER -> 0
LevelMeets(level, min) == level # None /\ Rank(level) >= Rank(min)

\* active_admins of the first n ops: the last op of the account, if it is a grant.
ActiveAdmin(n, a) ==
  LET last == Max({0} \cup {i \in 1..n : chain[i].act \in {"grant", "revoke"} /\ chain[i].who = a}) IN
  IF last > 0 /\ chain[last].act = "grant" THEN chain[last].level ELSE None

\* Seeded fault: the roster is cached without an end.
Fill_Forever == [read |-> haf, until |-> MaxNow + 1]

Fill == [read |-> haf, until |-> now + Ttl]

\* getAdminRoster: what the cache holds, or HAF, which fills it.
Roster(new) == new = IF cache # None THEN cache ELSE Fill

\* getAdminLevel, of the roster as it was read.
AdminLevel(roster, a) == IF a = Root THEN "root" ELSE ActiveAdmin(roster.read, a)

-----------------------------------------------------------------------------
(* A request *)

Ends(r) == req' = [req EXCEPT ![r] = Resting]

Needed(act) == IF act = "sanction" THEN "admin" ELSE "super_admin"

\* How long ago HAF had indexed that a holds no level that act needs, 0 if it does not show it.
TakenFor(a, act) ==
  LET gone(n) == ~LevelMeets(AdminLevel([read |-> n], a), Needed(act))
      first == {n \in 0..haf : \A k \in n..haf : gone(k)} IN
  IF first = {} \/ Min(first) = 0 THEN 0 ELSE now - since[Min(first)]

\* requireAdminLevel: a roster that cannot be read admits nobody but root.
Admit(r, act, a) ==
  /\ req[r] = Resting
  /\ \E roster \in {Fill, cache} \ {None} :
       /\ Roster(roster) /\ cache' = roster
       /\ LevelMeets(AdminLevel(roster, a), Needed(act))
       /\ req' = [req EXCEPT ![r] = [Resting EXCEPT !.pc = "admitted", !.act = act, !.me = a,
                                                 !.cap = AdminLevel(roster, a)]]
       /\ stale' = (stale \/ TakenFor(a, act) > Ttl)
  /\ UNCHANGED <<now, Chain, faults>>

\* Seeded fault: what the target holds is not asked.
MayGrant_AnyTarget(r, a, level, held) == a # Root /\ (level = "super_admin" => req[r].cap = "root")

\* The guards of the routes: held is the level of the target, none where the roster cannot
\* be read.
MayGrant(r, a, level, held) ==
  /\ level = "super_admin" => req[r].cap = "root"
  /\ a # Root
  /\ ~(a = req[r].me /\ held # None /\ held # level /\ LevelMeets(held, level))
  /\ held = "super_admin" /\ level # "super_admin" => req[r].cap = "root"

MayRevoke(r, a, held) ==
  /\ a # Root /\ a # req[r].me
  /\ held \notin {None, "root"}
  /\ held = "super_admin" => req[r].cap = "root"

MaySanction(r, a, held) ==
  /\ a # req[r].me /\ a # Root
  /\ held # None => ~LevelMeets(held, req[r].cap)

\* requireFreshAdminAuth, whose proof a refusal has spent, and then the route.
Judge(r, a, level) ==
  /\ req[r].pc = "admitted"
  /\ \E roster \in {Fill, cache} \ {None}, blind \in BOOLEAN :
       LET act == req[r].act
           held == IF blind THEN IF a = Root THEN "root" ELSE None ELSE AdminLevel(roster, a) IN
       /\ IF blind THEN cache = None /\ Fault /\ UNCHANGED cache
          ELSE Roster(roster) /\ cache' = roster /\ UNCHANGED faults
       /\ \/ act = "grant" /\ level # None /\ MayGrant(r, a, level, held)
          \/ act = "revoke" /\ level = held /\ MayRevoke(r, a, held)
          \/ act = "sanction" /\ level = None /\ MaySanction(r, a, held)
       /\ req' = [req EXCEPT ![r].pc = "sending", ![r].level = level,
                   ![r].to = [who |-> a, seen |-> IF blind THEN 0 ELSE roster.read]]
  /\ UNCHANGED <<now, Chain, stale>>

\* The proof is refused, or the target.
Refused(r) ==
  /\ req[r].pc = "admitted" /\ Ends(r) /\ UNCHANGED <<now, Chain, cache, faults, stale>>

Op(r) == [act |-> req[r].act, by |-> req[r].me, cap |-> req[r].cap, who |-> req[r].to.who,
          level |-> req[r].level, seen |-> req[r].to.seen]

\* The broadcast, signed by the one key of the server.  The roster is dropped from the cache
\* when it is answered or timed out, before HAF can have indexed the op.
Broadcast(r) ==
  /\ req[r].pc = "sending" /\ Len(chain) + Cardinality(flight) < MaxOps
  /\ \/ chain' = Append(chain, Op(r)) /\ UNCHANGED <<flight, faults>>
     \/ Fault /\ flight' = flight \cup {Op(r)} /\ UNCHANGED chain
  /\ cache' = IF req[r].act = "sanction" THEN cache ELSE None
  /\ Ends(r) /\ UNCHANGED <<now, haf, since, stale>>

Fails(r) == req[r].pc = "sending" /\ Fault /\ Ends(r) /\ UNCHANGED <<now, Chain, cache, stale>>

-----------------------------------------------------------------------------
(* The chain, HAF and time *)

LandsLate(o) ==
  /\ chain' = Append(chain, o) /\ flight' = flight \ {o}
  /\ UNCHANGED <<now, haf, since, cache, req, faults, stale>>

Index ==
  /\ haf < Len(chain) /\ haf' = haf + 1 /\ since' = Append(since, now)
  /\ UNCHANGED <<now, chain, flight, cache, req, faults, stale>>

\* A key that is past its time is gone.
Tick ==
  /\ now < MaxNow /\ now' = now + 1
  /\ cache' = IF cache # None /\ now' >= cache.until THEN None ELSE cache
  /\ UNCHANGED <<Chain, req, faults, stale>>

Init ==
  /\ now = 0 /\ chain = Start /\ flight = {} /\ haf = Len(Start) /\ since = [i \in DOMAIN Start |-> 0]
  /\ cache = None /\ req = [r \in Req |-> Resting] /\ faults = 0 /\ stale = FALSE

Step(r) ==
  \/ \E act \in Acts, a \in Account : Admit(r, act, a)
  \/ Refused(r) \/ Broadcast(r) \/ Fails(r)
  \/ \E a \in Account, level \in Granted \cup {None} : Judge(r, a, level)

Next == (\E r \in Req : Step(r)) \/ (\E o \in flight : LandsLate(o)) \/ Index \/ Tick

Spec == Init /\ [][Next]_vars

-----------------------------------------------------------------------------
(* What the roster promises *)

Held(n, a) == AdminLevel([read |-> n], a)
Shown(o, n) == o.seen >= n  \* its view of the target held the first n ops

\* The i-th op, if it is o, is in the reach of who made it.
InReach(i, o) ==
  LET held == Held(i - 1, o.who) IN
  /\ o.who # Root
  /\ o.act = "grant" /\ o.level = "super_admin" => o.by = Root
  /\ held # None /\ o.by # Root /\ (o.act = "grant" => o.level # held)
       => \/ Rank(held) < Rank(o.cap)
          \/ o.act = "grant" /\ held = "admin"
          \/ \E n \in 0..i - 1 : ~Shown(o, n) /\ chain[n].act = "grant" /\ chain[n].who = o.who

\* Only root makes a super_admin, and root is in no op's reach.  A super_admin loses the level
\* to root, or to an op whose view of the roster did not show that level yet; and an account
\* is sanctioned by its inferiors only so.
ReachHolds == \A i \in Len(Start) + 1..Len(chain) : InReach(i, chain[i])

\* A level that was taken away admits nobody once HAF has shown it for the life of the cache.
LapseBounded == ~stale
=============================================================================
