--------------------------- MODULE SessionWindow ---------------------------
(* The sessions of one account: bearer JWTs, the session-proof windows that    *)
(* let a light account act without a re-auth per action, and the revocation    *)
(* epoch accounts.sessions_invalidated_at that ends both.                      *)
(*                                                                             *)
(* A JWT is stateless: what it says (iat in whole seconds, reissuedAt) against *)
(* the epoch is all there is.  A window lives in two tiers, a Redis key and an *)
(* entry of memStore, and every consume writes it back with a later idle       *)
(* deadline without awaiting the write.  Handlers are split at their awaits.   *)
EXTENDS Integers, Sequences, FiniteSets

CONSTANTS Req,        \* requests of the account's clients
          Jwt,        \* bearer tokens, numbered in the order they are minted
          Win,        \* window tokens, numbered in the order they are opened
          None,       \* no token, no entry
          PerSecond,  \* clock ticks in a second: iat is truncated to seconds
          Idle,       \* SESSION_FRESH_AUTH_IDLE_SECONDS, in ticks
          Cap,        \* SESSION_FRESH_AUTH_ABSOLUTE_SECONDS, in ticks
          MaxNow,     \* bound on the clock
          MaxCuts,    \* bound on the credential rotations of a behaviour
          MaxFaults   \* bound on flaps, failed commands, evictions and restarts

\* What an instance must give them.
ASSUME SessionAssumption ==
  /\ Jwt \subseteq Nat /\ Win \subseteq Nat
  /\ PerSecond \in Nat \ {0}
  /\ Idle \in Nat \ {0} /\ Cap \in Nat \ {0}
  /\ MaxNow \in Nat \ {0} /\ MaxCuts \in Nat /\ MaxFaults \in Nat
  /\ None \notin Jwt /\ None \notin Win

VARIABLES
  now,      \* the clock; 0 is never
  epoch,    \* accounts.sessions_invalidated_at, 0 when NULL
  jwt,      \* what each bearer token says, None when it is not minted
  red,      \* the Redis key of each window
  mem,      \* the memStore entry of each window
  idx,      \* the Redis set that indexes the account's windows
  known,    \* windows whose token was handed to the client
  pipe,     \* Redis writes sent and not awaited, in the order the client sent them
  up,       \* isRedisAvailable()
  req,      \* the requests
  born,     \* history: when each window was opened
  cuts,     \* history: rotations committed
  faults    \* history: faults so far

vars == <<now, epoch, jwt, red, mem, idx, known, pipe, up, req, born, cuts, faults>>

Time == 0..MaxNow
Deadline == 0..(MaxNow + Cap + Idle)
Entry == [issued : Time, idle : Deadline, abs : Deadline]
Token == [iat : Time, re : Time, born : Time]
Command == [op : {"slide"}, win : Win, entry : Entry] \cup [op : {"drop"}, win : Win]
Stages == {"idle", "authed", "read", "accepted",                  \* an action under a window
           "verified", "storing", "indexing",                     \* opening a window
           "reminting",                                           \* a new token for an old one
           "stamped", "listing", "deleting"}                      \* reset and recovery
Request == [pc : Stages, jwt : Jwt \cup {None}, win : Win \cup {None},
            saw : Time,                       \* req.hiveSessionsInvalidatedAt
            entry : Entry \cup {None},        \* what the consume read ...
            cached : BOOLEAN,                 \* ... and whether from memStore
            stamp : Time,                     \* the Date a recovery writes
            listed : SUBSET Win]              \* what SMEMBERS returned

(* A request that acts under a token or a window, and one that rotates credentials. *)
Action(pc, j, w, saw, e, cached) ==
  [pc |-> pc, jwt |-> j, win |-> w, saw |-> saw, entry |-> e, cached |-> cached,
   stamp |-> 0, listed |-> {}]
Rotation(pc, stamp, listed) ==
  [pc |-> pc, jwt |-> None, win |-> None, saw |-> 0, entry |-> None, cached |-> FALSE,
   stamp |-> stamp, listed |-> listed]

Resting == Action("idle", None, None, 0, None, FALSE)
Becomes(r, request) == req' = [req EXCEPT ![r] = request]
Rest(r) == Becomes(r, Resting)

Second(t) == t \div PerSecond
Least(a, b) == IF a <= b THEN a ELSE b

(* Redis answers a command, or it does not (a flap, a timeout, an error). *)
Fault == faults < MaxFaults /\ faults' = faults + 1
NoFault == UNCHANGED faults

----------------------------------------------------------------------------
(* verifyHiveSignature, bearer branch.  The query and what follows it up to    *)
(* the handler's next await are one step.                                      *)

(* `iat <= floor(epoch / 1000)` and not the token of that very event. *)
Revoked(j) == jwt[j].iat <= Second(epoch) /\ jwt[j].re # epoch /\ epoch # 0

Admits(j) == ~Revoked(j)

(* What the request takes along: the token, a window and the epoch it was held against. *)
Admitted(pc, j, w) == Action(pc, j, w, epoch, None, FALSE)

(* A bearer token on a gated route, with the window it presents. *)
Authenticate(r, j, w) ==
  /\ req[r].pc = "idle" /\ jwt[j] # None /\ Admits(j) /\ w \in known
  /\ Becomes(r, Admitted("authed", j, w))
  /\ UNCHANGED <<now, epoch, jwt, red, mem, idx, known, pipe, up, born, cuts, faults>>

(* POST /api/auth/session: the limiter awaits Redis between the check and the mint. *)
AuthenticateSession(r, j) ==
  /\ req[r].pc = "idle" /\ jwt[j] # None /\ Admits(j)
  /\ Becomes(r, Admitted("reminting", j, None))
  /\ UNCHANGED <<now, epoch, jwt, red, mem, idx, known, pipe, up, born, cuts, faults>>

(* The next token in minting order; naming tokens otherwise is the same behaviour. *)
NextToken(j) == jwt[j] = None /\ \A k \in Jwt : k < j => jwt[k] # None
NextWindow(w) == born[w] = 0 /\ \A v \in Win : v < w => born[v] # 0

Mint(j, re) == [jwt EXCEPT ![j] = [iat |-> Second(now), re |-> re, born |-> now]]

RemintSession(r, j) ==
  /\ req[r].pc = "reminting" /\ NextToken(j)
  /\ jwt' = Mint(j, 0)
  /\ Rest(r)
  /\ UNCHANGED <<now, epoch, red, mem, idx, known, pipe, up, born, cuts, faults>>

(* POST /api/auth/login: the password is verified against the row, the token signed.    *)
(* Nothing that was read decides what it says: the mint is all that matters here.       *)
Login(r, j) ==
  /\ req[r].pc = "idle" /\ NextToken(j)
  /\ jwt' = Mint(j, 0)
  /\ UNCHANGED <<now, epoch, red, mem, idx, known, pipe, up, req, born, cuts, faults>>

----------------------------------------------------------------------------
(* Opening a window: POST /api/custody/session-auth and issueSessionFreshAuthToken *)

AuthenticateOpen(r, j) ==
  /\ req[r].pc = "idle" /\ jwt[j] # None /\ Admits(j)
  /\ Becomes(r, Admitted("verified", j, None))
  /\ UNCHANGED <<now, epoch, jwt, red, mem, idx, known, pipe, up, born, cuts, faults>>

Opened == [issued |-> now, idle |-> Least(now + Idle, now + Cap), abs |-> now + Cap]

(* The password has been verified: memStore first, then the SET is awaited. *)
Open(r, w) ==
  /\ req[r].pc = "verified" /\ NextWindow(w)
  /\ born' = [born EXCEPT ![w] = now]
  /\ mem' = [mem EXCEPT ![w] = Opened]
  /\ \/ up /\ Becomes(r, Action("storing", req[r].jwt, w, req[r].saw, Opened, FALSE))
           /\ UNCHANGED known
     \/ ~up /\ Rest(r) /\ known' = known \cup {w}
  /\ UNCHANGED <<now, epoch, jwt, red, idx, pipe, up, cuts, faults>>

Store(r) ==
  /\ req[r].pc = "storing" /\ pipe = <<>>
  /\ red' = [red EXCEPT ![req[r].win] = req[r].entry]
  /\ Becomes(r, Action("indexing", req[r].jwt, req[r].win, req[r].saw, req[r].entry, FALSE))
  /\ UNCHANGED <<now, epoch, jwt, mem, idx, known, pipe, up, born, cuts, faults>>

(* The SET throws, having run or not: memStore serves alone, nothing is indexed. *)
StoreFails(r) ==
  /\ req[r].pc = "storing" /\ Fault
  /\ red' \in {red, [red EXCEPT ![req[r].win] = req[r].entry]}
  /\ known' = known \cup {req[r].win}
  /\ Rest(r)
  /\ UNCHANGED <<now, epoch, jwt, mem, idx, pipe, up, born, cuts>>

(* The index is best effort: its failure is only logged. *)
Index(r) ==
  /\ req[r].pc = "indexing"
  /\ \/ idx' = idx \cup {req[r].win} /\ pipe = <<>> /\ NoFault
     \/ idx' = idx /\ Fault
  /\ known' = known \cup {req[r].win}
  /\ Rest(r)
  /\ UNCHANGED <<now, epoch, jwt, red, mem, pipe, up, born, cuts>>

----------------------------------------------------------------------------
(* Consuming a window: readFreshAuthEntry, consumeSessionWindow *)

Read(r, e, cached) ==
  Becomes(r, Action("read", req[r].jwt, req[r].win, req[r].saw, e, cached))

(* `cached.expiresAt > Date.now()`; expiresAt is the nearer deadline. *)
Cached(w) == mem[w] # None /\ Least(mem[w].idle, mem[w].abs) > now

ReadRedis(r) ==
  /\ req[r].pc = "authed" /\ up /\ pipe = <<>> /\ red[req[r].win] # None
  /\ Read(r, red[req[r].win], FALSE)
  /\ UNCHANGED <<now, epoch, jwt, red, mem, idx, known, pipe, up, born, cuts, faults>>

(* Redis holds nothing, or cannot be asked, or the GET throws. *)
ReadMemory(r) ==
  /\ req[r].pc = "authed"
  /\ \/ ~up /\ NoFault
     \/ up /\ pipe = <<>> /\ red[req[r].win] = None /\ NoFault
     \/ up /\ Fault
  /\ IF Cached(req[r].win) THEN Read(r, mem[req[r].win], TRUE) ELSE Rest(r)
  /\ UNCHANGED <<now, epoch, jwt, red, mem, idx, known, pipe, up, born, cuts>>

PastEpoch(r) == req[r].saw = 0 \/ req[r].entry.issued > req[r].saw
InTime(e) == now < e.abs /\ now < e.idle

(* Mutant: closing the window is left to the sweep. *)
Usable_NoEpoch(r) == InTime(req[r].entry)
Usable(r) == PastEpoch(r) /\ InTime(req[r].entry)

(* Mutant: the slide moves the cap of the window. *)
Slid_Uncapped(e) == [issued |-> e.issued, idle |-> now + Idle, abs |-> now + Cap]
Slid(e) == [issued |-> e.issued, idle |-> Least(now + Idle, e.abs), abs |-> e.abs]

(* The action is authorised and the slide persisted without being awaited: memStore at *)
(* once, Redis only if that is where the entry was read.                               *)
Consume(r) ==
  LET w == req[r].win IN
  /\ req[r].pc = "read" /\ Usable(r)
  /\ mem' = [mem EXCEPT ![w] = Slid(req[r].entry)]
  /\ pipe' = IF up /\ ~req[r].cached
             THEN Append(pipe, [op |-> "slide", win |-> w, entry |-> Slid(req[r].entry)])
             ELSE pipe
  /\ Becomes(r, Action("accepted", req[r].jwt, w, req[r].saw, req[r].entry, req[r].cached))
  /\ UNCHANGED <<now, epoch, jwt, red, idx, known, up, born, cuts, faults>>

(* dropSessionWindow *)
Refuse(r) ==
  LET w == req[r].win IN
  /\ req[r].pc = "read" /\ ~Usable(r)
  /\ mem' = [mem EXCEPT ![w] = None]
  /\ pipe' = IF up THEN Append(pipe, [op |-> "drop", win |-> w]) ELSE pipe
  /\ Rest(r)
  /\ UNCHANGED <<now, epoch, jwt, red, idx, known, up, born, cuts, faults>>

Finish(r) ==
  /\ req[r].pc = "accepted"
  /\ Rest(r)
  /\ UNCHANGED <<now, epoch, jwt, red, mem, idx, known, pipe, up, born, cuts, faults>>

(* The head of the pipe runs.  A slide is SET XX: where the key is gone, its reply  *)
(* removes the copy in memory, unless the reply is lost.                            *)
Slide(c) ==
  IF red[c.win] # None
  THEN red' = [red EXCEPT ![c.win] = c.entry] /\ UNCHANGED mem /\ NoFault
  ELSE /\ UNCHANGED red
       /\ \/ mem' = [mem EXCEPT ![c.win] = None] /\ NoFault
          \/ UNCHANGED mem /\ Fault

ServePipe ==
  /\ pipe # <<>> /\ up
  /\ pipe' = Tail(pipe)
  /\ LET c == Head(pipe) IN
     \/ c.op = "slide" /\ Slide(c) /\ UNCHANGED idx
     \/ c.op = "drop" /\ red' = [red EXCEPT ![c.win] = None] /\ idx' = idx \ {c.win}
        /\ UNCHANGED mem /\ NoFault
  /\ UNCHANGED <<now, epoch, jwt, known, up, req, born, cuts>>

----------------------------------------------------------------------------
(* The writers of the epoch *)

(* POST /api/auth/reset: NOW() of the UPDATE; no token is minted. *)
Reset(r) ==
  /\ req[r].pc = "idle" /\ cuts < MaxCuts
  /\ epoch' = now
  /\ cuts' = cuts + 1
  /\ Becomes(r, Rotation("listing", 0, {}))
  /\ UNCHANGED <<now, jwt, red, mem, idx, known, pipe, up, born, faults>>

(* The recoveries and the upgrade take a Date, then write it: two of them may commit *)
(* in the other order.                                                               *)
Stamp(r) ==
  /\ req[r].pc = "idle" /\ cuts < MaxCuts
  /\ Becomes(r, Rotation("stamped", now, {}))
  /\ cuts' = cuts + 1
  /\ UNCHANGED <<now, epoch, jwt, red, mem, idx, known, pipe, up, born, faults>>

Recover(r) ==
  /\ req[r].pc = "stamped"
  /\ epoch' = req[r].stamp
  /\ Becomes(r, Rotation("listing", req[r].stamp, {}))
  /\ UNCHANGED <<now, jwt, red, mem, idx, known, pipe, up, born, cuts, faults>>

(* invalidateSessionFreshAuthTokens: Redis by the index, then the sweep of memStore in *)
(* one go.  Every failure is swallowed.                                                *)
List(r) ==
  /\ req[r].pc = "listing" /\ up /\ pipe = <<>>
  /\ Becomes(r, Rotation("deleting", req[r].stamp, idx))
  /\ UNCHANGED <<now, epoch, jwt, red, mem, idx, known, pipe, up, born, cuts, faults>>

(* A recovery then signs the token it returns, with the Date it wrote. *)
Sweep(r, j) ==
  /\ mem' = [w \in Win |-> None]
  /\ \/ req[r].stamp = 0 /\ UNCHANGED jwt
     \/ req[r].stamp # 0 /\ NextToken(j) /\ jwt' = Mint(j, req[r].stamp)
  /\ Rest(r)

Delete(r, j) ==
  /\ req[r].pc = "deleting" /\ pipe = <<>>
  /\ red' = [w \in Win |-> IF w \in req[r].listed THEN None ELSE red[w]]
  /\ idx' = {}
  /\ Sweep(r, j)
  /\ UNCHANGED <<now, epoch, known, pipe, up, born, cuts, faults>>

InvalidateFails(r, j) ==
  /\ \/ req[r].pc = "listing" /\ ~up /\ NoFault
     \/ req[r].pc \in {"listing", "deleting"} /\ Fault
  /\ Sweep(r, j)
  /\ UNCHANGED <<now, epoch, red, idx, known, pipe, up, born, cuts>>

----------------------------------------------------------------------------
(* The environment *)

Tick ==
  /\ now < MaxNow
  /\ now' = now + 1
  /\ UNCHANGED <<epoch, jwt, red, mem, idx, known, pipe, up, req, born, cuts, faults>>

(* The connection drops: what was sent and not answered is lost, run or not. *)
Flap ==
  /\ up /\ Fault
  /\ up' = FALSE /\ pipe' = <<>>
  /\ UNCHANGED <<now, epoch, jwt, red, mem, idx, known, req, born, cuts>>

Reconnect ==
  /\ ~up /\ up' = TRUE
  /\ UNCHANGED <<now, epoch, jwt, red, mem, idx, known, pipe, req, born, cuts, faults>>

(* A key's TTL passes or Redis evicts it; the index has a TTL of its own. *)
Evict ==
  /\ Fault
  /\ \/ \E w \in Win : red[w] # None /\ red' = [red EXCEPT ![w] = None] /\ UNCHANGED idx
     \/ idx # {} /\ idx' = {} /\ UNCHANGED red
  /\ UNCHANGED <<now, epoch, jwt, mem, known, pipe, up, req, born, cuts>>

Restart ==
  /\ Fault
  /\ mem' = [w \in Win |-> None] /\ pipe' = <<>> /\ req' = [r \in Req |-> Resting]
  /\ UNCHANGED <<now, epoch, jwt, red, idx, known, up, born, cuts>>

Init ==
  /\ now = 1 /\ epoch = 0
  /\ jwt = [j \in Jwt |-> None]
  /\ red = [w \in Win |-> None] /\ mem = [w \in Win |-> None] /\ idx = {} /\ known = {}
  /\ pipe = <<>> /\ up = TRUE
  /\ req = [r \in Req |-> Resting]
  /\ born = [w \in Win |-> 0] /\ cuts = 0 /\ faults = 0

Minting(r) ==
  \E j \in Jwt : Login(r, j) \/ AuthenticateSession(r, j) \/ RemintSession(r, j)

Opening(r) ==
  \/ \E j \in Jwt : AuthenticateOpen(r, j)
  \/ \E w \in Win : Open(r, w)
  \/ Store(r) \/ StoreFails(r) \/ Index(r)

Acting(r) ==
  \/ \E j \in Jwt, w \in Win : Authenticate(r, j, w)
  \/ ReadRedis(r) \/ ReadMemory(r) \/ Consume(r) \/ Refuse(r) \/ Finish(r)

Rotating(r) ==
  \/ Reset(r) \/ Stamp(r) \/ Recover(r) \/ List(r)
  \/ \E j \in Jwt : Delete(r, j) \/ InvalidateFails(r, j)

Environment == Tick \/ ServePipe \/ Flap \/ Reconnect \/ Evict \/ Restart

Next == Environment \/ \E r \in Req : Minting(r) \/ Opening(r) \/ Acting(r) \/ Rotating(r)

Spec == Init /\ [][Next]_vars

----------------------------------------------------------------------------
TypeOK ==
  /\ now \in Time /\ epoch \in Time
  /\ jwt \in [Jwt -> Token \cup {None}]
  /\ red \in [Win -> Entry \cup {None}] /\ mem \in [Win -> Entry \cup {None}]
  /\ idx \subseteq Win /\ known \subseteq Win
  /\ pipe \in Seq(Command) /\ up \in BOOLEAN
  /\ req \in [Req -> Request]
  /\ born \in [Win -> Time] /\ cuts \in 0..MaxCuts /\ faults \in 0..MaxFaults

(* A request that was let through carries a bearer token and, if it acts, a window,  *)
(* neither of which existed when the epoch it began under was stamped; the one token *)
(* spared is the one that rotation itself returned.  The sweep, the index and Redis  *)
(* may all have failed, and a consume in flight may have put a swept window back.    *)
RevokedStaysOut ==
  \A r \in Req :
    /\ req[r].pc \in {"authed", "read", "accepted", "verified", "reminting"} /\ req[r].saw # 0 =>
         \/ jwt[req[r].jwt].born > req[r].saw
         \/ jwt[req[r].jwt].re = req[r].saw
    /\ req[r].pc = "accepted" /\ req[r].saw # 0 => born[req[r].win] > req[r].saw

(* No activity extends a window past its absolute cap: an action is authorised only  *)
(* within Cap of the moment the window was opened, whatever was slid meanwhile and   *)
(* whichever tier answered.                                                          *)
WithinCap(r) == req[r].pc = "read" /\ req'[r].pc = "accepted" => now < born[req[r].win] + Cap

(* What a session is worth: it ends with the rotation of the credentials, and with its cap. *)
SessionsHold == [][RevokedStaysOut' /\ \A r \in Req : WithinCap(r)]_vars
=============================================================================
