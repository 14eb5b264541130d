------------------------------- MODULE Signup -------------------------------
(* The life of a signup: the accounts row of one e-mail address, from POST     *)
(* /auth/signup over the mailed verification link to the activation by         *)
(* /confirm, which creates the Hive account and stores its keys, or by /link.  *)
(* Every handler reads the row, awaits (argon2, SMTP, the chain) and writes    *)
(* with a statement that repeats some of what it had read; the activation lock *)
(* in Redis is the single-fire guard of account creation.                      *)
(*                                                                             *)
(* A person is known by the password they chose, a row by its id, which an     *)
(* INSERT never reuses.  The accreditation that follows the activation is      *)
(* OrcidBinding's.  The lock's TTL exceeds what a live holder can take, so it  *)
(* lapses only after its holder died.                                          *)
EXTENDS Integers, FiniteSets

CONSTANTS Req,       \* concurrent requests
          Person,    \* who signs up with the address: a password
          Choice,    \* what /confirm is asked for: [user, keys]
          Foreign,   \* keys of somebody else on Hive
          None,      \* no request, no row, no keys
          MaxTok,    \* bound on the tokens minted
          MaxFaults  \* bound on crashes, failed writes and lagging reads

User == {c.user : c \in Choice}
Keys == {c.keys : c \in Choice}

\* claim: a state G row, an address a self-custody account registered and has
\* not verified; owned: the same after it was; pending, confirmed: a signup;
\* active: activated.
RowState == {"claim", "owned", "pending", "confirmed", "active"}
Row == [id : 1..(MaxTok + 1), st : RowState, tok : 0..MaxTok, pw : Person \cup {None},
        bound : Person \cup {None},             \* whose browser has the binding cookie
        fresh : BOOLEAN,                        \* expires_at > NOW(), where it is looked at
        user : User \cup {None}, keys : Keys \cup {None}]

\* What an instance must give them.
SignupAssumption ==
  /\ Req \subseteq Nat \ {0} /\ MaxTok \in Nat /\ MaxFaults \in Nat
  /\ Foreign \notin Keys /\ None \notin Keys \cup User \cup Person \cup {Foreign}
  /\ None \notin Row

VARIABLES
  row,     \* the accounts row of the address, None when there is none
  toks,    \* tokens minted so far; verify_token is one of 1..toks
  req,     \* the requests
  lock,    \* the activation lock of each token: its holder, 0 once it died
  chain,   \* the keys of each Hive account
  flight,  \* account creations sent and neither included nor dropped
  made,    \* history: who created an account through /confirm, and for which row
  gone,    \* history: rows deleted
  faults   \* history: faults so far

vars == <<row, toks, req, lock, chain, flight, made, gone, faults>>

Request == [pc : {"idle", "hashing", "mailing", "resending", "expiring", "verifying", "resuming",
                  "creating", "finalizing", "linking"},
            id : 0..(MaxTok + 1), tok : 0..MaxTok, pw : Person \cup {None},
            orcid : BOOLEAN, user : User \cup {None}, keys : Keys \cup {None}]
Creation == [user : User, keys : Keys, id : 1..(MaxTok + 1)]

IdleRequest == [pc |-> "idle", id |-> 0, tok |-> 0, pw |-> None, orcid |-> FALSE,
                user |-> None, keys |-> None]

TypeOK ==
  /\ row \in Row \cup {None}
  /\ toks \in 0..MaxTok
  /\ req \in [Req -> Request]
  /\ lock \in [1..MaxTok -> Req \cup {None, 0}]
  /\ chain \in [User -> Keys \cup {Foreign, None}]
  /\ flight \subseteq Creation /\ made \subseteq Creation
  /\ gone \subseteq 1..(MaxTok + 1)
  /\ faults \in 0..MaxFaults

Is(states) == row # None /\ row.st \in states
Free(r) == req[r].pc = "idle" /\ \A q \in Req : q < r => req[q].pc # "idle"
Set(r, fields) == req' = [req EXCEPT ![r] = fields]
Ends(r) == Set(r, IdleRequest)
Delete == row' = None /\ gone' = gone \cup {row.id}
Keep == UNCHANGED <<row, gone>>
NextId == 1 + toks    \* a fresh id: every INSERT of a signup mints a token as well
Deadlines == UNCHANGED <<chain, flight, made, lock, faults>>

-----------------------------------------------------------------------------
(* POST /signup, /resend-verification, /verify, /resume-signup *)

\* The row is looked at and the password hashed.  An owned, confirmed or active
\* row, or a claim with a factor, is a duplicate.  With a verified ORCID the row
\* will be written as confirmed at once.
SignUp(r) ==
  /\ Free(r) /\ toks < MaxTok
  /\ row = None \/ Is({"claim", "pending"})
  /\ \E p \in Person, orcid \in BOOLEAN :
        Set(r, [IdleRequest EXCEPT !.pc = "hashing", !.pw = p, !.orcid = orcid,
                                   !.id = IF Is({"claim"}) THEN row.id ELSE 0])
  /\ UNCHANGED <<row, toks, gone>> /\ Deadlines

\* Seeded fault: the upsert takes a confirmed row for an abandoned one.
Writable_Confirmed(r) == IF req[r].id # 0 THEN Is({"claim"}) /\ row.id = req[r].id
                         ELSE row = None \/ Is({"pending", "confirmed"})

\* writeSignupRow: the evicted claim must still be the row that was read (the
\* DELETE and the INSERT are one transaction); the upsert leaves a row alone that
\* has meanwhile been confirmed or activated.
Writable(r) == IF req[r].id # 0 THEN Is({"claim"}) /\ row.id = req[r].id
               ELSE row = None \/ Is({"pending"})

WriteSignup(r) ==
  /\ req[r].pc = "hashing" /\ toks < MaxTok
  /\ IF Writable(r)
       THEN /\ row' = [id |-> IF row # None /\ req[r].id = 0 THEN row.id ELSE NextId,
                       st |-> IF req[r].orcid THEN "confirmed" ELSE "pending",
                       tok |-> toks + 1, pw |-> req[r].pw,
                       bound |-> IF req[r].orcid THEN req[r].pw ELSE None,
                       fresh |-> ~req[r].orcid, user |-> None, keys |-> None]
            /\ toks' = toks + 1
            /\ gone' = gone \cup (IF Is({"claim"}) THEN {row.id} ELSE {})
            /\ IF req[r].orcid THEN Ends(r)
               ELSE Set(r, [IdleRequest EXCEPT !.pc = "mailing", !.tok = toks + 1])
       ELSE Ends(r) /\ UNCHANGED <<row, toks, gone>>
  /\ Deadlines

\* The mail goes out, or fails and the row is deleted by the token it was written with.
Mail(r) ==
  /\ req[r].pc = "mailing"
  /\ \/ Keep
     \/ IF row # None /\ row.tok = req[r].tok /\ Is({"pending"}) THEN Delete ELSE Keep
  /\ Ends(r) /\ UNCHANGED toks /\ Deadlines

\* A person who knows the row's password asks for another mail.
Resend(r) ==
  /\ Free(r) /\ Is({"pending"}) /\ toks < MaxTok /\ row.pw # None
  /\ Set(r, [IdleRequest EXCEPT !.pc = "resending", !.id = row.id, !.tok = row.tok])
  /\ UNCHANGED <<row, toks, gone>> /\ Deadlines

WriteResend(r) ==
  /\ req[r].pc = "resending"
  /\ IF Is({"pending"}) /\ row.id = req[r].id /\ row.tok = req[r].tok /\ toks < MaxTok
       THEN /\ row' = [row EXCEPT !.tok = toks + 1, !.fresh = TRUE]
            /\ toks' = toks + 1
       ELSE UNCHANGED <<row, toks>>
  /\ Ends(r) /\ UNCHANGED gone /\ Deadlines

\* /verify with the mailed token: past expires_at the row will be deleted, else the
\* password is checked.  The token may be an older mail's only if it is the row's.
Verify(r) ==
  /\ Free(r) /\ Is({"pending"})
  /\ Set(r, [IdleRequest EXCEPT !.pc = IF row.fresh THEN "verifying" ELSE "expiring",
             !.id = row.id, !.tok = row.tok, !.pw = IF row.fresh THEN row.pw ELSE None])
  /\ UNCHANGED <<row, toks, gone>> /\ Deadlines

\* DELETE FROM accounts WHERE id = $1: nothing else of what was read is repeated.
DeleteExpired(r) ==
  /\ req[r].pc = "expiring"
  /\ IF row # None /\ row.id = req[r].id THEN Delete ELSE Keep
  /\ Ends(r) /\ UNCHANGED toks /\ Deadlines

\* Seeded fault: the UPDATE is keyed on the id alone.
StillHolds_ById(r) == Is({"pending"}) /\ row.id = req[r].id

\* The UPDATE is keyed on the presented token as well as the id.
StillHolds(r) == row # None /\ row.id = req[r].id /\ row.tok = req[r].tok

Confirmed(r) ==
  /\ req[r].pc = "verifying" /\ toks < MaxTok
  /\ IF StillHolds(r)
       THEN /\ row' = [row EXCEPT !.st = "confirmed", !.tok = toks + 1, !.bound = req[r].pw,
                                !.fresh = FALSE]
            /\ toks' = toks + 1
       ELSE UNCHANGED <<row, toks>>
  /\ Ends(r) /\ UNCHANGED gone /\ Deadlines

\* /resume-signup: the password of a confirmed row gives its token and a new binding.
Resume(r) ==
  /\ Free(r) /\ Is({"confirmed"}) /\ row.pw # None
  /\ Set(r, [IdleRequest EXCEPT !.pc = "resuming", !.id = row.id, !.pw = row.pw])
  /\ UNCHANGED <<row, toks, gone>> /\ Deadlines

WriteResume(r) ==
  /\ req[r].pc = "resuming"
  /\ row' = IF row # None /\ row.id = req[r].id
              THEN [row EXCEPT !.bound = req[r].pw] ELSE row
  /\ Ends(r) /\ UNCHANGED <<toks, gone>> /\ Deadlines

-----------------------------------------------------------------------------
(* POST /confirm and /link *)

\* verifyPostingKeyAuthorized: the supplied key is one of the account's.
Authorized(user, keys) == chain[user] = keys

\* acquireSignupActivationLock (SET NX) and the release by nonce: a waiter that
\* gives up, and Redis out of reach, refuse the request and change nothing.
Acquire(tok, r) == lock[tok] = None /\ lock' = [lock EXCEPT ![tok] = r]
Release(tok) == lock' = [lock EXCEPT ![tok] = None]

CreateClaimedAccount(c) == flight' = flight \cup {[user |-> c.user, keys |-> c.keys, id |-> row.id]}

\* withSignupActivationLock, the row by its token, the binding cookie, and the
\* look at the chain: an account of that name is the client's own from an attempt
\* that did not finish, or taken.  A lagging node may not show it.  Where there is
\* none, createClaimedAccount sends the creation.
Confirm(r) ==
  /\ Free(r) /\ Is({"confirmed"})
  /\ \E c \in Choice, seen \in BOOLEAN :
       /\ seen = (chain[c.user] # None) \/ (~seen /\ faults < MaxFaults)
       /\ seen => Authorized(c.user, c.keys)
       /\ faults' = IF seen = (chain[c.user] # None) THEN faults ELSE faults + 1
       /\ IF seen THEN UNCHANGED flight ELSE CreateClaimedAccount(c)
       /\ Set(r, [IdleRequest EXCEPT !.pc = IF seen THEN "finalizing" ELSE "creating",
                  !.id = row.id, !.tok = row.tok, !.user = c.user, !.keys = c.keys])
  /\ Acquire(row.tok, r)
  /\ UNCHANGED <<row, toks, gone, chain, made>>

\* The broadcast resolves once the creation is included.
Resolves(r) ==
  /\ req[r].pc = "creating" /\ chain[req[r].user] = req[r].keys
  /\ Set(r, [req[r] EXCEPT !.pc = "finalizing"])
  /\ UNCHANGED <<row, toks, gone, lock, chain, flight, made, faults>>

\* It times out, is refused by the chain, or the onboarding account has no token
\* left: 500, and the finally of the lock releases it.
Fails(r) ==
  /\ req[r].pc = "creating"
  /\ Ends(r) /\ Release(req[r].tok)
  /\ UNCHANGED <<row, toks, gone, chain, flight, made, faults>>

\* The UPDATE that stores the keys and clears verify_token, keyed on the id; its
\* row count is not looked at.  Or the write fails.
Finalize(r) ==
  /\ req[r].pc = "finalizing"
  /\ \/ /\ row' = IF row # None /\ row.id = req[r].id
                    THEN [row EXCEPT !.st = "active", !.user = req[r].user, !.keys = req[r].keys,
                                     !.tok = 0, !.bound = None]
                    ELSE row
        /\ UNCHANGED faults
     \/ faults < MaxFaults /\ faults' = faults + 1 /\ UNCHANGED row
  /\ Ends(r) /\ Release(req[r].tok)
  /\ UNCHANGED <<toks, gone, chain, flight, made>>

\* /link with a Keychain signature of an existing account, under the same lock.
Link(r) ==
  /\ Free(r) /\ Is({"confirmed"})
  /\ \E u \in User : /\ chain[u] = Foreign
                     /\ Set(r, [IdleRequest EXCEPT !.pc = "linking", !.id = row.id,
                                                   !.tok = row.tok, !.user = u])
  /\ Acquire(row.tok, r)
  /\ UNCHANGED <<row, toks, gone, chain, flight, made, faults>>

WriteLink(r) ==
  /\ req[r].pc = "linking"
  /\ row' = IF row # None /\ row.id = req[r].id
              THEN [row EXCEPT !.st = "active", !.user = req[r].user, !.tok = 0, !.bound = None]
              ELSE row
  /\ Ends(r) /\ Release(req[r].tok)
  /\ UNCHANGED <<toks, gone, chain, flight, made, faults>>

Handle(r) ==
  \/ SignUp(r) \/ WriteSignup(r) \/ Mail(r) \/ Resend(r) \/ WriteResend(r)
  \/ Verify(r) \/ DeleteExpired(r) \/ Confirmed(r) \/ Resume(r) \/ WriteResume(r)
  \/ Confirm(r) \/ Resolves(r) \/ Fails(r) \/ Finalize(r)
  \/ Link(r) \/ WriteLink(r)

-----------------------------------------------------------------------------
(* Around them *)

\* cleanupExpiredSignups: an unverified row past its deadline, or a claim past it;
\* a confirmed one stays for 30 days.
CleanUp ==
  /\ Is({"pending", "claim"}) /\ ~row.fresh
  /\ Delete /\ UNCHANGED <<toks, req>> /\ Deadlines

Lapse ==
  /\ Is({"pending", "claim"}) /\ row.fresh
  /\ row' = [row EXCEPT !.fresh = FALSE]
  /\ UNCHANGED <<toks, req, gone>> /\ Deadlines

\* A self-custody account registers the address in its settings, and may verify it.
ClaimAddress ==
  /\ \/ /\ row = None /\ toks < MaxTok /\ toks' = toks + 1
        /\ row' = [id |-> NextId, st |-> "claim", tok |-> toks + 1, pw |-> None, bound |-> None,
                   fresh |-> TRUE, user |-> None, keys |-> None]
     \/ Is({"claim"}) /\ row' = [row EXCEPT !.st = "owned", !.tok = 0, !.fresh = FALSE] /\ UNCHANGED toks
  /\ UNCHANGED <<req, gone>> /\ Deadlines

\* A creation is included if the name is free, or never is; somebody else takes a name.
Chain ==
  /\ \/ \E c \in flight :
          /\ flight' = flight \ {c}
          /\ IF chain[c.user] = None
               THEN \/ chain' = [chain EXCEPT ![c.user] = c.keys] /\ made' = made \cup {c}
                    \/ UNCHANGED <<chain, made>>
               ELSE UNCHANGED <<chain, made>>
     \/ \E u \in User : /\ chain[u] = None /\ chain' = [chain EXCEPT ![u] = Foreign]
                        /\ UNCHANGED <<flight, made>>
  /\ UNCHANGED <<row, toks, req, gone, lock, faults>>

\* The process dies; what it held in Redis stays until its TTL.
Crash ==
  /\ faults < MaxFaults /\ faults' = faults + 1
  /\ \E r \in Req : req[r].pc # "idle"
  /\ req' = [r \in Req |-> IdleRequest]
  /\ lock' = [t \in DOMAIN lock |-> IF lock[t] = None THEN None ELSE 0]
  /\ UNCHANGED <<row, toks, gone, chain, flight, made>>

LockExpires ==
  /\ \E t \in DOMAIN lock : lock[t] = 0 /\ Release(t)
  /\ UNCHANGED <<row, toks, req, gone, chain, flight, made, faults>>

Init ==
  /\ row = None /\ toks = 0 /\ req = [r \in Req |-> IdleRequest]
  /\ lock = [t \in 1..MaxTok |-> None] /\ chain = [u \in User |-> None]
  /\ flight = {} /\ made = {} /\ gone = {} /\ faults = 0

Next == \/ \E r \in Req : Handle(r)
        \/ CleanUp \/ Lapse \/ ClaimAddress \/ Chain \/ Crash \/ LockExpires

Spec == Init /\ [][Next]_vars

-----------------------------------------------------------------------------
(* Properties *)

\* The browser that holds the binding of a confirmed row belongs to whoever knows
\* the row's password: a signup retry that replaced both while the mailed link was
\* being checked must not leave one person's link confirming the other's row.
BoundToPassword == Is({"confirmed"}) => row.bound = row.pw

\* No Hive account that a signup created is stranded: as long as its row was neither
\* deleted nor activated under another name, the row is activated with that name or
\* still carries the confirmed token with which /confirm can be repeated.
NeverStranded ==
  \A c \in made :
     \/ c.id \in gone
     \/ row # None /\ row.id = c.id /\ row.st \in {"confirmed", "active"}
=============================================================================
