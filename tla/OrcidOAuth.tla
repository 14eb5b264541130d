----------------------------- MODULE OrcidOAuth -----------------------------
(* The round trip to ORCID.  /start leaves a state in Redis or in memory, the  *)
(* browser comes back with the state and a code that ORCID exchanges once, and *)
(* the callback does what the flow was begun for: it verifies a signup, logs   *)
(* in, binds the ORCID to the account, or mints a proof.  The state is read,   *)
(* the caller authenticated, and only then is it deleted, so that callbacks    *)
(* that overlap may all pass.  The lock of a binding is in OrcidBinding, the   *)
(* life of a proof in FreshAuthConsent.                                        *)
EXTENDS Integers, FiniteSets, FiniteSetsExt

CONSTANTS Flow,      \* round trips
          Try,       \* callbacks of each: a callback page may be loaded again
          Code,      \* the codes ORCID gives, one for each consent
          Account, Orcid, None,
          Mode,      \* the modes flows are begun in
          Signer,    \* signups that present a verified nonce
          MaxFaults  \* bound on the failures of Redis, the database, ORCID and Hive

Authenticated == {"accredit", "link", "fresh_auth", "session_auth"}
Binds == {"accredit", "link"}

Tiers == {"redis", "memory"}
Begun == [mode : Mode, user : Account \cup {None}]
Used == Orcid \cup {"spent"}
Row == [orcid : Orcid \cup {None}, verified : BOOLEAN]

OAuthAssumption ==
  /\ Mode \subseteq {"signup", "login"} \cup Authenticated
  /\ MaxFaults \in Nat /\ "spent" \notin Orcid
  /\ None \notin Account \cup Used \cup Code \cup Tiers \cup Begun \cup Row

VARIABLES
  flow,    \* what a flow was begun for, and by whom
  state,   \* the tier its state is in
  code,    \* the ORCID whose holder has consented, until the code is exchanged
  cb,      \* the callbacks: where each is, its code, who sent it, the tier it looks in, the
           \* ORCID of the code, and whether another had already passed when it began
  rows,    \* accounts: the ORCID, and whether the email is verified; None without a row
  chain,   \* the accreditations of the accounts, with an ORCID or without
  mail,    \* registrations of an email in flight, by what they have read: "add", "reissue"
  nonce,   \* orcid_verified: the tier of a verification, by the code that gave it
  signer,  \* the signups, and the ORCID of the row one has inserted
  redisUp, faults,
  out,     \* history: outcomes, with the callback and the account
  passed,  \* history: flows that have let a callback through
  proven,  \* history: the ORCIDs an account proved in a flow of its own
  crossed  \* history: rows that were verified when a re-issue wrote them, and not since

vars == <<flow, state, code, cb, passed, rows, mail, crossed, chain, nonce, signer,
          redisUp, faults, out, proven>>
flows == <<flow, state, code, cb, passed>>
emails == <<rows, mail, crossed>>
stored == <<rows, mail, crossed, chain, nonce, signer>>

Fault == faults < MaxFaults /\ faults' = faults + 1
Tier == IF redisUp THEN "redis" ELSE "memory"
IdleTry == [pc |-> "idle", code |-> None, by |-> None, tier |-> None, orcid |-> None, late |-> FALSE]
At(f, t, pc) == cb[f][t].pc = pc
Goto(f, t, pc) == cb' = [cb EXCEPT ![f][t].pc = pc]
EndTry(f, t) == Goto(f, t, "done")
Unverified(u) == rows[u] # None /\ ~rows[u].verified

Callback == [pc : {"idle", "found", "exchange", "handle", "mint", "bind", "record", "done"},
         code : Code \cup {None}, by : Account \cup {None}, tier : Tiers \cup {None},
         orcid : Orcid \cup {None}, late : BOOLEAN]
Signing == [pc : {"idle", "del", "insert", "done"}, code : Code \cup {None}, row : Orcid \cup {None}]
Outcome == [flow : Flow, try : Try, by : Account \cup {None}]

TypeOK ==
  /\ flow \in [Flow -> Begun \cup {None}]
  /\ state \in [Flow -> Tiers \cup {None}] /\ code \in [Code -> Used \cup {None}]
  /\ cb \in [Flow -> [Try -> Callback]]
  /\ rows \in [Account -> Row \cup {None}] /\ mail \in [Account -> SUBSET {"add", "reissue"}]
  /\ chain \in [Account -> Orcid \cup {None, "accredited"}]
  /\ nonce \in [Code -> Tiers \cup {None}] /\ signer \in [Signer -> Signing]
  /\ redisUp \in BOOLEAN /\ faults \in 0..MaxFaults
  /\ out \subseteq Outcome /\ proven \in [Account -> SUBSET Orcid]
  /\ crossed \subseteq Account /\ passed \subseteq Flow

-----------------------------------------------------------------------------
(* To ORCID and back *)

\* POST /start: the state of the flow goes into one tier.
Start(f, mode, user) ==
  /\ flow[f] = None /\ (mode \in Authenticated <=> user # None)
  /\ mode \in Binds => ~Unverified(user)
  /\ flow' = [flow EXCEPT ![f] = [mode |-> mode, user |-> user]]
  /\ state' = [state EXCEPT ![f] = Tier]
  /\ UNCHANGED <<code, cb, passed, stored, redisUp, faults, out, proven>>

\* Whoever sits at a browser consents at ORCID, as often as they like; a code does not say
\* for which state.
Consent(c, orcid) ==
  /\ code[c] = None /\ code' = [code EXCEPT ![c] = orcid]
  /\ UNCHANGED <<flow, state, passed, cb, stored, redisUp, faults, out, proven>>

\* POST /callback, up to the state it finds in the tier that is up.  The browser may be
\* signed in to another account by now, or to none.
Present(f, t, by, c) ==
  /\ At(f, t, "idle") /\ flow[f] # None /\ code[c] # None
  /\ cb' = [cb EXCEPT ![f][t] = [pc |-> IF state[f] = Tier THEN "found" ELSE "done", code |-> c,
                                 by |-> by, tier |-> Tier, orcid |-> None,
                                 late |-> f \in passed]]
  /\ UNCHANGED <<flow, state, code, passed, stored, redisUp, faults, out, proven>>

\* Seeded fault: whoever presents the state is served.
Admitted_Anybody(f, by) == TRUE

\* authenticateRequest, and the caller must be the initiator.
Admitted(f, by) == flow[f].mode \in Authenticated => by = flow[f].user

\* The state is deleted in the tier it was found in, or the caller is refused and it stays.
Consume(f, t) ==
  /\ At(f, t, "found")
  /\ \/ ~Admitted(f, cb[f][t].by) /\ EndTry(f, t) /\ UNCHANGED <<state, passed, faults>>
     \/ /\ Admitted(f, cb[f][t].by)
        /\ LET Deleted == state' = [state EXCEPT ![f] = IF @ = cb[f][t].tier THEN None ELSE @] IN
           \/ /\ (cb[f][t].tier = "redis" => redisUp) /\ Deleted /\ Goto(f, t, "exchange")
              /\ passed' = passed \cup {f} /\ UNCHANGED faults
           \/ /\ cb[f][t].tier = "redis" /\ Fault /\ EndTry(f, t) /\ UNCHANGED passed
              /\ Deleted \/ UNCHANGED state
  /\ UNCHANGED <<flow, code, stored, redisUp, out, proven>>

\* ORCID exchanges a code once; when it does not answer in time it may have.
Exchange(f, t) ==
  LET c == cb[f][t].code Spent == code' = [code EXCEPT ![c] = "spent"] IN
  /\ At(f, t, "exchange")
  /\ \/ /\ code[c] \in Orcid /\ Spent
        /\ cb' = [cb EXCEPT ![f][t].pc = "handle", ![f][t].orcid = code[c]]
        /\ UNCHANGED faults
     \/ EndTry(f, t) /\ code[c] = "spent" /\ UNCHANGED <<code, faults>>
     \/ EndTry(f, t) /\ Fault /\ (Spent \/ UNCHANGED code)
  /\ UNCHANGED <<flow, state, passed, stored, redisUp, out, proven>>

-----------------------------------------------------------------------------
(* What the flow was for *)

Given(f, t, by) == out' = out \cup {[flow |-> f, try |-> t, by |-> by]}

\* handleSignup: enough works by others, and a nonce for the signup form.
HandleSignup(f, t) ==
  /\ At(f, t, "handle") /\ flow[f].mode = "signup" /\ EndTry(f, t)
  /\ nonce' = [nonce EXCEPT ![cb[f][t].code] = Tier] /\ Given(f, t, cb[f][t].by)
  /\ UNCHANGED <<flow, state, code, passed, emails, chain, signer, redisUp, faults, proven>>

\* handleLogin: a session for the account whose row has the ORCID.
HandleLogin(f, t) ==
  /\ At(f, t, "handle") /\ flow[f].mode = "login" /\ EndTry(f, t)
  /\ \E u \in Account : rows[u] # None /\ rows[u].orcid = cb[f][t].orcid /\ Given(f, t, u)
  /\ UNCHANGED <<flow, state, code, passed, stored, redisUp, faults, proven>>

\* handleFreshAuth and handleSessionAuth: the row must have the ORCID.
RowHas(f, t, mode) ==
  /\ At(f, t, "handle") /\ flow[f].mode = mode
  /\ LET row == rows[flow[f].user] IN row # None /\ row.orcid = cb[f][t].orcid
  /\ Goto(f, t, "mint")
  /\ UNCHANGED <<flow, state, code, passed, stored, redisUp, faults, out, proven>>

HandleFreshAuth(f, t) == RowHas(f, t, "fresh_auth")
HandleSessionAuth(f, t) == RowHas(f, t, "session_auth")

\* issueFreshAuthToken and issueSessionFreshAuthToken.
Mint(f, t) ==
  /\ At(f, t, "mint") /\ EndTry(f, t) /\ Given(f, t, cb[f][t].by)
  /\ UNCHANGED <<flow, state, code, passed, stored, redisUp, faults, proven>>

\* Neither binds with an unverified email, nor an ORCID that another account has.
MayBind(f, t, mode) ==
  /\ At(f, t, "handle") /\ flow[f].mode = mode /\ ~Unverified(flow[f].user)
  /\ \A v \in Account \ {flow[f].user} : chain[v] # cb[f][t].orcid
  /\ Goto(f, t, "bind")
  /\ UNCHANGED <<flow, state, code, passed, stored, redisUp, faults, out, proven>>

\* handleAccredit is for accounts that are not accredited, handleLink for those that are.
HandleAccredit(f, t) == MayBind(f, t, "accredit") /\ chain[flow[f].user] = None
HandleLink(f, t) == MayBind(f, t, "link") /\ chain[flow[f].user] # None

\* A handler that refuses, as ORCID, the works count, a sanction or the checks have it.
Refuse(f, t) ==
  /\ At(f, t, "handle") /\ EndTry(f, t)
  /\ UNCHANGED <<flow, state, code, passed, stored, redisUp, faults, out, proven>>

\* The accredit op, under the lock of the binding: it lands, it fails, or it is unknown
\* whether it did, and then nothing is recorded.
Broadcast(f, t) ==
  /\ At(f, t, "bind")
  /\ LET u == flow[f].user
         Lands == /\ chain' = [chain EXCEPT ![u] = cb[f][t].orcid]
                  /\ proven' = [proven EXCEPT ![u] = @ \cup {cb[f][t].orcid}] IN
     \/ Lands /\ Goto(f, t, "record") /\ UNCHANGED faults
     \/ Fault /\ EndTry(f, t) /\ (Lands \/ UNCHANGED <<chain, proven>>)
  /\ UNCHANGED <<flow, state, code, passed, emails, nonce, signer, redisUp, out>>

\* The unique index on the ORCID of a row.
Taken(orcid) ==
  \/ \E u \in Account : rows[u] # None /\ rows[u].orcid = orcid
  \/ \E s \in Signer : signer[s].row = orcid

\* Seeded fault: the update does not look at the email.
Writable_Any(u, orcid) == rows[u] # None /\ (rows[u].orcid = orcid \/ ~Taken(orcid))

\* The row the statement of updateAccountOrcid matches and the index allows.
Writable(u, orcid) == rows[u] # None /\ rows[u].verified /\ (rows[u].orcid = orcid \/ ~Taken(orcid))

\* updateAccountOrcid; that it fails, or matches no row, does not undo the binding.
UpdateAccountOrcid(f, t) ==
  LET u == flow[f].user orcid == cb[f][t].orcid
      Written == IF Writable(u, orcid) THEN rows' = [rows EXCEPT ![u].orcid = orcid] ELSE UNCHANGED rows IN
  /\ At(f, t, "record") /\ EndTry(f, t) /\ Given(f, t, cb[f][t].by)
  /\ (Written /\ UNCHANGED faults) \/ (Fault /\ UNCHANGED rows)
  /\ UNCHANGED <<flow, state, code, passed, mail, crossed, chain, nonce, signer, redisUp, proven>>

-----------------------------------------------------------------------------
(* Signup with a verified ORCID *)

\* POST /signup reads the nonce of a verification in the tier that is up; in memory it is
\* deleted with the reading.
TakeNonce(s, c) ==
  /\ signer[s].pc = "idle" /\ nonce[c] = Tier
  /\ signer' = [signer EXCEPT ![s] =
                  [pc |-> IF Tier = "redis" THEN "del" ELSE "insert", code |-> c, row |-> None]]
  /\ nonce' = IF Tier = "redis" THEN nonce ELSE [nonce EXCEPT ![c] = None]
  /\ UNCHANGED <<flows, emails, chain, redisUp, faults, out, proven>>

DeleteNonce(s) ==
  /\ signer[s].pc = "del" /\ nonce' = [nonce EXCEPT ![signer[s].code] = IF @ = "redis" THEN None ELSE @]
  /\ \/ redisUp /\ signer' = [signer EXCEPT ![s].pc = "insert"] /\ UNCHANGED faults
     \/ Fault /\ signer' = [signer EXCEPT ![s].pc = "done"]
  /\ UNCHANGED <<flows, emails, chain, redisUp, out, proven>>

\* The ORCID a code was exchanged for, which the nonce holds.
Verified(c) ==
  CHOOSE o \in Orcid : \E f \in Flow, t \in Try : cb[f][t].code = c /\ cb[f][t].orcid = o

\* The row of the signup, unless the ORCID is in another row.
InsertRow(s) ==
  /\ signer[s].pc = "insert"
  /\ LET orcid == Verified(signer[s].code) IN
     signer' = [signer EXCEPT ![s].pc = "done", ![s].row = IF Taken(orcid) THEN None ELSE orcid]
  /\ UNCHANGED <<flows, emails, chain, nonce, redisUp, faults, out, proven>>

-----------------------------------------------------------------------------
(* Around it *)

\* POST /settings/email reads whether the account has a row, and whether its email is
\* verified; the change of a verified email leaves the row verified and is not followed.
RegisterEmail(u) ==
  /\ rows[u] = None \/ Unverified(u)
  /\ mail' = [mail EXCEPT ![u] = @ \cup {IF rows[u] = None THEN "add" ELSE "reissue"}]
  /\ UNCHANGED <<flows, rows, crossed, chain, nonce, signer, redisUp, faults, out, proven>>

\* The row of a re-issue has a token again, and with it an unverified email.
Reissued(row) == [row EXCEPT !.verified = FALSE]

\* The write of a registration goes by what it has read: the add inserts, if there is still
\* no row; the re-issue writes its token to the row of that name, verified since or not.
WriteEmail(u, kind) ==
  /\ kind \in mail[u] /\ mail' \in {mail, [mail EXCEPT ![u] = @ \ {kind}]}
  /\ \/ /\ kind = "add" /\ rows[u] = None /\ UNCHANGED crossed
        /\ rows' = [rows EXCEPT ![u] = [orcid |-> None, verified |-> FALSE]]
     \/ /\ kind = "reissue" /\ rows[u] # None /\ rows' = [rows EXCEPT ![u] = Reissued(@)]
        /\ crossed' = IF rows[u].verified THEN crossed \cup {u} ELSE crossed
     \/ (kind = "add") = (rows[u] # None) /\ UNCHANGED <<rows, crossed>>
  /\ UNCHANGED <<flows, chain, nonce, signer, redisUp, faults, out, proven>>

\* The link in the mail verifies the email.
VerifyEmail(u) ==
  /\ Unverified(u) /\ rows' = [rows EXCEPT ![u].verified = TRUE] /\ crossed' = crossed \ {u}
  /\ UNCHANGED <<flows, mail, chain, nonce, signer, redisUp, faults, out, proven>>

\* The cleanup reaps a row that has expired; the mail of an add fails, and its row is deleted.
Reap(u) ==
  /\ Unverified(u) /\ rows[u].orcid = None /\ rows' = [rows EXCEPT ![u] = None]
  /\ crossed' = crossed \ {u}
  /\ UNCHANGED <<flows, mail, chain, nonce, signer, redisUp, faults, out, proven>>

\* Redis is lost or comes back.
Flip ==
  /\ redisUp' = ~redisUp /\ ((redisUp /\ Fault) \/ (~redisUp /\ UNCHANGED faults))
  /\ UNCHANGED <<flows, stored, out, proven>>

\* A state expires, or a verification.
ExpireState(f) ==
  /\ state[f] # None /\ state' = [state EXCEPT ![f] = None]
  /\ UNCHANGED <<flow, passed, code, cb, stored, redisUp, faults, out, proven>>

ExpireNonce(c) ==
  /\ nonce[c] # None /\ nonce' = [nonce EXCEPT ![c] = None]
  /\ UNCHANGED <<flows, emails, chain, signer, redisUp, faults, out, proven>>

Init ==
  /\ flow = [f \in Flow |-> None] /\ state = [f \in Flow |-> None] /\ code = [c \in Code |-> None]
  /\ cb = [f \in Flow |-> [t \in Try |-> IdleTry]] /\ nonce = [c \in Code |-> None]
  /\ signer = [s \in Signer |-> [pc |-> "idle", code |-> None, row |-> None]]
  /\ mail = [u \in Account |-> {}] /\ redisUp = TRUE /\ faults = 0 /\ out = {} /\ crossed = {} /\ passed = {}
  /\ chain \in [Account -> {None, "accredited"} \cup Orcid]
  /\ \A u, v \in Account : u # v /\ chain[u] \in Orcid => chain[u] # chain[v]
  /\ rows \in [Account -> {None} \cup [orcid : Orcid \cup {None}, verified : {TRUE}]]
  /\ \A u \in Account : rows[u] # None => rows[u].orcid \in {None, chain[u]}
  /\ proven = [u \in Account |-> {chain[u]} \cap Orcid]

Next ==
  \/ \E f \in Flow, mode \in Mode, user \in Account \cup {None} : Start(f, mode, user)
  \/ \E c \in Code, orcid \in Orcid : Consent(c, orcid)
  \/ \E f \in Flow, t \in Try :
       \/ \E by \in Account \cup {None}, c \in Code : Present(f, t, by, c)
       \/ Consume(f, t) \/ Exchange(f, t) \/ HandleSignup(f, t) \/ HandleLogin(f, t)
       \/ HandleFreshAuth(f, t) \/ HandleSessionAuth(f, t) \/ Mint(f, t) \/ Refuse(f, t)
       \/ HandleAccredit(f, t) \/ HandleLink(f, t) \/ Broadcast(f, t) \/ UpdateAccountOrcid(f, t)
  \/ \E s \in Signer : DeleteNonce(s) \/ InsertRow(s) \/ \E c \in Code : TakeNonce(s, c)
  \/ \E u \in Account :
       RegisterEmail(u) \/ VerifyEmail(u) \/ Reap(u) \/ \E kind \in mail[u] : WriteEmail(u, kind)
  \/ \E f \in Flow : ExpireState(f)
  \/ \E c \in Code : ExpireNonce(c)
  \/ Flip

Spec == Init /\ [][Next]_vars

-----------------------------------------------------------------------------
(* Properties *)

CodeOf(o) == cb[o.flow][o.try].code

\* A code comes to one outcome, however often it is presented and with whichever states; a
\* flow that has let one callback through serves none that comes after it, in either tier,
\* only those that overlapped with it; and what needs an account goes to the initiator.
OutcomeIsOwn ==
  /\ \A o, p \in out : CodeOf(o) = CodeOf(p) => o = p
  /\ \A o \in out : ~cb[o.flow][o.try].late
  /\ \A o \in out : flow[o.flow].mode \in Authenticated => o.by = flow[o.flow].user

\* The row of an account carries no ORCID that it did not prove, and none beside an
\* unverified email, however bindings, registrations of an email and the cleanup overlap;
\* unless a re-issue, sent off while the email was unverified, wrote its token to the row
\* when it was verified.
RowsProven ==
  \A u \in Account :
    rows[u] # None /\ rows[u].orcid # None =>
      rows[u].orcid \in proven[u] /\ (rows[u].verified \/ u \in crossed)

\* One verification admits one signup.
OneSignup ==
  \A s, v \in Signer :
    s # v /\ signer[s].row # None /\ signer[v].row # None => signer[s].code # signer[v].code
=============================================================================
