------------------------ MODULE AccountCredentials ------------------------
(***************************************************************************)
(* The ways into one PEvO account: its password, its email and the tokens  *)
(* mailed for changing either.  The handlers of routes/auth.ts (reset),    *)
(* routes/settings.ts (email change, deletion, set-password),              *)
(* routes/recover.ts (seed-phrase and ORCID recovery), routes/custody.ts   *)
(* (upgrade) and recovery-purge.ts share its `accounts` row and its        *)
(* `pending_recovery` rows.  Each reads, awaits (a password hash, a fresh  *)
(* proof, a mail server, a Hive node), and writes by what it read.         *)
(*                                                                         *)
(* A request stands for the tokens it mints, the address they are mailed   *)
(* to and the password it was given; a token is presented only by someone  *)
(* it was mailed to.                                                       *)
(***************************************************************************)
EXTENDS Naturals, FiniteSets

CONSTANTS
    Request,
    Mailbox,
    Home,       \* the address the account signed up with
    First,      \* and its password
    None

ASSUME RequestAssumption ==
    /\ IsFiniteSet(Request)
    /\ First \notin Request /\ None \notin Request /\ First # None
    /\ Home \in Mailbox /\ None \notin Mailbox

VARIABLES
    row,        \* the accounts row
    staged,     \* the pending_recovery row a request has staged
    disputed,   \* those with disputed_at
    lapsed,     \* requests whose tokens have expired
    op,         \* the handler a request is in
    step,       \* how far it has come
    to,         \* the address it was given
    use,        \* the request whose token it presents
    saw,        \* what it has read: the row's id, and a queued change
    evicted     \* history: tokens in force when an eviction rewrote the row

callVars == <<op, step, to, use, saw>>
vars == <<row, staged, disputed, lapsed, callVars, evicted>>

\* pending_email and pending_email_token.
NoChange == [token |-> None, to |-> None]
Change == {NoChange} \cup [token : Request, to : Mailbox]

\* `memo` stands for memo_key_enc and for the ORCID of a light account, `id`
\* for the generations of a username whose row was deleted and added again.
Row == [id : 0..1, alive : BOOLEAN, email : Mailbox,
        pass : Request \cup {First, None}, reset : Request \cup {None},
        change : Change, memo : BOOLEAN, upgraded : BOOLEAN]
Op == {"none", "reset-request", "reset", "reset-expired", "email",
       "email-verify", "stage", "recover-verify", "orcid", "set-password",
       "upgrade"}
Step == {"idle", "read", "mailing", "sweeping", "done"}

TypeOK ==
    /\ row \in Row
    /\ staged \in [Request -> {"none", "live", "consumed", "gone"}]
    /\ disputed \subseteq Request /\ lapsed \subseteq Request
    /\ op \in [Request -> Op]
    /\ step \in [Request -> Step]
    /\ to \in [Request -> Mailbox \cup {None}]
    /\ use \in [Request -> Request \cup {None}]
    /\ saw \in [Request -> [id : 0..1, change : Change, rows : SUBSET Request]]
    /\ evicted \subseteq Request

Blank == [id |-> 0, change |-> NoChange, rows |-> {}]

\* A light account, with a password or without one (ORCID signup).
Init ==
    /\ row \in [id : {0}, alive : {TRUE}, email : {Home}, pass : {First, None},
                reset : {None}, change : {NoChange}, memo : {TRUE},
                upgraded : {FALSE}]
    /\ staged = [r \in Request |-> "none"]
    /\ disputed = {} /\ lapsed = {} /\ evicted = {}
    /\ op = [r \in Request |-> "none"]
    /\ step = [r \in Request |-> "idle"]
    /\ to = [r \in Request |-> None]
    /\ use = [r \in Request |-> None]
    /\ saw = [r \in Request |-> Blank]

------------------------------------------------------------------------------
(* The shape of a handler: it begins with a read and ends with a write.      *)

\* r enters handler h with address a and the token of t, after a read that
\* leaves it with what.
Reads(r, h, a, t, what) ==
    /\ step[r] = "idle"
    /\ op' = [op EXCEPT ![r] = h]
    /\ step' = [step EXCEPT ![r] = "read"]
    /\ to' = [to EXCEPT ![r] = a]
    /\ use' = [use EXCEPT ![r] = t]
    /\ saw' = [saw EXCEPT ![r] = what]
    /\ UNCHANGED <<row, staged, disputed, lapsed, evicted>>

SawId == [Blank EXCEPT !.id = row.id]

\* r leaves its handler; what it read is forgotten, not where its mail went.
Leaves(r) ==
    /\ step' = [step EXCEPT ![r] = "done"]
    /\ use' = [use EXCEPT ![r] = None]
    /\ saw' = [saw EXCEPT ![r] = Blank]
    /\ UNCHANGED <<op, to>>

At(r, h, s) == op[r] = h /\ step[r] = s

\* UPDATE accounts ... WHERE id = what r read AND condition.
ById(r, condition, update) ==
    row' = IF row.alive /\ row.id = saw[r].id /\ condition THEN update ELSE row

\* A recovery or a reset takes the tokens it finds in force out of the row.
Evicts ==
    evicted' = IF row' = row THEN evicted
               ELSE evicted \cup ({row.reset, row.change.token} \ {None})

\* t is a token mailed by handler h that its holder can present.
Mailed(t, h) == op[t] = h /\ step[t] \notin {"idle", "read"} /\ t \notin lapsed

------------------------------------------------------------------------------
(* routes/auth.ts: the password reset.                                       *)

ResetRequestRead(r) ==
    /\ row.alive /\ row.pass # None
    /\ Reads(r, "reset-request", row.email, None, SawId)

\* WHERE id alone.
ResetRequestWrite_Unguarded(r) ==
    /\ At(r, "reset-request", "read")
    /\ ById(r, TRUE, [row EXCEPT !.reset = r])
    /\ Leaves(r)
    /\ UNCHANGED <<staged, disputed, lapsed, evicted>>

\* WHERE ... AND email = $4 AND password_hash IS NOT NULL; the mail goes out
\* whether the row took the token or not.
ResetRequestWrite(r) ==
    /\ At(r, "reset-request", "read")
    /\ ById(r, row.email = to[r] /\ row.pass # None, [row EXCEPT !.reset = r])
    /\ Leaves(r)
    /\ UNCHANGED <<staged, disputed, lapsed, evicted>>

ResetRead(r) ==
    \E t \in Request :
        /\ op[t] = "reset-request" /\ step[t] = "done"
        /\ row.alive /\ row.reset = t
        /\ Reads(r, IF t \in lapsed THEN "reset-expired" ELSE "reset", None, t,
                 SawId)

\* An expired token is cleared, by the row's id alone.
ResetExpired(r) ==
    /\ At(r, "reset-expired", "read")
    /\ ById(r, TRUE, [row EXCEPT !.reset = None])
    /\ Leaves(r)
    /\ UNCHANGED <<staged, disputed, lapsed, evicted>>

Reset(r) == [row EXCEPT !.pass = r, !.reset = None, !.change = NoChange]

\* WHERE id alone.
ResetWrite_Unguarded(r) ==
    /\ At(r, "reset", "read")
    /\ ById(r, TRUE, Reset(r))
    /\ Leaves(r) /\ Evicts
    /\ UNCHANGED <<staged, disputed, lapsed>>

\* WHERE id AND reset_token = $3 AND password_hash IS NOT NULL, after the hash.
ResetWrite(r) ==
    /\ At(r, "reset", "read")
    /\ ById(r, row.reset = use[r] /\ row.pass # None, Reset(r))
    /\ Leaves(r) /\ Evicts
    /\ UNCHANGED <<staged, disputed, lapsed>>

------------------------------------------------------------------------------
(* routes/settings.ts: email change, set-password, deletion.                 *)

\* The queued change is snapshotted, then the fresh proof is consumed.
EmailRead(r) ==
    \E a \in Mailbox :
        /\ row.alive
        /\ Reads(r, "email", a, None, [SawId EXCEPT !.change = row.change])

\* UPDATE ... WHERE username; then the verification mail.
EmailWrite(r) ==
    /\ At(r, "email", "read")
    /\ row' = IF row.alive
                THEN [row EXCEPT !.change = [token |-> r, to |-> to[r]]]
                ELSE row
    /\ step' = [step EXCEPT ![r] = "mailing"]
    /\ UNCHANGED <<staged, disputed, lapsed, op, to, use, saw, evicted>>

EmailMailed(r) ==
    /\ At(r, "email", "mailing")
    /\ Leaves(r)
    /\ UNCHANGED <<row, staged, disputed, lapsed, evicted>>

\* The relay refuses (it may have sent the mail): the snapshot is put back, if
\* the row still carries this request's token; the UPDATE may fail as well.
EmailMailFails(r) ==
    /\ At(r, "email", "mailing")
    /\ row' \in {row, IF row.change.token = r
                        THEN [row EXCEPT !.change = saw[r].change] ELSE row}
    /\ Leaves(r)
    /\ UNCHANGED <<staged, disputed, lapsed, evicted>>

EmailVerifyRead(r) ==
    \E t \in Request :
        /\ Mailed(t, "email")
        /\ row.alive /\ row.change.token = t
        /\ Reads(r, "email-verify", None, t, SawId)

Swap ==
    [row EXCEPT !.email = row.change.to, !.change = NoChange, !.reset = None]

\* WHERE id alone.
EmailVerifyWrite_Unguarded(r) ==
    /\ At(r, "email-verify", "read")
    /\ ById(r, row.change # NoChange, Swap)
    /\ Leaves(r)
    /\ UNCHANGED <<staged, disputed, lapsed, evicted>>

\* WHERE id AND pending_email_token = $2.
EmailVerifyWrite(r) ==
    /\ At(r, "email-verify", "read")
    /\ ById(r, row.change.token = use[r], Swap)
    /\ Leaves(r)
    /\ UNCHANGED <<staged, disputed, lapsed, evicted>>

\* Only a passwordless account with an ORCID, checked before the proof and the
\* hash; the write is by id.
SetPasswordRead(r) ==
    /\ row.alive /\ row.pass = None /\ (row.memo \/ row.upgraded)
    /\ Reads(r, "set-password", None, None, SawId)

SetPasswordWrite(r) ==
    /\ At(r, "set-password", "read")
    /\ ById(r, TRUE, [row EXCEPT !.pass = r])
    /\ Leaves(r)
    /\ UNCHANGED <<staged, disputed, lapsed, evicted>>

\* One transaction deletes the account and its recovery rows.
Delete ==
    /\ row.alive
    /\ row' = [row EXCEPT !.alive = FALSE, !.memo = FALSE, !.upgraded = FALSE,
                          !.pass = None, !.reset = None, !.change = NoChange]
    /\ staged' = [t \in Request |->
                    IF staged[t] = "none" THEN "none" ELSE "gone"]
    /\ UNCHANGED <<disputed, lapsed, callVars, evicted>>

\* The owner adds a row for the username again, by Hive signature, and verifies
\* its address: a self-custody row without password, ORCID or memo key.
Rejoin ==
    /\ ~row.alive /\ row.id = 0
    /\ \E a \in Mailbox :
          row' = [row EXCEPT !.id = 1, !.alive = TRUE, !.email = a]
    /\ UNCHANGED <<staged, disputed, lapsed, callVars, evicted>>

------------------------------------------------------------------------------
(* routes/recover.ts: seed-phrase recovery in two phases, ORCID recovery.    *)

\* The memo key matches; the new password is hashed.
StageRead(r) ==
    \E a \in Mailbox :
        /\ row.alive /\ row.memo
        /\ Reads(r, "stage", a, None, Blank)

Unconsumed == {t \in Request : staged[t] = "live"}

\* BEGIN, DELETE the username's unconsumed rows: it waits for a transaction
\* that is deleting one of them.
StageSweep(r) ==
    /\ At(r, "stage", "read")
    /\ \A t \in Request :
          step[t] = "sweeping" => saw[t].rows \cap Unconsumed = {}
    /\ step' = [step EXCEPT ![r] = "sweeping"]
    /\ saw' = [saw EXCEPT ![r].rows = Unconsumed]
    /\ UNCHANGED <<row, staged, disputed, lapsed, op, to, use, evicted>>

\* INSERT, COMMIT, and the verify and dispute mails.
StageCommit(r) ==
    /\ At(r, "stage", "sweeping")
    /\ staged' = [t \in Request |->
                    IF t = r THEN "live"
                    ELSE IF t \in saw[r].rows THEN "gone" ELSE staged[t]]
    /\ Leaves(r)
    /\ UNCHANGED <<row, disputed, lapsed, evicted>>

\* The staged row, then the account: neither consumed nor disputed, not
\* upgraded since.
RecoverVerifyRead(r) ==
    \E t \in Request :
        /\ Mailed(t, "stage") /\ staged[t] = "live" /\ t \notin disputed
        /\ row.alive /\ ~row.upgraded
        /\ Reads(r, "recover-verify", None, t, SawId)

Recover(pass, email) ==
    [row EXCEPT !.pass = pass, !.email = email, !.reset = None,
                !.change = NoChange]

Consumes(t) ==
    staged' = [staged EXCEPT ![t] = IF @ = "gone" THEN @ ELSE "consumed"]

\* One transaction swaps by the account's id and consumes by the row's: neither
\* is checked again.
RecoverVerifyWrite(r) ==
    /\ At(r, "recover-verify", "read")
    /\ ById(r, TRUE, Recover(use[r], to[use[r]]))
    /\ Consumes(use[r])
    /\ Leaves(r) /\ Evicts
    /\ UNCHANGED <<disputed, lapsed>>

\* /recover/dispute: its read only finds the row's id.
Dispute(t) ==
    /\ op[t] = "stage" /\ staged[t] \in {"live", "consumed"}
    /\ disputed' = disputed \cup {t}
    /\ UNCHANGED <<row, staged, lapsed, callVars, evicted>>

\* A light account with an ORCID; the verified ORCID is spent, the password is
\* hashed if there is one.
OrcidRead(r) ==
    \E a \in Mailbox :
        /\ row.alive /\ row.memo
        /\ Reads(r, "orcid", a, None, SawId)

OrcidWrite(r) ==
    /\ At(r, "orcid", "read")
    /\ \E pass \in {r, None} : ById(r, TRUE, Recover(pass, to[r]))
    /\ Leaves(r) /\ Evicts
    /\ UNCHANGED <<staged, disputed, lapsed>>

\* routes/custody.ts: checked before the Hive lookup, written by username.
UpgradeRead(r) ==
    /\ row.alive /\ ~row.upgraded /\ row.memo
    /\ Reads(r, "upgrade", None, None, Blank)

UpgradeWrite(r) ==
    /\ At(r, "upgrade", "read")
    /\ row' = IF row.alive THEN [row EXCEPT !.memo = FALSE, !.upgraded = TRUE]
              ELSE row
    /\ Leaves(r)
    /\ UNCHANGED <<staged, disputed, lapsed, evicted>>

------------------------------------------------------------------------------
(* Time.                                                                     *)

Lapse(r) ==
    /\ r \notin lapsed /\ op[r] \in {"reset-request", "email", "stage"}
    /\ step[r] = "done"
    /\ lapsed' = lapsed \cup {r}
    /\ UNCHANGED <<row, staged, disputed, callVars, evicted>>

\* Rows that were applied are kept.
Purge_KeepsConsumed(r) ==
    /\ r \in lapsed /\ staged[r] = "live"
    /\ staged' = [staged EXCEPT ![r] = "gone"]
    /\ UNCHANGED <<row, disputed, lapsed, callVars, evicted>>

\* purgeAgedPendingRecovery: past the dispute window, whatever became of them.
Purge(r) ==
    /\ r \in lapsed /\ staged[r] \in {"live", "consumed"}
    /\ staged' = [staged EXCEPT ![r] = "gone"]
    /\ UNCHANGED <<row, disputed, lapsed, callVars, evicted>>

\* A request that fails or whose process dies before its next write.
Fail(r) ==
    /\ step[r] \notin {"idle", "done"}
    /\ Leaves(r)
    /\ UNCHANGED <<row, staged, disputed, lapsed, evicted>>

------------------------------------------------------------------------------

Begin(r) ==
    \/ ResetRequestRead(r) \/ ResetRead(r) \/ EmailRead(r)
    \/ EmailVerifyRead(r) \/ SetPasswordRead(r) \/ StageRead(r)
    \/ RecoverVerifyRead(r) \/ OrcidRead(r) \/ UpgradeRead(r)

Continue(r) ==
    \/ ResetRequestWrite(r) \/ ResetExpired(r) \/ ResetWrite(r)
    \/ EmailWrite(r) \/ EmailMailed(r) \/ EmailMailFails(r)
    \/ EmailVerifyWrite(r) \/ SetPasswordWrite(r)
    \/ StageSweep(r) \/ StageCommit(r) \/ RecoverVerifyWrite(r)
    \/ OrcidWrite(r) \/ UpgradeWrite(r) \/ Fail(r)

Next ==
    \/ \E r \in Request :
          Begin(r) \/ Continue(r) \/ Dispute(r) \/ Lapse(r) \/ Purge(r)
    \/ Delete \/ Rejoin

Spec == Init /\ [][Next]_vars

\* Handlers end, expiries pass, and the hourly purge runs.
FairSpec ==
    /\ Spec
    /\ \A r \in Request :
          WF_vars(Continue(r)) /\ WF_vars(Lapse(r)) /\ WF_vars(Purge(r))

------------------------------------------------------------------------------
(* Properties.                                                               *)

\* A reset token in the row was mailed to the row's own address, and there is
\* a password for it to replace: no swap, recovery or late write of
\* /reset-request leaves one behind that went elsewhere.
ResetTokenFits ==
    row.reset # None => to[row.reset] = row.email /\ row.pass # None

\* A reset token works once, and never again after a reset or a recovery took
\* the account, even for a request that had read it before.
EvictedResetDead ==
    [][\A r \in Request :
          At(r, "reset", "read") /\ row.pass # r /\ row'.pass = r
            => use[r] \notin evicted]_vars

\* The email becomes only an address whose holder followed a link mailed to
\* it, or the one given with a verified ORCID.
EmailProven ==
    [][row'.email # row.email =>
          \/ \E r \in Request :
                /\ op[r] \in {"email-verify", "recover-verify"}
                /\ step[r] = "read" /\ step'[r] = "done"
                /\ to[use[r]] = row'.email
          \/ \E r \in Request : At(r, "orcid", "read") /\ to[r] = row'.email
          \/ Rejoin]_vars

\* A staged address and password hash do not outlive their purpose, not even
\* those a request inserted after the account was deleted: the table empties.
StagedRowsGo ==
    []<>(\A r \in Request : staged[r] \in {"none", "gone"})

------------------------------------------------------------------------------
(* What the documents and comments say.                                      *)

\* ARCHITECTURE.md 6.3: a queued change dies with the eviction, and its link
\* answers as an unknown token does.
EvictedChangeStaysDead == row.change.token \notin evicted

==============================================================================
