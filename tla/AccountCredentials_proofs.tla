---------------------- MODULE AccountCredentials_proofs ----------------------
(***************************************************************************)
(* Theorems about AccountCredentials, for every set of requests and        *)
(* mailboxes.                                                              *)
(***************************************************************************)
EXTENDS AccountCredentials, TLAPS

USE DEF vars, callVars

(***************************************************************************)
(* The inductive invariant.  A token is tied to the request that minted it *)
(* by what that request has been through, since a request enters one       *)
(* handler and keeps the address it was given there.                       *)
(***************************************************************************)

\* t's handler h has written its token.
Minted(t, h) == op[t] = h /\ step[t] \in {"mailing", "done"}

\* A queued change names a request to change the email, and its address.
ChangeFits(change) ==
    change.token # None =>
        Minted(change.token, "email") /\ to[change.token] = change.to

Queued ==
    /\ ChangeFits(row.change)
    /\ \A r \in Request : ChangeFits(saw[r].change)

\* What was evicted had been written, so no write to come mints it, and the
\* row's reset token is none of it.
Dead ==
    /\ row.reset \notin evicted
    /\ \A t \in evicted : Minted(t, "reset-request") \/ Minted(t, "email")

ResetMinted == row.reset # None => Minted(row.reset, "reset-request")

\* Handlers that are given an address have one.
Addressed ==
    \A r \in Request :
        step[r] # "idle" /\ op[r] \in {"email", "stage", "orcid"}
            => to[r] \in Mailbox

\* Handlers that follow a link hold its token.
Presented ==
    \A r \in Request : step[r] = "read" =>
        /\ op[r] \in {"reset", "email-verify", "recover-verify"}
              => use[r] \in Request
        /\ op[r] = "recover-verify"
              => op[use[r]] = "stage" /\ step[use[r]] # "idle"

\* Nothing of a deleted row is left to fit a row added later.
Gone == ~row.alive => row.reset = None /\ row.change = NoChange

IInv ==
    /\ TypeOK /\ Queued /\ Dead /\ ResetMinted /\ Addressed /\ Presented /\ Gone
    /\ ResetTokenFits

LEMMA InitIInv == Init => IInv
  <1> SUFFICES ASSUME Init PROVE IInv
    OBVIOUS
  <1>1. TypeOK
    <2>1. NoChange \in Change
      BY DEF Change
    <2>2. row \in Row
      <3>1. PICK pass \in {First, None} :
                row = [id |-> 0, alive |-> TRUE, email |-> Home, pass |-> pass,
                       reset |-> None, change |-> NoChange, memo |-> TRUE,
                       upgraded |-> FALSE]
        BY DEF Init
      <3> QED BY <2>1, <3>1, RequestAssumption DEF Row
    <2>3. Blank \in [id : 0..1, change : Change, rows : SUBSET Request]
      BY <2>1 DEF Blank
    <2>4. /\ op \in [Request -> Op] /\ step \in [Request -> Step]
          /\ staged \in [Request -> {"none", "live", "consumed", "gone"}]
      BY DEF Init, Op, Step
    <2> QED BY <2>2, <2>3, <2>4 DEF Init, TypeOK
  <1>2. Queued /\ Dead /\ ResetMinted /\ Addressed /\ Presented /\ Gone
        /\ ResetTokenFits
    BY RequestAssumption
    DEF Init, Queued, ChangeFits, NoChange, Blank, Dead, ResetMinted, Addressed,
        Presented, Gone, ResetTokenFits
  <1> QED BY <1>1, <1>2 DEF IInv

Saw == [id : 0..1, change : Change, rows : SUBSET Request]

(***************************************************************************)
(* A handler's read leaves the row alone; it must only carry away what     *)
(* fits.                                                                   *)
(***************************************************************************)
LEMMA ReadsKeep ==
    ASSUME IInv, NEW r \in Request, NEW h \in Op, NEW a \in Mailbox \cup {None},
           NEW t \in Request \cup {None}, NEW what \in Saw,
           Reads(r, h, a, t, what),
           ChangeFits(what.change),
           h \in {"email", "stage", "orcid"} => a \in Mailbox,
           h \in {"reset", "email-verify", "recover-verify"} => t \in Request,
           h = "recover-verify" => op[t] = "stage" /\ step[t] # "idle"
    PROVE  IInv'
  <1> USE DEF IInv
  <1>1. TypeOK'
    BY DEF TypeOK, Reads, Step, Saw
  <1>2. \A q \in Request : step[q] # "idle" =>
            op'[q] = op[q] /\ step'[q] = step[q] /\ to'[q] = to[q]
    BY DEF TypeOK, Reads
  <1>3. \A change \in Change : ChangeFits(change) => ChangeFits(change)'
    BY <1>2 DEF ChangeFits, Minted, Change, NoChange
  <1>4. row \in Row /\ \A q \in Request : saw[q] \in Saw
    BY DEF TypeOK, Saw
  <1>5. Queued'
    <2>1. ChangeFits(row.change)'
      BY <1>3, <1>4 DEF Queued, Reads, Row
    <2>2. ASSUME NEW q \in Request PROVE ChangeFits(saw[q].change)'
      BY <1>3, <1>4 DEF Queued, Reads, Saw, TypeOK
    <2> QED BY <2>1, <2>2 DEF Queued
  <1>6. Dead' /\ ResetMinted'
    BY <1>2 DEF Dead, ResetMinted, Minted, Reads, TypeOK, Row
  <1>7. Addressed' /\ Presented'
    BY <1>2, RequestAssumption DEF Addressed, Presented, Reads, TypeOK
  <1>8. Gone' /\ ResetTokenFits'
    BY <1>2 DEF Gone, ResetTokenFits, ResetMinted, Minted, Reads, TypeOK, Row
  <1> QED BY <1>1, <1>5, <1>6, <1>7, <1>8

LEMMA BlankFits ==
    /\ NoChange \in Change /\ ChangeFits(NoChange)
    /\ Blank \in Saw /\ Blank.change = NoChange
    /\ TypeOK => SawId \in Saw /\ SawId.change = NoChange
  <1>1. NoChange \in Change /\ ChangeFits(NoChange)
    BY DEF NoChange, Change, ChangeFits
  <1>2. Blank \in Saw /\ Blank.change = NoChange
    BY <1>1 DEF Blank, Saw
  <1>3. ASSUME TypeOK PROVE SawId \in Saw /\ SawId.change = NoChange
    <2>1. row.id \in 0..1
      BY <1>3 DEF TypeOK, Row
    <2>2. SawId = [id |-> row.id, change |-> NoChange, rows |-> {}]
      BY DEF SawId, Blank
    <2> QED BY <1>1, <2>1, <2>2 DEF Saw
  <1> QED BY <1>1, <1>2, <1>3

LEMMA BeginKeeps ==
    ASSUME IInv, NEW r \in Request, Begin(r)
    PROVE  IInv'
  <1> USE DEF IInv
  <1> USE BlankFits
  <1>0. row \in Row /\ row.change \in Change /\ row.email \in Mailbox
        /\ ChangeFits(row.change)
    BY DEF TypeOK, Row, Queued
  <1>1. CASE ResetRequestRead(r)
    BY <1>0, <1>1, ReadsKeep DEF ResetRequestRead, Op
  <1>2. CASE ResetRead(r)
    <2>1. PICK t \in Request :
              Reads(r, IF t \in lapsed THEN "reset-expired" ELSE "reset", None,
                    t, SawId)
      BY <1>2 DEF ResetRead
    <2> QED BY <2>1, ReadsKeep DEF Op
  <1>3. CASE EmailRead(r)
    <2> DEFINE what == [SawId EXCEPT !.change = row.change]
    <2>1. what \in Saw /\ what.change = row.change
      BY <1>0 DEF Saw
    <2>2. PICK a \in Mailbox : Reads(r, "email", a, None, what)
      BY <1>3 DEF EmailRead
    <2> QED BY <1>0, <2>1, <2>2, ReadsKeep DEF Op
  <1>4. CASE EmailVerifyRead(r)
    BY <1>4, ReadsKeep DEF EmailVerifyRead, Op
  <1>5. CASE SetPasswordRead(r)
    BY <1>5, ReadsKeep DEF SetPasswordRead, Op
  <1>6. CASE StageRead(r)
    BY <1>6, ReadsKeep DEF StageRead, Op
  <1>7. CASE RecoverVerifyRead(r)
    BY <1>7, ReadsKeep DEF RecoverVerifyRead, Mailed, Op
  <1>8. CASE OrcidRead(r)
    BY <1>8, ReadsKeep DEF OrcidRead, Op
  <1>9. CASE UpgradeRead(r)
    BY <1>9, ReadsKeep DEF UpgradeRead, Op
  <1> QED BY <1>1, <1>2, <1>3, <1>4, <1>5, <1>6, <1>7, <1>8, <1>9 DEF Begin

(***************************************************************************)
(* A handler's last write.                                                 *)
(***************************************************************************)

\* Leaving a handler keeps what tokens are tied to.
LEMMA LeavesKeeps ==
    ASSUME IInv, NEW r \in Request, step[r] # "idle", Leaves(r)
    PROVE  /\ op' \in [Request -> Op] /\ step' \in [Request -> Step]
           /\ to' \in [Request -> Mailbox \cup {None}]
           /\ use' \in [Request -> Request \cup {None}]
           /\ saw' \in [Request -> Saw]
           /\ \A t \in Request, h \in Op :
                 Minted(t, h) \/ (t = r /\ op[t] = h) => Minted(t, h)'
           /\ to' = to
           /\ \A change \in Change : ChangeFits(change) => ChangeFits(change)'
           /\ \A q \in Request : ChangeFits(saw[q].change)'
           /\ Addressed' /\ Presented'
  <1> USE DEF IInv
  <1> USE BlankFits
  <1>1. /\ op' \in [Request -> Op] /\ step' \in [Request -> Step]
        /\ to' \in [Request -> Mailbox \cup {None}]
        /\ use' \in [Request -> Request \cup {None}]
        /\ saw' \in [Request -> Saw]
    BY DEF Leaves, TypeOK, Step, Saw
  <1>2. \A t \in Request :
            /\ op'[t] = op[t] /\ to'[t] = to[t]
            /\ step'[t] = IF t = r THEN "done" ELSE step[t]
            /\ t # r => use'[t] = use[t] /\ saw'[t] = saw[t]
    BY DEF Leaves, TypeOK
  <1>3. \A t \in Request, h \in Op :
            Minted(t, h) \/ (t = r /\ op[t] = h) => Minted(t, h)'
    BY <1>2 DEF Minted
  <1>4. \A change \in Change : ChangeFits(change) => ChangeFits(change)'
    BY <1>2, <1>3 DEF ChangeFits, Change, NoChange, Op
  <1>5. ASSUME NEW q \in Request PROVE ChangeFits(saw[q].change)'
    <2>1. CASE q = r
      <3>1. saw'[q].change = NoChange
        BY <2>1 DEF Leaves, TypeOK
      <3> QED BY <1>4, <3>1
    <2>2. CASE q # r
      BY <1>2, <1>4, <2>2 DEF Queued, TypeOK
    <2> QED BY <2>1, <2>2
  <1>6. Addressed' /\ Presented'
    BY <1>2 DEF Addressed, Presented, TypeOK
  <1> QED BY <1>1, <1>2, <1>3, <1>4, <1>5, <1>6 DEF Leaves

\* A write that ends a handler: a queued change that fits, a reset token that
\* stays with its address and password or is new, evictions only where the
\* reset token goes.
LEMMA UpdateKeeps ==
    ASSUME IInv, NEW r \in Request, step[r] # "idle", Leaves(r),
           row' \in Row, row'.alive \/ row' = row,
           ChangeFits(row'.change),
           \/ row'.reset = None
           \/ row'.reset = row.reset /\ row'.email = row.email /\ row'.pass # None
           \/ row'.reset = r /\ At(r, "reset-request", "read")
                /\ row'.email = to[r] /\ row'.pass # None,
           evicted' = evicted \/ (Evicts /\ (row' # row => row'.reset = None)),
           staged' \in [Request -> {"none", "live", "consumed", "gone"}],
           UNCHANGED <<disputed, lapsed>>
    PROVE  IInv'
  <1> USE DEF IInv
  <1>1. row'.change \in Change /\ row.change \in Change
        /\ row.reset \in Request \cup {None} /\ row'.reset \in Request \cup {None}
    BY DEF Row, TypeOK
  <1>2. evicted' \subseteq evicted \cup ({row.reset, row.change.token} \ {None})
    BY DEF Evicts
  <1>3. TypeOK'
    <2>1. row.change.token \in Request \cup {None}
      BY <1>1 DEF Change, NoChange
    <2> QED BY <1>1, <1>2, <2>1, LeavesKeeps DEF TypeOK, Saw
  <1>4. Queued' /\ Addressed' /\ Presented'
    BY <1>1, LeavesKeeps DEF Queued
  <1>5. ASSUME NEW t \in evicted'
        PROVE  Minted(t, "reset-request")' \/ Minted(t, "email")'
    <2>1. t \in Request
      BY <1>3 DEF TypeOK
    <2>2. Minted(t, "reset-request") \/ Minted(t, "email")
      BY <1>2 DEF Dead, ResetMinted, Queued, ChangeFits
    <2> QED BY <2>1, <2>2, LeavesKeeps DEF Op
  <1>6. row'.reset \notin evicted'
    <2>1. CASE row'.reset = None
      BY <1>3, <2>1, RequestAssumption DEF TypeOK
    <2>2. CASE row'.reset # None /\ evicted' = evicted
      BY <2>2 DEF Dead, Minted, At
    <2>3. CASE row'.reset # None /\ evicted' # evicted
      BY <2>3 DEF Evicts
    <2> QED BY <2>1, <2>2, <2>3
  <1>7. ResetMinted'
    BY <1>1, LeavesKeeps DEF ResetMinted, At, Op
  <1>8. Gone'
    BY DEF Gone
  <1>9. ResetTokenFits'
    BY <1>1, LeavesKeeps DEF ResetTokenFits
  <1> QED BY <1>3, <1>4, <1>5, <1>6, <1>7, <1>8, <1>9 DEF Dead

\* The fields of a row that is kept or updated by one of the handlers.
LEMMA RowFields ==
    ASSUME TypeOK
    PROVE  /\ row \in Row /\ row.alive \in BOOLEAN /\ row.email \in Mailbox
           /\ row.pass \in Request \cup {First, None}
           /\ row.reset \in Request \cup {None} /\ row.change \in Change
           /\ row.change.token \in Request \cup {None}
           /\ row.change # NoChange => row.change.to \in Mailbox
           /\ row.change.token # None => row.change # NoChange
  BY DEF TypeOK, Row, Change, NoChange

LEMMA ResetWritesKeep ==
    ASSUME IInv, NEW r \in Request,
           ResetRequestWrite(r) \/ ResetExpired(r) \/ ResetWrite(r)
    PROVE  IInv'
  <1> USE DEF IInv
  <1> USE BlankFits, RowFields, RequestAssumption
  <1>0. ChangeFits(row.change) /\ (row.reset # None => row.pass # None)
        /\ staged \in [Request -> {"none", "live", "consumed", "gone"}]
    BY DEF Queued, ResetTokenFits, TypeOK
  <1>1. CASE ResetRequestWrite(r)
    <2> DEFINE new == [row EXCEPT !.reset = r]
    <2>1. /\ new \in Row /\ new.alive = row.alive /\ new.email = row.email
          /\ new.pass = row.pass /\ new.reset = r /\ new.change = row.change
      BY DEF Row
    <2>2. row' = row \/ (row' = new /\ row.alive /\ row.email = to[r]
                            /\ row.pass # None)
      BY <1>1 DEF ResetRequestWrite, ById
    <2> HIDE DEF new
    <2> QED BY <1>0, <1>1, <2>1, <2>2, UpdateKeeps DEF ResetRequestWrite, At
  <1>2. CASE ResetExpired(r)
    <2> DEFINE new == [row EXCEPT !.reset = None]
    <2>1. /\ new \in Row /\ new.alive = row.alive /\ new.reset = None
          /\ new.change = row.change
      BY DEF Row
    <2>2. row' = row \/ (row' = new /\ row.alive)
      BY <1>2 DEF ResetExpired, ById
    <2> HIDE DEF new
    <2> QED BY <1>0, <1>2, <2>1, <2>2, UpdateKeeps DEF ResetExpired, At
  <1>3. CASE ResetWrite(r)
    <2>1. /\ Reset(r) \in Row /\ Reset(r).alive = row.alive
          /\ Reset(r).reset = None /\ Reset(r).change = NoChange
      BY DEF Row, Reset
    <2>2. row' = row \/ (row' = Reset(r) /\ row.alive)
      BY <1>3 DEF ResetWrite, ById
    <2> QED BY <1>0, <1>3, <2>1, <2>2, UpdateKeeps DEF ResetWrite, At
  <1> QED BY <1>1, <1>2, <1>3

LEMMA SettingsWritesKeep ==
    ASSUME IInv, NEW r \in Request,
           \/ EmailMailed(r) \/ EmailMailFails(r)
           \/ EmailVerifyWrite(r) \/ SetPasswordWrite(r)
    PROVE  IInv'
  <1> USE DEF IInv
  <1> USE BlankFits, RowFields, RequestAssumption
  <1>0. /\ ChangeFits(row.change) /\ (row.reset # None => row.pass # None)
        /\ staged \in [Request -> {"none", "live", "consumed", "gone"}]
        /\ saw[r].change \in Change /\ ChangeFits(saw[r].change)
    BY DEF Queued, ResetTokenFits, TypeOK
  <1>1. CASE EmailMailed(r)
    BY <1>0, <1>1, UpdateKeeps DEF EmailMailed, At
  <1>2. CASE EmailMailFails(r)
    <2> DEFINE new == [row EXCEPT !.change = saw[r].change]
    <2>1. /\ new \in Row /\ new.alive = row.alive /\ new.email = row.email
          /\ new.pass = row.pass /\ new.reset = row.reset
          /\ new.change = saw[r].change
      BY <1>0 DEF Row
    <2>2. row' = row \/ (row' = new /\ row.change.token = r)
      BY <1>2 DEF EmailMailFails
    <2> HIDE DEF new
    <2>3. CASE row' = row
      BY <1>0, <1>2, <2>3, UpdateKeeps DEF EmailMailFails, At
    <2>4. CASE row' = new /\ row.change.token = r
      <3>1. row.alive
        BY <2>4 DEF Gone
      <3> QED BY <1>0, <1>2, <2>1, <2>4, <3>1, UpdateKeeps DEF EmailMailFails, At
    <2> QED BY <2>2, <2>3, <2>4
  <1>3. CASE EmailVerifyWrite(r)
    <2>1. use[r] \in Request
      BY <1>3 DEF EmailVerifyWrite, At, Presented
    <2>2. CASE row.change.token = use[r]
      <3>1. /\ Swap \in Row /\ Swap.alive = row.alive /\ Swap.reset = None
            /\ Swap.change = NoChange
        BY <2>1, <2>2 DEF Row, Swap
      <3>2. row' = row \/ (row' = Swap /\ row.alive)
        BY <1>3 DEF EmailVerifyWrite, ById
      <3> QED BY <1>0, <1>3, <3>1, <3>2, UpdateKeeps DEF EmailVerifyWrite, At
    <2>3. CASE row.change.token # use[r]
      <3>1. row' = row
        BY <1>3, <2>3 DEF EmailVerifyWrite, ById
      <3> QED BY <1>0, <1>3, <3>1, UpdateKeeps DEF EmailVerifyWrite, At
    <2> QED BY <2>2, <2>3
  <1>4. CASE SetPasswordWrite(r)
    <2> DEFINE new == [row EXCEPT !.pass = r]
    <2>1. /\ new \in Row /\ new.alive = row.alive /\ new.email = row.email
          /\ new.pass = r /\ new.reset = row.reset /\ new.change = row.change
      BY DEF Row
    <2>2. row' = row \/ (row' = new /\ row.alive)
      BY <1>4 DEF SetPasswordWrite, ById
    <2> HIDE DEF new
    <2> QED BY <1>0, <1>4, <2>1, <2>2, UpdateKeeps DEF SetPasswordWrite, At
  <1> QED BY <1>1, <1>2, <1>3, <1>4

LEMMA RecoverFields ==
    ASSUME TypeOK, NEW pass \in Request \cup {None}, NEW email \in Mailbox
    PROVE  LET new == Recover(pass, email)
           IN  /\ new \in Row /\ new.alive = row.alive /\ new.reset = None
               /\ new.change = NoChange /\ new.pass = pass /\ new.email = email
  BY BlankFits, RowFields DEF Row, Recover

LEMMA RecoveryWritesKeep ==
    ASSUME IInv, NEW r \in Request,
           \/ StageCommit(r) \/ RecoverVerifyWrite(r) \/ OrcidWrite(r)
           \/ UpgradeWrite(r) \/ Fail(r)
    PROVE  IInv'
  <1> USE DEF IInv
  <1> USE BlankFits, RowFields, RequestAssumption
  <1>0. /\ ChangeFits(row.change) /\ (row.reset # None => row.pass # None)
        /\ staged \in [Request -> {"none", "live", "consumed", "gone"}]
    BY DEF Queued, ResetTokenFits, TypeOK
  <1>1. CASE StageCommit(r)
    <2>1. staged' \in [Request -> {"none", "live", "consumed", "gone"}]
      BY <1>0, <1>1 DEF StageCommit
    <2> QED BY <1>0, <1>1, <2>1, UpdateKeeps DEF StageCommit, At
  <1>2. CASE RecoverVerifyWrite(r)
    <2>1. use[r] \in Request /\ to[use[r]] \in Mailbox
      BY <1>2 DEF RecoverVerifyWrite, At, Presented, Addressed
    <2>2. row' = row \/ (row' = Recover(use[r], to[use[r]]) /\ row.alive)
      BY <1>2 DEF RecoverVerifyWrite, ById
    <2>3. staged' \in [Request -> {"none", "live", "consumed", "gone"}]
      BY <1>0, <1>2 DEF RecoverVerifyWrite, Consumes
    <2> QED BY <1>0, <1>2, <2>1, <2>2, <2>3, RecoverFields, UpdateKeeps
            DEF RecoverVerifyWrite, At
  <1>3. CASE OrcidWrite(r)
    <2>1. to[r] \in Mailbox
      BY <1>3 DEF OrcidWrite, At, Addressed
    <2>2. PICK pass \in {r, None} :
              row' = row \/ (row' = Recover(pass, to[r]) /\ row.alive)
      BY <1>3 DEF OrcidWrite, ById
    <2> QED BY <1>0, <1>3, <2>1, <2>2, RecoverFields, UpdateKeeps
            DEF OrcidWrite, At
  <1>4. CASE UpgradeWrite(r)
    <2> DEFINE new == [row EXCEPT !.memo = FALSE, !.upgraded = TRUE]
    <2>1. /\ new \in Row /\ new.alive = row.alive /\ new.email = row.email
          /\ new.pass = row.pass /\ new.reset = row.reset
          /\ new.change = row.change
      BY DEF Row
    <2>2. row' = row \/ (row' = new /\ row.alive)
      BY <1>4 DEF UpgradeWrite
    <2> HIDE DEF new
    <2> QED BY <1>0, <1>4, <2>1, <2>2, UpdateKeeps DEF UpgradeWrite, At
  <1>5. CASE Fail(r)
    BY <1>0, <1>5, UpdateKeeps DEF Fail
  <1> QED BY <1>1, <1>2, <1>3, <1>4, <1>5

(***************************************************************************)
(* The steps that do not end a handler.                                    *)
(***************************************************************************)

LEMMA EmailWriteKeeps ==
    ASSUME IInv, NEW r \in Request, EmailWrite(r)
    PROVE  IInv'
  <1> USE DEF IInv
  <1> USE RowFields, RequestAssumption
  <1> DEFINE queued == [token |-> r, to |-> to[r]]
             new == [row EXCEPT !.change = queued]
  <1>1. to[r] \in Mailbox /\ op[r] = "email" /\ step[r] = "read"
    BY DEF EmailWrite, At, Addressed
  <1>2. queued \in Change
    BY <1>1 DEF Change
  <1>3. /\ new \in Row /\ new.alive = row.alive /\ new.email = row.email
        /\ new.pass = row.pass /\ new.reset = row.reset /\ new.change = queued
    BY <1>2 DEF Row
  <1>4. row' = row \/ (row' = new /\ row.alive)
    BY DEF EmailWrite
  <1>5. \A q \in Request :
            /\ step'[q] = (IF q = r THEN "mailing" ELSE step[q])
            /\ op'[q] = op[q] /\ to'[q] = to[q] /\ use'[q] = use[q]
            /\ saw'[q] = saw[q]
    BY DEF EmailWrite, TypeOK
  <1>6. UNCHANGED <<staged, disputed, lapsed, op, to, use, saw, evicted>>
        /\ step' \in [Request -> Step]
    BY DEF EmailWrite, TypeOK, Step
  <1>7. \A t \in Request, h \in Op : Minted(t, h) => Minted(t, h)'
    BY <1>5 DEF Minted
  <1>8. \A change \in Change : ChangeFits(change) => ChangeFits(change)'
    BY <1>5, <1>7 DEF ChangeFits, Change, NoChange, Op
  <1> HIDE DEF new, queued
  <1>9. TypeOK'
    BY <1>3, <1>4, <1>6 DEF TypeOK
  <1>10. Queued'
    <2>1. ChangeFits(row.change)'
      <3>1. CASE row' = row
        <4>1. row.change \in Change /\ ChangeFits(row.change)
          BY DEF Queued
        <4>2. ChangeFits(row.change) => ChangeFits(row.change)'
          <5> DEFINE change == row.change
          <5>1. change' = change
            BY <3>1
          <5> QED BY ONLY <4>1, <5>1, <1>5, RowFields, TypeOK DEF ChangeFits, Minted
        <4> QED BY <4>1, <4>2
      <3>2. CASE row' = new
        <4>1. row'.change.token = r /\ row'.change.to = to[r]
          BY <3>2, <1>3 DEF queued
        <4> QED BY <4>1, <1>1, <1>5 DEF ChangeFits, Minted
      <3> QED BY <3>1, <3>2, <1>4
    <2>2. \A q \in Request : ChangeFits(saw[q].change)'
      BY <1>5, <1>8 DEF Queued, TypeOK
    <2> QED BY <2>1, <2>2 DEF Queued
  <1>11. Dead' /\ ResetMinted'
    BY <1>3, <1>4, <1>6, <1>7 DEF Dead, ResetMinted, TypeOK, Op
  <1>12. Addressed' /\ Presented'
    BY <1>1, <1>5 DEF Addressed, Presented, TypeOK
  <1>13. Gone' /\ ResetTokenFits'
    BY <1>3, <1>4, <1>5, <1>6 DEF Gone, ResetTokenFits
  <1> QED BY <1>9, <1>10, <1>11, <1>12, <1>13

LEMMA StageSweepKeeps ==
    ASSUME IInv, NEW r \in Request, StageSweep(r)
    PROVE  IInv'
  <1> USE DEF IInv
  <1>1. op[r] = "stage" /\ step[r] = "read"
    BY DEF StageSweep, At
  <1>2. \A q \in Request :
            /\ step'[q] = (IF q = r THEN "sweeping" ELSE step[q])
            /\ op'[q] = op[q] /\ to'[q] = to[q] /\ use'[q] = use[q]
            /\ saw'[q].change = saw[q].change
    BY DEF StageSweep, TypeOK
  <1>3. UNCHANGED <<row, staged, disputed, lapsed, op, to, use, evicted>>
    BY DEF StageSweep
  <1>4. TypeOK'
    <2>1. saw' \in [Request -> Saw]
      BY DEF StageSweep, TypeOK, Saw, Unconsumed
    <2> QED BY <2>1, <1>3 DEF StageSweep, TypeOK, Step, Saw
  <1>5. \A t \in Request, h \in {"email", "reset-request"} :
            Minted(t, h) => Minted(t, h)'
    BY <1>1, <1>2 DEF Minted
  <1>6. \A change \in Change : ChangeFits(change) => ChangeFits(change)'
    BY <1>2, <1>5 DEF ChangeFits, Change, NoChange
  <1>7. Queued'
    BY <1>2, <1>3, <1>6, RowFields DEF Queued, TypeOK
  <1>8. Dead' /\ ResetMinted'
    BY <1>3, <1>5, RowFields DEF Dead, ResetMinted, TypeOK
  <1>9. Addressed' /\ Presented'
    BY <1>1, <1>2 DEF Addressed, Presented, TypeOK
  <1>10. Gone' /\ ResetTokenFits'
    BY <1>3 DEF Gone, ResetTokenFits
  <1> QED BY <1>4, <1>7, <1>8, <1>9, <1>10

LEMMA OutsideKeeps ==
    ASSUME IInv,
           \/ Delete \/ Rejoin
           \/ \E r \in Request : Dispute(r) \/ Lapse(r) \/ Purge(r)
    PROVE  IInv'
  <1> USE DEF IInv
  <1> USE RowFields, BlankFits, RequestAssumption
  <1>1. UNCHANGED <<op, step, to, use, saw, evicted>>
    BY DEF Delete, Rejoin, Dispute, Lapse, Purge
  <1>2. /\ staged' \in [Request -> {"none", "live", "consumed", "gone"}]
        /\ disputed' \subseteq Request /\ lapsed' \subseteq Request
    <2>1. CASE Delete \/ Rejoin
      BY <2>1 DEF Delete, Rejoin, TypeOK
    <2>2. CASE \E r \in Request : Dispute(r) \/ Lapse(r) \/ Purge(r)
      BY <2>2 DEF Dispute, Lapse, Purge, TypeOK
    <2> QED BY <2>1, <2>2
  <1>3. /\ row' \in Row
        /\ \/ row' = row
           \/ row'.reset = None /\ row'.change = NoChange
    <2>1. CASE Delete
      BY <2>1 DEF Delete, Row
    <2>2. CASE Rejoin
      <3>1. PICK a \in Mailbox :
                row' = [row EXCEPT !.id = 1, !.alive = TRUE, !.email = a]
        BY <2>2 DEF Rejoin
      <3>2. row' \in Row
        <4>1. row \in Row /\ 1 \in 0..1
          OBVIOUS
        <4> QED BY ONLY <3>1, <4>1 DEF Row
      <3>3. row'.reset = row.reset /\ row'.change = row.change
        BY <3>1 DEF Row
      <3> QED BY <2>2, <3>2, <3>3 DEF Rejoin, Gone
    <2>3. CASE \E r \in Request : Dispute(r) \/ Lapse(r) \/ Purge(r)
      BY <2>3 DEF Dispute, Lapse, Purge
    <2> QED BY <2>1, <2>2, <2>3
  <1>4. TypeOK'
    BY <1>1, <1>2, <1>3 DEF TypeOK
  <1>5. Queued'
    BY <1>1, <1>3 DEF Queued, ChangeFits, Minted, NoChange
  <1>6. Dead'
    <2>1. None \notin evicted
      BY DEF TypeOK
    <2> QED BY <1>1, <1>3, <2>1 DEF Dead, Minted
  <1>7. ResetMinted' /\ Addressed' /\ Presented' /\ Gone' /\ ResetTokenFits'
    BY <1>1, <1>3 DEF ResetMinted, Minted, Addressed, Presented, Gone,
        ResetTokenFits
  <1> QED BY <1>4, <1>5, <1>6, <1>7

LEMMA StutterKeeps == IInv /\ UNCHANGED vars => IInv'
  BY DEF IInv, TypeOK, Queued, ChangeFits, Minted, Dead, ResetMinted, Addressed,
     Presented, Gone, ResetTokenFits

LEMMA NextIInv == IInv /\ [Next]_vars => IInv'
  <1> SUFFICES ASSUME IInv, [Next]_vars PROVE IInv'
    OBVIOUS
  <1>1. ASSUME NEW r \in Request, Begin(r) PROVE IInv'
    BY <1>1, BeginKeeps
  <1>2. ASSUME NEW r \in Request, Continue(r) PROVE IInv'
    BY <1>2, ResetWritesKeep, SettingsWritesKeep, RecoveryWritesKeep,
       EmailWriteKeeps, StageSweepKeeps DEF Continue
  <1>3. ASSUME NEW r \in Request, Dispute(r) \/ Lapse(r) \/ Purge(r) PROVE IInv'
    BY <1>3, OutsideKeeps
  <1>4. CASE Delete \/ Rejoin
    BY <1>4, OutsideKeeps
  <1>5. CASE UNCHANGED vars
    BY <1>5, StutterKeeps
  <1> QED BY <1>1, <1>2, <1>3, <1>4, <1>5 DEF Next

(***************************************************************************)
(* The theorems.                                                           *)
(***************************************************************************)

\* The inductive invariant: tokens in the row, in what handlers carry and in
\* the history of evictions all belong to requests that minted them.
THEOREM Inductive == Spec => []IInv
  <1>1. Init => IInv
    BY InitIInv
  <1>2. IInv /\ [Next]_vars => IInv'
    BY NextIInv
  <1> QED BY <1>1, <1>2, PTL DEF Spec

\* Whatever handlers interleave, the row keeps its type: no recovery, swap or
\* restore writes an address or token that was never given.
THEOREM TypeCorrect == Spec => []TypeOK
  <1>1. IInv => TypeOK
    BY DEF IInv
  <1> QED BY <1>1, Inductive, PTL

\* POST /reset-request and the writers that race it: a reset token in the row
\* went to the row's address and has a password to replace.
THEOREM ResetTokensFit == Spec => []ResetTokenFits
  <1>1. IInv => ResetTokenFits
    BY DEF IInv
  <1> QED BY <1>1, Inductive, PTL

(***************************************************************************)
(* What a step may do to the password and to the email.                    *)
(***************************************************************************)

LEMMA BeginLeavesRow ==
    ASSUME NEW r \in Request, Begin(r)
    PROVE  row' = row
  BY DEF Begin, Reads, ResetRequestRead, ResetRead, EmailRead, EmailVerifyRead,
     SetPasswordRead, StageRead, RecoverVerifyRead, OrcidRead, UpgradeRead

\* Of the steps that continue a handler, these four may set a password...
LEMMA OtherWritesKeepPassword ==
    ASSUME IInv, NEW r \in Request, Continue(r),
           ~ResetWrite(r), ~SetPasswordWrite(r), ~RecoverVerifyWrite(r),
           ~OrcidWrite(r)
    PROVE  row'.pass = row.pass
  <1>1. row \in Row
    BY DEF IInv, TypeOK
  <1>2. CASE ResetRequestWrite(r) \/ ResetExpired(r)
    BY <1>1, <1>2 DEF ResetRequestWrite, ResetExpired, ById, Row
  <1>3. CASE EmailWrite(r) \/ EmailMailed(r) \/ EmailMailFails(r)
    BY <1>1, <1>3 DEF EmailWrite, EmailMailed, EmailMailFails, Row
  <1>4. CASE EmailVerifyWrite(r)
    BY <1>1, <1>4 DEF EmailVerifyWrite, Swap, ById, Row
  <1>5. CASE UpgradeWrite(r)
    BY <1>1, <1>5 DEF UpgradeWrite, Row
  <1>6. CASE StageSweep(r) \/ StageCommit(r) \/ Fail(r)
    BY <1>6 DEF StageSweep, StageCommit, Fail
  <1> QED BY <1>2, <1>3, <1>4, <1>5, <1>6 DEF Continue

\* ... and these three the email.
LEMMA OtherWritesKeepEmail ==
    ASSUME IInv, NEW r \in Request, Continue(r),
           ~EmailVerifyWrite(r), ~RecoverVerifyWrite(r), ~OrcidWrite(r)
    PROVE  row'.email = row.email
  <1>1. row \in Row
    BY DEF IInv, TypeOK
  <1>2. CASE ResetRequestWrite(r) \/ ResetExpired(r)
    BY <1>1, <1>2 DEF ResetRequestWrite, ResetExpired, ById, Row
  <1>3. CASE EmailWrite(r) \/ EmailMailed(r) \/ EmailMailFails(r)
    BY <1>1, <1>3 DEF EmailWrite, EmailMailed, EmailMailFails, Row
  <1>4. CASE ResetWrite(r)
    BY <1>1, <1>4 DEF ResetWrite, Reset, ById, Row
  <1>5. CASE UpgradeWrite(r) \/ SetPasswordWrite(r)
    BY <1>1, <1>5 DEF UpgradeWrite, SetPasswordWrite, ById, Row
  <1>6. CASE StageSweep(r) \/ StageCommit(r) \/ Fail(r)
    BY <1>6 DEF StageSweep, StageCommit, Fail
  <1> QED BY <1>2, <1>3, <1>4, <1>5, <1>6 DEF Continue

LEMMA ResetIsLive ==
    ASSUME IInv, Next, NEW r \in Request, At(r, "reset", "read"),
           row.pass # r, row'.pass = r
    PROVE  use[r] \notin evicted
  <1> USE DEF IInv
  <1>1. ASSUME NEW q \in Request, Continue(q) PROVE use[r] \notin evicted
    <2>1. CASE ResetWrite(q)
      <3>1. row' = Reset(q) /\ row.reset = use[q]
        BY <2>1 DEF ResetWrite, ById
      <3>2. q = r
        BY <3>1, RowFields DEF Reset, Row
      <3> QED BY <3>1, <3>2 DEF Dead
    <2>2. CASE SetPasswordWrite(q)
      <3>1. row'.pass = q /\ op[q] = "set-password"
        BY <2>2, RowFields DEF SetPasswordWrite, ById, Row, At
      <3> QED BY <3>1 DEF At
    <2>3. CASE RecoverVerifyWrite(q)
      <3>1. /\ use[q] \in Request /\ op[use[q]] = "stage"
            /\ to[use[q]] \in Mailbox
        BY <2>3 DEF RecoverVerifyWrite, At, Presented, Addressed
      <3>2. row'.pass = use[q]
        BY <2>3, <3>1, RecoverFields DEF RecoverVerifyWrite, ById
      <3> QED BY <3>1, <3>2 DEF At
    <2>4. CASE OrcidWrite(q)
      <3>1. to[q] \in Mailbox /\ op[q] = "orcid"
        BY <2>4 DEF OrcidWrite, At, Addressed
      <3>2. row'.pass \in {q, None}
        BY <2>4, <3>1, RecoverFields DEF OrcidWrite, ById
      <3> QED BY <3>1, <3>2, RequestAssumption DEF At
    <2> QED BY <1>1, <2>1, <2>2, <2>3, <2>4, OtherWritesKeepPassword
  <1>2. CASE \E q \in Request : Begin(q) \/ Dispute(q) \/ Lapse(q) \/ Purge(q)
    BY <1>2, BeginLeavesRow DEF Dispute, Lapse, Purge
  <1>3. CASE Delete \/ Rejoin
    <2>1. row'.pass \in {row.pass, None}
      BY <1>3, RowFields DEF Delete, Rejoin, Row
    <2> QED BY <2>1, RequestAssumption
  <1> QED BY <1>1, <1>2, <1>3 DEF Next

\* POST /reset looks its token up, hashes, and writes by the token: one that a
\* reset or a recovery took out of the row meanwhile sets no password.
THEOREM EvictedTokensStayDead == Spec => EvictedResetDead
  <1>1. IInv /\ [Next]_vars =>
            [\A r \in Request :
                At(r, "reset", "read") /\ row.pass # r /\ row'.pass = r
                  => use[r] \notin evicted]_vars
    BY ResetIsLive
  <1> QED BY <1>1, Inductive, PTL DEF Spec, EvictedResetDead

LEMMA EmailChangeIsProven ==
    ASSUME IInv, Next, row'.email # row.email
    PROVE  \/ \E r \in Request :
                /\ op[r] \in {"email-verify", "recover-verify"}
                /\ step[r] = "read" /\ step'[r] = "done"
                /\ to[use[r]] = row'.email
           \/ \E r \in Request : At(r, "orcid", "read") /\ to[r] = row'.email
           \/ Rejoin
  <1> DEFINE Proven == \/ \E r \in Request :
                            /\ op[r] \in {"email-verify", "recover-verify"}
                            /\ step[r] = "read" /\ step'[r] = "done"
                            /\ to[use[r]] = row'.email
                       \/ \E r \in Request :
                            At(r, "orcid", "read") /\ to[r] = row'.email
                       \/ Rejoin
  <1> USE DEF IInv
  <1>1. ASSUME NEW r \in Request, Continue(r) PROVE Proven
    <2>1. CASE EmailVerifyWrite(r)
      <3>1. row' = Swap /\ row.change.token = use[r]
        BY <2>1 DEF EmailVerifyWrite, ById
      <3>2. use[r] \in Request
        BY <2>1 DEF EmailVerifyWrite, At, Presented
      <3>3. row'.email = row.change.to
        BY <3>1, RowFields DEF Swap, Row
      <3>4. to[use[r]] = row.change.to
        BY <3>1, <3>2, RequestAssumption DEF Queued, ChangeFits
      <3>5. op[r] = "email-verify" /\ step[r] = "read" /\ step'[r] = "done"
        BY <2>1 DEF EmailVerifyWrite, At, Leaves, TypeOK
      <3> QED BY <3>3, <3>4, <3>5
    <2>2. CASE RecoverVerifyWrite(r)
      <3>1. use[r] \in Request /\ to[use[r]] \in Mailbox
        BY <2>2 DEF RecoverVerifyWrite, At, Presented, Addressed
      <3>2. row'.email = to[use[r]]
        BY <2>2, <3>1, RecoverFields DEF RecoverVerifyWrite, ById
      <3>3. op[r] = "recover-verify" /\ step[r] = "read" /\ step'[r] = "done"
        BY <2>2 DEF RecoverVerifyWrite, At, Leaves, TypeOK
      <3> QED BY <3>2, <3>3
    <2>3. CASE OrcidWrite(r)
      <3>1. to[r] \in Mailbox /\ At(r, "orcid", "read")
        BY <2>3 DEF OrcidWrite, At, Addressed
      <3>2. row'.email = to[r]
        BY <2>3, <3>1, RecoverFields DEF OrcidWrite, ById
      <3> QED BY <3>1, <3>2
    <2> QED BY <1>1, <2>1, <2>2, <2>3, OtherWritesKeepEmail
  <1>2. CASE \E q \in Request : Begin(q) \/ Dispute(q) \/ Lapse(q) \/ Purge(q)
    BY <1>2, BeginLeavesRow DEF Dispute, Lapse, Purge
  <1>3. CASE Delete
    BY <1>3, RowFields DEF Delete, Row
  <1> QED BY <1>1, <1>2, <1>3 DEF Next

\* GET /email/verify, /recover/verify and the ORCID recovery: the email changes
\* only to the address the link was mailed to, or the verified owner gave.
THEOREM EmailChangesAreProven == Spec => EmailProven
  <1>1. IInv /\ [Next]_vars =>
            [row'.email # row.email =>
               \/ \E r \in Request :
                     /\ op[r] \in {"email-verify", "recover-verify"}
                     /\ step[r] = "read" /\ step'[r] = "done"
                     /\ to[use[r]] = row'.email
               \/ \E r \in Request : At(r, "orcid", "read") /\ to[r] = row'.email
               \/ Rejoin]_vars
    BY EmailChangeIsProven
  <1> QED BY <1>1, Inductive, PTL DEF Spec, EmailProven

==============================================================================
