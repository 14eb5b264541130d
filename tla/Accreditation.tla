---------------------------- MODULE Accreditation ----------------------------
(* Who is accredited: a reading of the ops on the chain, in SQL over HAF.  An  *)
(* authority accredits and sanctions; an account is accredited on its own       *)
(* evidence, an address or an ORCID; members vouch, and the server itself      *)
(* accredits who has vouches enough; a member edits the metadata of the own    *)
(* accreditation, which broadcasts the op anew.  HAF lags the chain, the       *)
(* readings are cached, and an op whose broadcast timed out may land later.    *)
EXTENDS Integers, Sequences, FiniteSets, SequencesExt, FiniteSetsExt

CONSTANTS Account, Req, None,
          Subject,    \* whom the authority accredits and sanctions
          Pair,       \* who vouches for whom
          Joiner,     \* who is accredited on their own evidence
          Editor,     \* who edits their metadata
          Poll,       \* the endpoints called: "vouched", "retracted"
          Start,      \* the ops that are indexed when a behaviour begins
          Limits,     \* what update_params sets the threshold to
          Default,    \* DEFAULT_WOT_THRESHOLD
          MaxOps, MaxFaults  \* bounds

AccreditationAssumption ==
  /\ Subject \cup Joiner \cup Editor \subseteq Account /\ Pair \subseteq Account \X Account
  /\ \A p \in Pair : p[1] # p[2]
  /\ {Default, MaxOps, MaxFaults} \subseteq Nat /\ Limits \subseteq Nat /\ Default > 0

VARIABLES
  chain,    \* the ops, in order, each with its block
  flight,   \* ops whose broadcast timed out: they may land yet
  haf,      \* the last block HAF has indexed
  limit,    \* wot_threshold
  snap,     \* vouch_status: of each account, the block it was read at and the threshold, or None
  req,      \* requests
  faults

vars == <<chain, flight, haf, limit, snap, req, faults>>

\* An op: what it does, to whom, who it is by, the method or number it carries, its block, and
\* history: the blocks its content and the sanctions were read at, and HAF's head when its
\* request last dropped the status it rests on from the cache.
Op(act, who, by, with) ==
  [act |-> act, who |-> who, by |-> by, with |-> with, block |-> 0, read |-> 0, saw |-> 0, from |-> 0]

Idle == [pc |-> "idle", me |-> None, to |-> None, op |-> None, from |-> 0]

TypeOK ==
  /\ \A i \in DOMAIN chain : chain[i].act \in {"accredit", "sanction", "vouch", "retract", "params"}
       /\ (i > 1 => chain[i - 1].block <= chain[i].block)
  /\ Len(chain) + Cardinality(flight) <= MaxOps /\ haf \in 0..MaxOps
  /\ limit \in Nat
  /\ \A a \in Account : snap[a] = None \/ snap[a].read \in 0..haf
  /\ \A r \in Req : req[r].pc \in {"idle", "vouched", "retracted", "accrediting", "editing", "checking", "sending"}
  /\ faults \in 0..MaxFaults

Fault == faults < MaxFaults /\ faults' = faults + 1
Chain == <<chain, flight, haf>>
Caches == <<limit, snap>>

-----------------------------------------------------------------------------
(* The reading of a log of ops *)

View(h) == SelectSeq(chain, LAMBDA o : o.block <= h)

\* The last op of a log that does act to who, as the ranking on (block_num, id) finds it.
LastOp(log, P(_)) == Max({0} \cup {i \in DOMAIN log : P(log[i])})
LatestAccredit(log, a) == LastOp(log, LAMBDA o : o.act = "accredit" /\ o.who = a)
Sanction(log, a) == LastOp(log, LAMBDA o : o.act = "sanction" /\ o.who = a)

\* Seeded fault: an accreditation lifts a sanction whatever its method.
AuthAccredit_Any(log, a) == LatestAccredit(log, a)

\* auth_accredit: only an op that is not derived from vouches.
AuthAccredit(log, a) == LastOp(log, LAMBDA o : o.act = "accredit" /\ o.who = a /\ o.with # "wot")

\* accred_pinned: accredited, with no sanction after the last authority accredit.
Pinned(log) ==
  {a \in Account : LatestAccredit(log, a) > 0
     /\ (Sanction(log, a) = 0 \/ AuthAccredit(log, a) > Sanction(log, a))}

\* active_vouches joined with accred_pinned.
Vouchers(log, a) ==
  {v \in Pinned(log) :
     LET last == LastOp(log, LAMBDA o : o.act \in {"vouch", "retract"} /\ o.who = a /\ o.by = v)
     IN last > 0 /\ log[last].act = "vouch"}

Threshold(log) ==
  LET last == LastOp(log, LAMBDA o : o.act = "params") IN IF last = 0 THEN Default ELSE log[last].with

\* active_accreditations: an op of the web of trust counts while the vouches last.
Active(log) ==
  {a \in Pinned(log) : log[LatestAccredit(log, a)].with = "wot"
                         => Cardinality(Vouchers(log, a)) >= Threshold(log)}

\* readSanctionState compares blocks alone: within one block the sanction wins.
Sanctioned(log, a) ==
  LET s == Sanction(log, a) au == AuthAccredit(log, a) IN
  s > 0 /\ (au = 0 \/ log[s].block >= log[au].block)

-----------------------------------------------------------------------------
(* The chain and HAF *)

Lands(o, rest) ==
  /\ LET last == Max({0} \cup {chain[i].block : i \in DOMAIN chain}) IN
     \E b \in {last, last + 1} : b > haf /\ chain' = Append(chain, [o EXCEPT !.block = b])
  /\ flight' = rest /\ UNCHANGED haf

\* A broadcast: it lands and is answered or timed out, it times out and may land, or fails.
Send(o) ==
  \/ Lands(o, flight) /\ UNCHANGED faults
  \/ Fault /\ flight' = flight \cup {o} /\ UNCHANGED <<chain, haf>>
  \/ Fault /\ UNCHANGED Chain

Room == Len(chain) + Cardinality(flight) < MaxOps

LandsLate(o) == Lands(o, flight \ {o}) /\ UNCHANGED <<Caches, req, faults>>

Expires(o) == flight' = flight \ {o} /\ UNCHANGED <<chain, haf, Caches, req, faults>>

Index ==
  /\ \E i \in DOMAIN chain : chain[i].block > haf
  /\ haf' = haf + 1 /\ UNCHANGED <<chain, flight, Caches, req, faults>>

\* Ops that members and governance sign outside the server.
ByClients ==
  /\ Room /\ UNCHANGED <<Caches, req, faults>>
  /\ \/ \E p \in Pair, act \in {"vouch", "retract"} : Lands(Op(act, p[2], p[1], None), flight)
     \/ \E n \in Limits : Lands(Op("params", None, None, n), flight)

\* POST /admin/accreditation/grant.
Grant(a) == Room /\ Send(Op("accredit", a, "authority", "manual")) /\ UNCHANGED <<Caches, req>>

\* POST /admin/accreditation/sanction.
Revoke(a) == Room /\ Send(Op("sanction", a, "authority", None)) /\ UNCHANGED <<Caches, req>>

-----------------------------------------------------------------------------
(* Caches *)

\* startWotThresholdCache and its reload: a failing read gives the default.
RefreshLimit ==
  /\ \/ limit' = Threshold(View(haf)) /\ UNCHANGED faults
     \/ Fault /\ limit' = Default
  /\ UNCHANGED <<Chain, snap, req>>

ExpireStatus(a) ==
  snap[a] # None /\ snap' = [snap EXCEPT ![a] = None] /\ UNCHANGED <<Chain, limit, req, faults>>

Fresh == [read |-> haf, need |-> limit]

\* getVouchSnapshot, of a cache that holds s: a failing read gives null, which is not cached.
Snapshot(a, s, new) ==
  \/ s # None /\ new = s /\ UNCHANGED <<snap, faults>>
  \/ s = None /\ new = Fresh /\ snap' = [snap EXCEPT ![a] = new] /\ UNCHANGED faults
  \/ s = None /\ new = None /\ Fault /\ snap' = [snap EXCEPT ![a] = None]

\* GET /wot/:username.
ReadStatus(a) == snap[a] = None /\ Snapshot(a, None, Fresh) /\ UNCHANGED <<Chain, limit, req>>

\* getAccreditedSet: HAF's set, or a cached one of whatever age.
Accredited(a) == \E h \in 0..haf : a \in Active(View(h))

-----------------------------------------------------------------------------
(* POST /wot/vouch and /wot/retract *)

Ends(r) == req' = [req EXCEPT ![r] = Idle]
Goes(r, pc) == req' = [req EXCEPT ![r].pc = pc]

\* The voucher has broadcast the op before it calls.
PostWot(r, pc, me, to) ==
  /\ req[r] = Idle /\ Accredited(me)
  /\ req' = [req EXCEPT ![r] = [Idle EXCEPT !.pc = pc, !.me = me, !.to = to]]
  /\ UNCHANGED <<Chain, Caches, faults>>

\* Seeded fault: the poll reads the status it finds in the cache.
Polled_Cached(r, new, from) == from = haf /\ Snapshot(req[r].to, snap[req[r].to], new)

\* A round of a poll: the status is dropped from the cache and read again.  A DEL that fails
\* is swallowed, and what the cache holds is served.
Polled(r, new, from) ==
  \/ from = haf /\ Snapshot(req[r].to, None, new)
  \/ /\ snap[req[r].to] # None /\ new = snap[req[r].to] /\ from = req[r].from
     /\ Fault /\ UNCHANGED snap

Vouched(s, r) == s # None /\ req[r].me \in Vouchers(View(s.read), req[r].to)

Answers(r) == {snap[req[r].to], Fresh, None}

\* pollForVouch: until the vouch shows, or the time is up.
PollForVouch(r) ==
  /\ req[r].pc = "vouched"
  /\ \E new \in Answers(r), from \in {haf, req[r].from}, pc \in {"vouched", "accrediting"} :
       /\ Polled(r, new, from) /\ (pc = "vouched" => ~Vouched(new, r))
       /\ req' = [req EXCEPT ![r].pc = pc, ![r].from = from]
  /\ UNCHANGED <<Chain, limit>>

\* pollForRetraction: the answer tells whether the retraction shows; nothing is revoked.
PollForRetraction(r) ==
  /\ req[r].pc = "retracted"
  /\ \E new \in Answers(r), from \in {haf, req[r].from} :
       /\ Polled(r, new, from)
       /\ \/ Ends(r)
          \/ (new = None \/ Vouched(new, r)) /\ UNCHANGED req
  /\ UNCHANGED <<Chain, limit>>

\* Seeded fault: who is accredited already is not asked.
Wanting_Pinned(s, a) == Cardinality(Vouchers(View(s.read), a)) >= s.need

\* Vouches enough, and no accreditation that stands by itself.
Wanting(s, a) ==
  Cardinality(Vouchers(View(s.read), a)) >= s.need /\ a \notin Pinned(View(s.read))

\* broadcastWotAccreditation, up to the reading of sanctions: the poll's status serves.
Judge(r) ==
  /\ req[r].pc = "accrediting"
  /\ LET a == req[r].to IN
     \E new \in Answers(r) :
       /\ Snapshot(a, snap[a], new)
       /\ IF new # None /\ Wanting(new, a)
          THEN req' = [req EXCEPT ![r].pc = "checking", ![r].from = 0,
                                  ![r].op = [Op("accredit", a, "wot", "wot") EXCEPT !.read = new.read, !.from = req[r].from]]
          ELSE Ends(r)
  /\ UNCHANGED <<Chain, limit>>

-----------------------------------------------------------------------------
(* POST /accreditation/verify, the ORCID callback, and the end of a sign-up *)

\* The gates on who is accredited already are left out: the end of a sign-up has none.
Enrol(r, me) ==
  /\ req[r] = Idle
  /\ req' = [req EXCEPT ![r] = [Idle EXCEPT !.pc = "checking", !.me = me, !.to = me,
                                           !.op = Op("accredit", me, "self", "email")]]
  /\ UNCHANGED <<Chain, Caches, faults>>

-----------------------------------------------------------------------------
(* PATCH /accreditation/metadata *)

\* getLatestAccreditOp, uncached: the op the edit is laid over.
BeginEdit(r, me) ==
  /\ req[r] = Idle
  /\ LET prior == LatestAccredit(View(haf), me) IN
     /\ prior > 0
     /\ req' = [req EXCEPT ![r] =
          [pc |-> "editing", me |-> me, to |-> me, from |-> 0,
           op |-> [Op("accredit", me, "edit", chain[prior].with) EXCEPT !.read = haf]]]
  /\ UNCHANGED <<Chain, Caches, faults>>

\* Only members edit, as the cached set has it.
EditByMember(r) ==
  /\ req[r].pc = "editing"
  /\ \/ Accredited(req[r].me) /\ Goes(r, "checking")
     \/ Ends(r)
  /\ UNCHANGED <<Chain, Caches, faults>>

\* Seeded fault: the edit trusts the cached set, which may hold a sanctioned account.
Clear_Edit(r) == req[r].op.by = "edit" \/ ~Sanctioned(View(haf), req[r].to)

Clear(r) == ~Sanctioned(View(haf), req[r].to)

\* readSanctionState, uncached, before every broadcast but the authority's.
ReadSanctionState(r) ==
  /\ req[r].pc = "checking"
  /\ IF Clear(r) THEN req' = [req EXCEPT ![r].pc = "sending", ![r].op.saw = haf] ELSE Ends(r)
  /\ UNCHANGED <<Chain, Caches, faults>>

\* The broadcast; of an edit, once its proof is consumed.
Broadcast(r) ==
  /\ req[r].pc = "sending" /\ Room /\ Send(req[r].op) /\ Ends(r) /\ UNCHANGED Caches

\* HAF does not answer, or the proof or the evidence is refused.
Refused(r) == req[r].pc \in {"editing", "checking", "sending"} /\ Ends(r) /\ UNCHANGED <<Chain, Caches, faults>>

-----------------------------------------------------------------------------
Init ==
  /\ chain = Start /\ flight = {} /\ haf = Len(Start) /\ limit = Default
  /\ snap = [a \in Account |-> None] /\ req = [r \in Req |-> Idle] /\ faults = 0

Step(r) ==
  \/ \E p \in Pair, pc \in Poll : PostWot(r, pc, p[1], p[2])
  \/ PollForVouch(r) \/ PollForRetraction(r) \/ Judge(r)
  \/ \E me \in Joiner : Enrol(r, me)
  \/ \E me \in Editor : BeginEdit(r, me)
  \/ EditByMember(r) \/ ReadSanctionState(r) \/ Broadcast(r) \/ Refused(r)

Next ==
  \/ \E r \in Req : Step(r)
  \/ \E a \in Subject : Grant(a) \/ Revoke(a) \/ ReadStatus(a) \/ ExpireStatus(a)
  \/ \E o \in flight : LandsLate(o) \/ Expires(o)
  \/ Index \/ ByClients \/ RefreshLimit

Spec == Init /\ [][Next]_vars

-----------------------------------------------------------------------------
(* What standing comes from *)

Granted(a) == LastOp(chain, LAMBDA o : o.act = "accredit" /\ o.who = a /\ o.by = "authority")
Suppressed(a) == Sanction(chain, a)
After(k, a, P(_)) == \E i \in k + 1..Len(chain) : chain[i].act = "accredit" /\ chain[i].who = a /\ P(chain[i])

\* A sanction stands until the authority accredits the account again, whoever vouches,
\* edits or brings evidence; only an edit or a self-service accreditation that read the
\* sanctions before HAF had this one can lift it.
SanctionStands ==
  \A a \in Active(chain) :
    Suppressed(a) > Granted(a) =>
      After(Suppressed(a), a, LAMBDA o : o.by \in {"edit", "self"} /\ o.saw < chain[Suppressed(a)].block)

\* An account the authority accredits stays accredited until a sanction, whoever withdraws a
\* vouch; only an op of the web of trust whose content was read before HAF had that
\* accreditation can put it under the vouches again.
GrantStands ==
  \A a \in Account :
    Granted(a) > Suppressed(a) =>
      a \in Active(chain) \/ After(Granted(a), a, LAMBDA o : o.with = "wot" /\ o.read < chain[Granted(a)].block)

\* An accreditation by vouches rests on vouches HAF showed when its request last dropped
\* the status from the cache, or later: one withdrawn before counts for nothing.  A request
\* none of whose DELs went through promises nothing.
VouchesCurrent ==
  \A i \in DOMAIN chain : chain[i].by = "wot" => chain[i].read >= chain[i].from
=============================================================================
