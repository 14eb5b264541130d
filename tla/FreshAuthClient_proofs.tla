----------------------- MODULE FreshAuthClient_proofs -----------------------
(* Proofs about FreshAuthClient, for any accounts, any number of actions and   *)
(* acquisitions and any bounds: what a tab keeps of its subject and what it    *)
(* sends is the subject's own, and the prompt is one of the subject's.         *)
EXTENDS FreshAuthClient, FiniteSetTheorems, TLAPS

(***************************************************************************)
(* The inductive invariant.                                                *)
(***************************************************************************)

\* The marker names the account of the tab.
Marked == tab # None => marker = tab.user

\* What is kept is of the account the marker names.
Kept == late \/ {window, held, stash} \subseteq {None, marker}

\* What began under generation g for u is of the subject, as long as the generation stands.
Mine(g, u) == g <= gen /\ (g = gen => tab # None /\ u = tab.user)

\* Acquisitions, actions and an answered round trip are.
FlightsMine == \A f \in Flight : flight[f].pc # "idle" => Mine(flight[f].gen, flight[f].user)
ActsMine == \A a \in Act : act[a].pc # "idle" => Mine(act[a].gen, act[a].user)
TripMine == trip.pc = "callback" => Mine(trip.gen, trip.by)

\* An action waits on a running acquisition of its account and generation, that knows of
\* what it composed.
WaitsWell(r, a) ==
  r.pc = "waiting" =>
    /\ r.on \in Flight /\ flight[r.on].pc # "idle"
    /\ flight[r.on].gen = r.gen /\ flight[r.on].user = r.user
    /\ r.kind = "compose" => a \in flight[r.on].stashes
Waiting == \A a \in Act : WaitsWell(act[a], a)

\* An acquisition that can be joined runs, in this generation.
Slots == \A p \in Shared : slot[p] # None => /\ flight[slot[p]].pc # "idle"
                                             /\ flight[slot[p]].gen = gen
                                             /\ flight[slot[p]].posture = p

\* The prompt is that of one acquisition, of this generation.
Prompted ==
  /\ prompt # None => flight[prompt].pc = "prompt" /\ flight[prompt].gen = gen
  /\ \A f \in Flight : flight[f].pc = "prompt" => prompt = f

\* An action that has a proof has one of its account.
Owes(r) ==
  r.pc \in {"hashing", "sending"} /\ ~late =>
    /\ r.proof = r.user /\ (r.pc = "hashing" => r.kind = "upload")
    /\ r.pc = "sending" => r.sent # None /\ (r.kind # "upload" => r.sent.user = r.user)
Owed == \A a \in Act : Owes(act[a])

\* A page that was left has nothing in memory.
Left ==
  trip.pc = "orcid" => /\ gen = 0 /\ tab = None
                       /\ \A f \in Flight : flight[f].pc = "idle"
                       /\ \A a \in Act : act[a].pc = "idle"

\* The work of the tab.
Flow == FlightsMine /\ ActsMine /\ Waiting /\ Slots /\ Prompted /\ Owed

IInv == TypeOK /\ Marked /\ Kept /\ TripMine /\ Left /\ Flow /\ NothingLost

(***************************************************************************)
(* Typing.                                                                 *)
(***************************************************************************)

\* The types of the work of the tab, and of what it keeps.
WorkOK ==
  /\ gen \in 0..MaxGen /\ slot \in [Shared -> Flight \cup {None}] /\ prompt \in Flight \cup {None}
  /\ flight \in [Flight -> FlightRec] /\ act \in [Act -> ActRec]
KeepOK ==
  /\ tab \in Session \cup {None} /\ marker \in Account \cup {None}
  /\ window \in Account \cup {None} /\ held \in Account \cup {None} /\ stash \in Account \cup {None}
RestOK ==
  /\ stored \in Session \cup {None} /\ events \in Seq(BOOLEAN) /\ trip \in TripRec
  /\ logins \in 0..MaxLogins /\ lost \in BOOLEAN /\ late \in BOOLEAN

\* Together they are the type invariant, when a slot holds an acquisition of its posture.
LEMMA Types ==
    /\ TypeOK => WorkOK /\ KeepOK /\ RestOK
    /\ WorkOK /\ KeepOK /\ RestOK /\ Slots => TypeOK
  <1>1. TypeOK => WorkOK /\ KeepOK /\ RestOK
    BY DEF TypeOK, WorkOK, KeepOK, RestOK
  <1>2. WorkOK /\ KeepOK /\ RestOK /\ Slots => TypeOK
    BY DEF TypeOK, WorkOK, KeepOK, RestOK, Slots
  <1> QED
    BY <1>1, <1>2

\* The same of the next state.
LEMMA TypesNext ==
    ASSUME WorkOK', KeepOK', RestOK', Slots'
    PROVE  TypeOK'
  BY DEF TypeOK, WorkOK, KeepOK, RestOK, Slots

\* What an acquisition and an action hold.
LEMMA FlightHeld ==
    ASSUME WorkOK, NEW f \in Flight
    PROVE  /\ flight[f].pc \in {"idle", "factor", "prompt", "mint", "start"}
           /\ flight[f].gen \in 0..MaxGen /\ flight[f].user \in Account \cup {None}
           /\ flight[f].posture \in Posture /\ flight[f].assumed \in BOOLEAN
           /\ flight[f].tries \in 0..1 /\ flight[f].stashes \in SUBSET Act
           /\ gen \in 0..MaxGen /\ gen \in Nat /\ flight[f].gen \in Nat
  BY ClientAssumption DEF WorkOK, FlightRec

LEMMA ActHeld ==
    ASSUME WorkOK, NEW a \in Act
    PROVE  /\ act[a] \in ActRec
           /\ act[a].pc \in {"idle", "waiting", "asking", "hashing", "sending"}
           /\ act[a].kind \in Kinds /\ act[a].gen \in 0..MaxGen /\ act[a].gen \in Nat
           /\ act[a].user \in Account \cup {None} /\ act[a].on \in Flight \cup {None}
           /\ act[a].proof \in Account \cup {None} /\ act[a].sent \in Session \cup {None}
           /\ act[a].tries \in 0..1
  BY ClientAssumption DEF WorkOK, ActRec

\* The resting ones.
LEMMA Resting ==
    /\ NoFlight \in FlightRec /\ NoFlight.pc = "idle"
    /\ NoAct \in ActRec /\ NoAct.pc = "idle"
    /\ NoTrip \in TripRec /\ NoTrip.pc = "none"
    /\ MaxGen \in Nat /\ 0 \in 0..MaxGen /\ None \notin Account /\ None \notin Flight
  <1>1. MaxGen \in Nat /\ 0 \in 0..MaxGen /\ None \notin Account /\ None \notin Flight
    BY ClientAssumption
  <1>2. FALSE \in BOOLEAN /\ "alone" \in Posture /\ {} \in SUBSET Act /\ 0 \in 0..1
    BY DEF Posture
  <1>3. NoFlight \in FlightRec /\ NoFlight.pc = "idle"
    BY <1>1, <1>2 DEF NoFlight, Flying, FlightRec
  <1>4. NoAct \in ActRec /\ NoAct.pc = "idle"
    BY <1>1 DEF NoAct, Doing, ActRec, Kinds
  <1>5. NoTrip \in TripRec /\ NoTrip.pc = "none"
    BY <1>1 DEF NoTrip, TripRec
  <1> QED
    BY <1>1, <1>3, <1>4, <1>5

\* No session is None.
LEMMA NoSession ==
    ASSUME NEW s \in Session
    PROVE  s # None
  <1>1. s.user \in Account /\ s.n \in Nat /\ s \in [user : Account, n : Nat]
    BY ClientAssumption DEF Session
  <1> QED
    BY <1>1, ClientAssumption

\* An acquisition that becomes another.
LEMMA Becomes ==
    ASSUME WorkOK, NEW f \in Flight, NEW rec \in FlightRec, flight' = [flight EXCEPT ![f] = rec]
    PROVE  /\ flight' \in [Flight -> FlightRec] /\ flight'[f] = rec
           /\ \A g \in Flight \ {f} : flight'[g] = flight[g]
  BY DEF WorkOK

\* One that goes on.
LEMMA Going ==
    ASSUME WorkOK, NEW f \in Flight, NEW pc \in {"idle", "factor", "prompt", "mint", "start"},
           NEW assumed \in BOOLEAN, NEW tries \in 0..1, NEW stashes \in SUBSET Act,
           Goes(f, pc, assumed, tries, stashes)
    PROVE  /\ flight' \in [Flight -> FlightRec]
           /\ flight'[f].pc = pc /\ flight'[f].gen = flight[f].gen
           /\ flight'[f].user = flight[f].user /\ flight'[f].posture = flight[f].posture
           /\ flight'[f].stashes = stashes
           /\ \A g \in Flight \ {f} : flight'[g] = flight[g]
  <1> DEFINE rec == Flying(pc, flight[f].gen, flight[f].user, flight[f].posture, assumed, tries, stashes)
  <1>1. rec \in FlightRec
    BY FlightHeld DEF Flying, FlightRec
  <1>2. /\ rec.pc = pc /\ rec.gen = flight[f].gen /\ rec.user = flight[f].user
        /\ rec.posture = flight[f].posture /\ rec.stashes = stashes
    BY DEF Flying
  <1>3. flight' = [flight EXCEPT ![f] = rec]
    BY DEF Goes
  <1> HIDE DEF rec
  <1> QED
    BY <1>1, <1>2, <1>3, Becomes

\* An action that becomes another.
LEMMA Acts ==
    ASSUME WorkOK, NEW a \in Act, NEW rec \in ActRec, act' = [act EXCEPT ![a] = rec]
    PROVE  /\ act' \in [Act -> ActRec] /\ act'[a] = rec
           /\ \A b \in Act \ {a} : act'[b] = act[b]
  BY DEF WorkOK

\* The record a step gives an action: still of its account and generation.
LEMMA Doings ==
    ASSUME NEW r \in ActRec
    PROVE  \A pc \in {"idle", "waiting", "asking", "hashing", "sending"}, on \in Flight \cup {None},
              proof \in Account \cup {None}, sent \in Session \cup {None}, tries \in 0..1 :
             LET d == Doing(pc, r.kind, r.gen, r.user, on, proof, sent, tries) IN
             /\ d \in ActRec /\ d.pc = pc /\ d.kind = r.kind /\ d.gen = r.gen /\ d.user = r.user
             /\ d.on = on /\ d.proof = proof /\ d.sent = sent /\ d.tries = tries
  <1>1. /\ r.kind \in Kinds /\ r.gen \in 0..MaxGen /\ r.user \in Account \cup {None}
    BY DEF ActRec
  <1> QED
    BY <1>1 DEF Doing, ActRec

(***************************************************************************)
(* The work of the tab, while its subject stays.                           *)
(***************************************************************************)

Still == UNCHANGED <<gen, tab, late>>

\* An answer to an action that waited: it ends, or goes on for its account.
Answers(r, a) ==
  /\ r \in ActRec /\ r.pc # "waiting" /\ Owes(r)
  /\ r.pc # "idle" => r.gen = act[a].gen /\ r.user = act[a].user

\* An acquisition that ends.
LEMMA Settles ==
    ASSUME WorkOK, Flow, Still, NEW f \in Flight, NEW to, \A a \in Waiters(f) : Answers(to[a], a),
           Settle(f, to), (prompt' = prompt /\ prompt # f) \/ (prompt = f /\ prompt' = None)
    PROVE  WorkOK' /\ Flow'
  <1>1. /\ flight' \in [Flight -> FlightRec] /\ flight'[f].pc = "idle"
        /\ \A g \in Flight \ {f} : flight'[g] = flight[g]
    BY Resting, Becomes DEF Settle
  <1>2. /\ act' \in [Act -> ActRec]
        /\ \A a \in Act : \/ a \notin Waiters(f) /\ act'[a] = act[a]
                          \/ a \in Waiters(f) /\ act'[a] = to[a] /\ Answers(to[a], a)
    <2>1. \A a \in Act : (IF a \in Waiters(f) THEN to[a] ELSE act[a]) \in ActRec
      BY ActHeld DEF Answers
    <2> QED
      BY <2>1 DEF Settle
  <1>3. /\ slot' \in [Shared -> Flight \cup {None}]
        /\ \A p \in Shared : slot'[p] = None \/ (slot'[p] = slot[p] /\ slot[p] # f)
    BY DEF Settle, Released, WorkOK
  <1>4. WorkOK'
    BY <1>1, <1>2, <1>3 DEF WorkOK, Still
  <1>5. FlightsMine'
    BY <1>1 DEF Flow, FlightsMine, Mine, Still
  <1>6. ActsMine'
    BY <1>2 DEF Flow, ActsMine, Mine, Still, Answers, Waiters
  <1>7. Waiting'
    <2>1. SUFFICES ASSUME NEW a \in Act, act'[a].pc = "waiting"
                   PROVE  /\ act'[a].on \in Flight /\ flight'[act'[a].on].pc # "idle"
                          /\ flight'[act'[a].on].gen = act'[a].gen
                          /\ flight'[act'[a].on].user = act'[a].user
                          /\ act'[a].kind = "compose" => a \in flight'[act'[a].on].stashes
      BY DEF Waiting, WaitsWell
    <2>2. a \notin Waiters(f) /\ act'[a] = act[a]
      BY <1>2, <2>1 DEF Answers
    <2>3. act[a].on # f
      BY <2>1, <2>2 DEF Waiters
    <2>4. WaitsWell(act[a], a)
      BY DEF Flow, Waiting
    <2> QED
      BY <1>1, <2>1, <2>2, <2>3, <2>4 DEF WaitsWell
  <1>8. Slots'
    <2>1. SUFFICES ASSUME NEW p \in Shared, slot'[p] # None
                   PROVE  /\ flight'[slot'[p]].pc # "idle" /\ flight'[slot'[p]].gen = gen'
                          /\ flight'[slot'[p]].posture = p
      BY DEF Slots
    <2>2. slot'[p] = slot[p] /\ slot[p] \in Flight \ {f}
      BY <1>3, <2>1 DEF WorkOK
    <2> QED
      BY <1>1, <2>1, <2>2 DEF Flow, Slots, Still
  <1>9. Prompted'
    <2>1. prompt \in Flight \cup {None}
      BY DEF WorkOK
    <2> QED
      BY <1>1, <2>1 DEF Flow, Prompted, Still
  <1>10. Owed'
    <2>1. ASSUME NEW a \in Act
          PROVE  Owes(act[a])'
      <3>1. Owes(act[a])
        BY DEF Flow, Owed
      <3> QED
        BY <1>2, <3>1 DEF Owes, Answers, Still
    <2> QED
      BY <2>1 DEF Owed
  <1> QED
    BY <1>4, <1>5, <1>6, <1>7, <1>8, <1>9, <1>10 DEF Flow

\* One that goes on, and the prompt with it.
LEMMA GoesOn ==
    ASSUME WorkOK, Flow, Still, NEW f \in Flight, flight[f].pc # "idle",
           NEW pc \in {"factor", "prompt", "mint", "start"},
           NEW assumed \in BOOLEAN, NEW tries \in 0..1,
           Goes(f, pc, assumed, tries, flight[f].stashes), UNCHANGED <<slot, act>>,
           \/ pc = "prompt" /\ prompt = None /\ prompt' = f /\ flight[f].gen = gen
           \/ pc # "prompt" /\ prompt = f /\ prompt' = None
           \/ pc # "prompt" /\ prompt # f /\ prompt' = prompt
    PROVE  WorkOK' /\ Flow'
  <1>1. /\ flight' \in [Flight -> FlightRec]
        /\ flight'[f].pc = pc /\ flight'[f].gen = flight[f].gen
        /\ flight'[f].user = flight[f].user /\ flight'[f].posture = flight[f].posture
        /\ flight'[f].stashes = flight[f].stashes
        /\ \A g \in Flight \ {f} : flight'[g] = flight[g]
    <2>1. flight[f].stashes \in SUBSET Act /\ pc \in {"idle", "factor", "prompt", "mint", "start"}
      BY FlightHeld
    <2> QED
      BY <2>1, Going
  <1>2. \A g \in Flight : /\ flight'[g].gen = flight[g].gen /\ flight'[g].user = flight[g].user
                          /\ flight'[g].posture = flight[g].posture
                          /\ flight'[g].stashes = flight[g].stashes
                          /\ flight'[g].pc = "idle" <=> flight[g].pc = "idle"
    BY <1>1
  <1>3. prompt \in Flight \cup {None} /\ None \notin Flight
    BY Resting DEF WorkOK
  <1>4. WorkOK'
    BY <1>1, <1>3 DEF WorkOK, Still
  <1>5. FlightsMine' /\ ActsMine' /\ Waiting'
    <2>1. FlightsMine'
      BY <1>2 DEF Flow, FlightsMine, Mine, Still
    <2>2. ActsMine'
      BY DEF Flow, ActsMine, Mine, Still
    <2>3. Waiting'
      BY <1>2 DEF Flow, Waiting, WaitsWell
    <2> QED
      BY <2>1, <2>2, <2>3
  <1>6. Slots'
    <2>1. \A p \in Shared : slot[p] \in Flight \cup {None}
      BY DEF WorkOK
    <2> QED
      BY <1>2, <2>1 DEF Flow, Slots, Still
  <1>7. Prompted'
    BY <1>1, <1>3 DEF Flow, Prompted, Still
  <1>8. Owed'
    BY DEF Flow, Owed, Owes, Still
  <1> QED
    BY <1>4, <1>5, <1>6, <1>7, <1>8 DEF Flow

\* One that is given up.
LEMMA Cancels ==
    ASSUME WorkOK, Flow, Still, NEW f \in Flight, Cancelled(f),
           (prompt' = prompt /\ prompt # f) \/ (prompt = f /\ prompt' = None)
    PROVE  WorkOK' /\ Flow'
  <1> DEFINE to == [a \in Act |-> NoAct]
  <1>1. Settle(f, to)
    BY DEF Cancelled
  <1>2. \A a \in Waiters(f) : Answers(to[a], a)
    BY Resting DEF Answers, Owes, Waiters
  <1> HIDE DEF to
  <1> QED
    BY <1>1, <1>2, Settles

\* What an action that is asked holds.
LEMMA AskingHolds ==
    ASSUME WorkOK, NEW a \in Act
    PROVE  Answers(Asking(act[a]), a)
  <1> DEFINE r == act[a]
  <1>1. /\ r \in ActRec /\ r.tries \in 0..1
        /\ None \in Flight \cup {None} /\ None \in Account \cup {None} /\ None \in Session \cup {None}
    BY ActHeld
  <1> HIDE DEF r
  <1>2. /\ Asking(r) \in ActRec /\ Asking(r).pc = "asking" /\ Asking(r).gen = r.gen
        /\ Asking(r).user = r.user
    BY <1>1 DEF Asking, Doing, ActRec
  <1> QED
    BY <1>2 DEF Answers, Owes, r

\* One that is refused the way to ORCID.
LEMMA Refuses ==
    ASSUME WorkOK, Flow, Still, NEW f \in Flight, Refused(f), prompt' = prompt, prompt # f
    PROVE  WorkOK' /\ Flow'
  <1>1. ASSUME NEW one \in Act,
               Settle(f, [a \in Act |-> IF a = one THEN Asking(act[a]) ELSE NoAct])
        PROVE  WorkOK' /\ Flow'
    <2> DEFINE to == [a \in Act |-> IF a = one THEN Asking(act[a]) ELSE NoAct]
    <2>1. \A a \in Act : Answers(NoAct, a)
      BY Resting DEF Answers, Owes
    <2>2. \A a \in Waiters(f) : Answers(to[a], a)
      <3>1. SUFFICES ASSUME NEW a \in Waiters(f)
                     PROVE  Answers(to[a], a)
        OBVIOUS
      <3>2. a \in Act
        BY DEF Waiters
      <3>3. to[a] = IF a = one THEN Asking(act[a]) ELSE NoAct
        BY <3>2
      <3> QED
        BY <2>1, <3>2, <3>3, AskingHolds
    <2>3. Settle(f, to)
      BY <1>1
    <2> HIDE DEF to
    <2> QED
      BY <2>2, <2>3, Settles
  <1>2. CASE Cancelled(f)
    BY <1>2, Cancels
  <1> QED
    BY <1>1, <1>2 DEF Refused, Waiters

\* One that leaves for ORCID, or may not.
LEMMA Orcids ==
    ASSUME WorkOK, Flow, Still, NEW f \in Flight, flight[f].pc # "idle", OrcidOrRefuse(f),
           prompt' = prompt, prompt # f
    PROVE  WorkOK' /\ Flow'
  <1>1. CASE Refused(f)
    BY <1>1, Refuses
  <1>2. CASE /\ Goes(f, "start", flight[f].assumed, flight[f].tries, flight[f].stashes)
             /\ UNCHANGED <<slot, act>>
    <2>1. flight[f].assumed \in BOOLEAN /\ flight[f].tries \in 0..1
      BY FlightHeld
    <2> QED
      BY <1>2, <2>1, GoesOn
  <1> QED
    BY <1>1, <1>2 DEF OrcidOrRefuse

\* One that asks for the password, or finds the prompt taken.
LEMMA AsksOnce ==
    ASSUME WorkOK, Flow, Still, NEW f \in Flight, flight[f].pc # "idle", flight[f].gen = gen,
           prompt # f, NEW assumed \in BOOLEAN, NEW tries \in 0..1, Asks(f, assumed, tries)
    PROVE  WorkOK' /\ Flow'
  <1>1. CASE prompt = None /\ prompt' = f /\ Goes(f, "prompt", assumed, tries, flight[f].stashes) /\ UNCHANGED <<slot, act>>
    BY <1>1, GoesOn
  <1>2. CASE Cancelled(f) /\ UNCHANGED prompt
    BY <1>2, Cancels
  <1> QED
    BY <1>1, <1>2 DEF Asks

\* The posture of a kind of action.
LEMMA Postures ==
    /\ \A kind : PostureOf(kind) \in Posture
    /\ Shared \subseteq Posture
    /\ "permissive" \in Shared /\ "alone" \notin Shared
    /\ \A p \in Posture : p = "alone" \/ p \in Shared
  BY DEF PostureOf, Posture, Shared

\* An action that presents a proof of its account.
LEMMA PresentsOwn ==
    ASSUME WorkOK, KeepOK, NEW r \in ActRec, NEW owner \in Account \cup {None},
           tab # None, r.user = tab.user, late \/ owner = r.user
    PROVE  /\ Presents(r, owner) \in ActRec /\ Presents(r, owner).pc \in {"hashing", "sending"}
           /\ Presents(r, owner).gen = r.gen /\ Presents(r, owner).user = r.user
           /\ Owes(Presents(r, owner))
  <1>1. /\ tab \in Session \cup {None} /\ r.kind \in Kinds /\ r.tries \in 0..1
        /\ None \in Flight \cup {None} /\ None \in Session \cup {None}
    BY DEF KeepOK, ActRec
  <1>2. CASE r.kind = "upload"
    <2>1. Presents(r, owner) = Doing("hashing", r.kind, r.gen, r.user, None, owner, None, r.tries)
      BY <1>2 DEF Presents
    <2> DEFINE d == Doing("hashing", r.kind, r.gen, r.user, None, owner, None, r.tries)
    <2>2. /\ d \in ActRec /\ d.pc = "hashing" /\ d.kind = r.kind /\ d.gen = r.gen /\ d.user = r.user /\ d.proof = owner
      BY <1>1 DEF Doing, ActRec
    <2> HIDE DEF d
    <2> QED
      BY <1>2, <2>1, <2>2 DEF Owes, d
  <1>3. CASE r.kind # "upload"
    <2>1. Presents(r, owner) = Doing("sending", r.kind, r.gen, r.user, None, owner, tab, r.tries)
      BY <1>3 DEF Presents
    <2> QED
      BY <1>1, <2>1, Doings DEF Owes
  <1> QED
    BY <1>2, <1>3

\* An action of the subject that waits on an acquisition of the subject.
LEMMA WaitsOnOwn ==
    ASSUME WorkOK, NEW a \in Act, NEW r \in ActRec, NEW f \in Flight, WaitsOn(a, r, f)
    PROVE  /\ act' \in [Act -> ActRec] /\ \A b \in Act \ {a} : act'[b] = act[b]
           /\ act'[a].pc = "waiting" /\ act'[a].kind = r.kind /\ act'[a].gen = r.gen
           /\ act'[a].user = r.user /\ act'[a].on = f
  <1> DEFINE rec == Doing("waiting", r.kind, r.gen, r.user, f, None, None, r.tries)
  <1>1. r.kind \in Kinds /\ r.tries \in 0..1
    BY DEF ActRec
  <1>2. /\ rec \in ActRec /\ rec.pc = "waiting" /\ rec.kind = r.kind /\ rec.gen = r.gen
        /\ rec.user = r.user /\ rec.on = f
    BY <1>1, Doings
  <1>3. act' = [act EXCEPT ![a] = rec]
    BY DEF WaitsOn
  <1> HIDE DEF rec
  <1> QED
    BY <1>2, <1>3, Acts

\* An action that becomes one that does not wait.
LEMMA Moves ==
    ASSUME WorkOK, Flow, Still, UNCHANGED <<flight, slot, prompt>>, NEW a \in Act, NEW r \in ActRec,
           act' = [act EXCEPT ![a] = r], r.pc # "waiting", Owes(r),
           r.pc # "idle" => Mine(r.gen, r.user)
    PROVE  WorkOK' /\ Flow'
  <1>1. act' \in [Act -> ActRec] /\ act'[a] = r /\ \A b \in Act \ {a} : act'[b] = act[b]
    BY Acts
  <1>2. WorkOK'
    BY <1>1 DEF WorkOK, Still
  <1>3. FlightsMine' /\ Slots' /\ Prompted'
    BY DEF Flow, FlightsMine, Mine, Slots, Prompted, Still
  <1>4. ActsMine'
    BY <1>1 DEF Flow, ActsMine, Mine, Still
  <1>5. Waiting'
    BY <1>1 DEF Flow, Waiting, WaitsWell
  <1>6. Owed'
    BY <1>1 DEF Flow, Owed, Owes, Still
  <1> QED
    BY <1>2, <1>3, <1>4, <1>5, <1>6 DEF Flow

\* An action of the subject acquires a proof.
LEMMA Acquires ==
    ASSUME WorkOK, KeepOK, Flow, Still, UNCHANGED prompt, NEW a \in Act, NEW r \in ActRec,
           tab # None, r.user = tab.user, r.gen = gen, NEW pc \in {"factor", "start"},
           r.kind = "compose" => pc = "factor",
           NEW cached \in Account \cup {None}, late \/ cached \in {None, r.user},
           Acquire(a, r, pc, cached)
    PROVE  WorkOK' /\ Flow'
  <1> DEFINE p == PostureOf(r.kind)
             stashes == IF r.kind = "compose" /\ pc = "factor" THEN {a} ELSE {}
  <1>1. stashes \in SUBSET Act /\ (r.kind = "compose" => a \in stashes)
    OBVIOUS
  <1>2. gen \in Nat /\ gen \in 0..MaxGen /\ tab.user \in Account /\ p \in Posture
        /\ prompt \in Flight \cup {None} /\ None \notin Flight
    BY Resting, Postures DEF WorkOK, KeepOK, Session
  <1>3. \/ cached # None /\ act' = [act EXCEPT ![a] = Presents(r, cached)] /\ UNCHANGED <<flight, slot>>
        \/ \E f \in {InFlight(p)} \ {None} :
             /\ Goes(f, flight[f].pc, flight[f].assumed, flight[f].tries, flight[f].stashes \cup stashes)
             /\ WaitsOn(a, r, f) /\ UNCHANGED slot
        \/ \E f \in Flight :
             /\ flight[f].pc = "idle"
             /\ flight' = [flight EXCEPT ![f] = Flying(pc, gen, tab.user, p, FALSE, 0, stashes)]
             /\ slot' = [q \in Shared |-> IF q = p THEN f ELSE slot[q]]
             /\ WaitsOn(a, r, f)
    BY DEF Acquire
  <1>4. CASE cached # None /\ act' = [act EXCEPT ![a] = Presents(r, cached)] /\ UNCHANGED <<flight, slot>>
    <2>1. late \/ cached = r.user
      BY <1>4
    <2>2. /\ Presents(r, cached) \in ActRec /\ Presents(r, cached).pc # "waiting"
          /\ Owes(Presents(r, cached)) /\ Mine(Presents(r, cached).gen, Presents(r, cached).user)
      BY <1>2, <2>1, PresentsOwn DEF Mine
    <2> QED
      BY <1>4, <2>2, Moves
  <1> HIDE DEF p, stashes
  <1>5. ASSUME NEW f \in {InFlight(p)} \ {None},
               Goes(f, flight[f].pc, flight[f].assumed, flight[f].tries, flight[f].stashes \cup stashes),
               WaitsOn(a, r, f), UNCHANGED slot
        PROVE  WorkOK' /\ Flow'
    <2>1. f \in Flight /\ flight[f].pc # "idle" /\ flight[f].gen = gen
      BY <1>2, <1>5, Postures DEF InFlight, WorkOK, Flow, Slots
    <2>2. flight[f].user = tab.user
      BY <2>1 DEF Flow, FlightsMine, Mine
    <2>3. /\ flight[f].pc \in {"idle", "factor", "prompt", "mint", "start"}
          /\ flight[f].assumed \in BOOLEAN /\ flight[f].tries \in 0..1
          /\ flight[f].stashes \cup stashes \in SUBSET Act
      BY <1>1, <2>1, FlightHeld
    <2>4. /\ flight' \in [Flight -> FlightRec]
          /\ flight'[f].pc = flight[f].pc /\ flight'[f].gen = flight[f].gen
          /\ flight'[f].user = flight[f].user /\ flight'[f].posture = flight[f].posture
          /\ flight'[f].stashes = flight[f].stashes \cup stashes
          /\ \A g \in Flight \ {f} : flight'[g] = flight[g]
      BY <1>5, <2>1, <2>3, Going
    <2>5. \A g \in Flight : /\ flight'[g].gen = flight[g].gen /\ flight'[g].user = flight[g].user
                            /\ flight'[g].posture = flight[g].posture
                            /\ flight[g].stashes \subseteq flight'[g].stashes
                            /\ flight'[g].pc = flight[g].pc
      BY <2>4
    <2>6. /\ act' \in [Act -> ActRec] /\ \A b \in Act \ {a} : act'[b] = act[b]
          /\ act'[a].pc = "waiting" /\ act'[a].kind = r.kind /\ act'[a].gen = r.gen
          /\ act'[a].user = r.user /\ act'[a].on = f
      BY <1>5, <2>1, WaitsOnOwn
    <2>7. WorkOK'
      BY <1>5, <2>4, <2>6 DEF WorkOK, Still
    <2>8. FlightsMine'
      BY <2>5 DEF Flow, FlightsMine, Mine, Still
    <2>9. ActsMine'
      BY <1>2, <2>6 DEF Flow, ActsMine, Mine, Still
    <2>10. Waiting'
      <3>1. ASSUME NEW b \in Act \ {a}
            PROVE  WaitsWell(act[b], b)'
        <4>1. WaitsWell(act[b], b)
          BY DEF Flow, Waiting
        <4> QED
          BY <2>5, <2>6, <4>1 DEF WaitsWell
      <3>2. WaitsWell(act[a], a)'
        BY <1>1, <2>1, <2>2, <2>4, <2>6 DEF WaitsWell
      <3> QED
        BY <3>1, <3>2 DEF Waiting
    <2>11. Slots'
      <3>1. \A q \in Shared : slot[q] \in Flight \cup {None}
        BY DEF WorkOK
      <3> QED
        BY <1>5, <2>5, <3>1 DEF Flow, Slots, Still
    <2>12. Prompted'
      BY <1>2, <2>5 DEF Flow, Prompted, Still
    <2>13. Owed'
      <3>1. \A b \in Act \ {a} : Owes(act[b])'
        BY <2>6 DEF Flow, Owed, Owes, Still
      <3>2. Owes(act[a])'
        BY <2>6 DEF Owes
      <3> QED
        BY <3>1, <3>2 DEF Owed
    <2> QED
      BY <2>7, <2>8, <2>9, <2>10, <2>11, <2>12, <2>13 DEF Flow
  <1>6. ASSUME NEW f \in Flight, flight[f].pc = "idle",
               flight' = [flight EXCEPT ![f] = Flying(pc, gen, tab.user, p, FALSE, 0, stashes)],
               slot' = [q \in Shared |-> IF q = p THEN f ELSE slot[q]],
               WaitsOn(a, r, f)
        PROVE  WorkOK' /\ Flow'
    <2> DEFINE rec == Flying(pc, gen, tab.user, p, FALSE, 0, stashes)
    <2>1. /\ rec \in FlightRec /\ rec.pc = pc /\ rec.gen = gen /\ rec.user = tab.user
          /\ rec.posture = p /\ rec.stashes = stashes
      <3>1. FALSE \in BOOLEAN /\ 0 \in 0..1
        OBVIOUS
      <3> QED
        BY <1>1, <1>2, <3>1 DEF Flying, FlightRec
    <2>2. flight' = [flight EXCEPT ![f] = rec]
      BY <1>6
    <2> HIDE DEF rec
    <2>3. /\ flight' \in [Flight -> FlightRec] /\ flight'[f] = rec
          /\ \A g \in Flight \ {f} : flight'[g] = flight[g]
      BY <2>1, <2>2, Becomes
    <2>4. /\ slot' \in [Shared -> Flight \cup {None}]
          /\ \A q \in Shared : slot'[q] = IF q = p THEN f ELSE slot[q]
      BY <1>6 DEF WorkOK
    <2>5. /\ act' \in [Act -> ActRec] /\ \A b \in Act \ {a} : act'[b] = act[b]
          /\ act'[a].pc = "waiting" /\ act'[a].kind = r.kind /\ act'[a].gen = r.gen
          /\ act'[a].user = r.user /\ act'[a].on = f
      BY <1>6, WaitsOnOwn
    <2>6. WorkOK'
      BY <2>3, <2>4, <2>5 DEF WorkOK, Still
    <2>7. FlightsMine'
      BY <1>2, <2>1, <2>3 DEF Flow, FlightsMine, Mine, Still
    <2>8. ActsMine'
      BY <1>2, <2>5 DEF Flow, ActsMine, Mine, Still
    <2>9. Waiting'
      <3>1. ASSUME NEW b \in Act \ {a}
            PROVE  WaitsWell(act[b], b)'
        <4>1. WaitsWell(act[b], b)
          BY DEF Flow, Waiting
        <4>2. act[b].pc = "waiting" => act[b].on \in Flight \ {f}
          BY <1>6, <4>1 DEF WaitsWell
        <4> QED
          BY <2>3, <2>5, <4>1, <4>2 DEF WaitsWell
      <3>2. WaitsWell(act[a], a)'
        BY <1>1, <2>1, <2>3, <2>5 DEF WaitsWell
      <3> QED
        BY <3>1, <3>2 DEF Waiting
    <2>10. Slots'
      <3>1. SUFFICES ASSUME NEW q \in Shared, slot'[q] # None
                     PROVE  /\ flight'[slot'[q]].pc # "idle" /\ flight'[slot'[q]].gen = gen'
                            /\ flight'[slot'[q]].posture = q
        BY DEF Slots
      <3>2. CASE q = p
        BY <2>1, <2>3, <2>4, <3>2 DEF Still
      <3>3. CASE q # p
        <4>1. slot'[q] = slot[q] /\ slot[q] \in Flight
          BY <2>4, <3>1, <3>3 DEF WorkOK
        <4>2. /\ flight[slot[q]].pc # "idle" /\ flight[slot[q]].gen = gen
              /\ flight[slot[q]].posture = q
          BY <3>1, <4>1 DEF Flow, Slots
        <4> QED
          BY <1>6, <2>3, <4>1, <4>2 DEF Still
      <3> QED
        BY <3>2, <3>3
    <2>11. Prompted'
      BY <1>2, <1>6, <2>1, <2>3 DEF Flow, Prompted, Still
    <2>12. Owed'
      <3>1. \A b \in Act \ {a} : Owes(act[b])'
        BY <2>5 DEF Flow, Owed, Owes, Still
      <3>2. Owes(act[a])'
        BY <2>5 DEF Owes
      <3> QED
        BY <3>1, <3>2 DEF Owed
    <2> QED
      BY <2>6, <2>7, <2>8, <2>9, <2>10, <2>11, <2>12 DEF Flow
  <1> QED
    BY <1>3, <1>4, <1>5, <1>6

(***************************************************************************)
(* A change of subject.                                                    *)
(***************************************************************************)

\* What an action step leaves of the others: it ends one, or none.
Fewer(acts) ==
  /\ acts \in [Act -> ActRec]
  /\ \A a \in Act : acts[a] = act[a] \/ acts[a] = NoAct

\* The generation moves on, or the subject is still the one it was.
Stands == \/ gen' = gen + 1
          \/ gen' = gen /\ (tab # None => tab' # None /\ tab'.user = tab.user)

\* A step under which the tab goes on being one subject's.
Course == WorkOK' /\ Flow' /\ KeepOK' /\ Marked' /\ Kept' /\ Stands

\* The subject-bound state is scrubbed.
LEMMA Scrubs ==
    ASSUME WorkOK, Flow, gen < MaxGen, NEW acts, Fewer(acts), late' = late, Scrub(acts)
    PROVE  WorkOK' /\ Flow' /\ gen' = gen + 1 /\ {window, held, stash}' = {None}
  <1>1. /\ gen' = gen + 1 /\ window' = None /\ held' = None /\ stash' = None /\ prompt' = None
        /\ slot' = [p \in Shared |-> None]
        /\ flight' = IF prompt # None THEN [flight EXCEPT ![prompt] = NoFlight] ELSE flight
        /\ act' = [a \in Act |-> IF prompt # None /\ a \in Waiters(prompt) THEN NoAct ELSE acts[a]]
    BY DEF Scrub, Dismissed
  <1>2. /\ gen \in Nat /\ MaxGen \in Nat /\ gen' \in 0..MaxGen /\ None \notin Flight
        /\ prompt \in Flight \cup {None} /\ NoFlight \in FlightRec /\ NoFlight.pc = "idle"
        /\ NoAct \in ActRec /\ NoAct.pc = "idle"
    BY <1>1, Resting DEF WorkOK
  <1>3. /\ flight' \in [Flight -> FlightRec]
        /\ \A f \in Flight : \/ f = prompt /\ flight'[f].pc = "idle"
                             \/ f # prompt /\ flight'[f] = flight[f]
    <2>1. CASE prompt = None
      BY <1>1, <1>2, <2>1 DEF WorkOK
    <2>2. CASE prompt # None
      <3>1. /\ prompt \in Flight /\ flight' = [flight EXCEPT ![prompt] = NoFlight]
            /\ flight \in [Flight -> FlightRec]
        BY <1>1, <1>2, <2>2 DEF WorkOK
      <3> QED
        BY <1>2, <3>1
    <2> QED
      BY <2>1, <2>2
  <1>4. /\ act' \in [Act -> ActRec]
        /\ \A a \in Act : \/ act'[a] = NoAct
                          \/ act'[a] = act[a] /\ (prompt # None => a \notin Waiters(prompt))
    <2>1. \A a \in Act : /\ acts[a] \in ActRec
                         /\ acts[a] = act[a] \/ acts[a] = NoAct
      BY DEF Fewer
    <2> QED
      BY <1>1, <1>2, <2>1
  <1>5. WorkOK'
    BY <1>1, <1>2, <1>3, <1>4 DEF WorkOK
  <1>6. FlightsMine'
    <2>1. SUFFICES ASSUME NEW f \in Flight, flight'[f].pc # "idle"
                   PROVE  Mine(flight[f].gen, flight[f].user)'
      BY DEF FlightsMine
    <2>2. flight'[f] = flight[f] /\ flight[f].gen \in Nat /\ flight[f].gen <= gen
      BY <1>3, <2>1, FlightHeld DEF Flow, FlightsMine, Mine
    <2> QED
      BY <1>1, <1>2, <2>2 DEF Mine
  <1>7. ActsMine'
    <2>1. SUFFICES ASSUME NEW a \in Act, act'[a].pc # "idle"
                   PROVE  Mine(act[a].gen, act[a].user)'
      BY DEF ActsMine
    <2>2. act'[a] = act[a] /\ act[a].gen \in Nat /\ act[a].gen <= gen
      BY <1>2, <1>4, <2>1, ActHeld DEF Flow, ActsMine, Mine
    <2> QED
      BY <1>1, <1>2, <2>2 DEF Mine
  <1>8. Waiting'
    <2>1. SUFFICES ASSUME NEW a \in Act, act'[a].pc = "waiting"
                   PROVE  WaitsWell(act[a], a)'
      BY DEF Waiting, WaitsWell
    <2>2. /\ act'[a] = act[a] /\ (prompt # None => act[a].on # prompt) /\ WaitsWell(act[a], a)
      BY <1>2, <1>4, <2>1 DEF Waiters, Flow, Waiting
    <2>3. act[a].on \in Flight /\ act[a].on # prompt
      BY <1>2, <2>1, <2>2 DEF WaitsWell
    <2> QED
      BY <1>3, <2>1, <2>2, <2>3 DEF WaitsWell
  <1>9. Slots'
    BY <1>1 DEF Slots
  <1>10. Prompted'
    BY <1>1, <1>3 DEF Flow, Prompted
  <1>11. Owed'
    <2>1. ASSUME NEW a \in Act
          PROVE  Owes(act[a])'
      <3>1. Owes(act[a])
        BY DEF Flow, Owed
      <3> QED
        BY <1>2, <1>4, <3>1 DEF Owes
    <2> QED
      BY <2>1 DEF Owed
  <1> QED
    BY <1>1, <1>5, <1>6, <1>7, <1>8, <1>9, <1>10, <1>11 DEF Flow

\* It is left as it is, for a subject that stays.
LEMMA StaysOn ==
    ASSUME WorkOK, Flow, NEW acts, Fewer(acts), late' = late, NoScrub(acts),
           tab # None => tab' # None /\ tab'.user = tab.user
    PROVE  WorkOK' /\ Flow' /\ gen' = gen /\ UNCHANGED <<window, held, stash>>
  <1>1. UNCHANGED <<gen, window, held, stash, slot, prompt, flight>> /\ act' = acts
    BY DEF NoScrub, storage
  <1>2. /\ act' \in [Act -> ActRec] /\ NoAct.pc = "idle"
        /\ \A a \in Act : act'[a] = NoAct \/ act'[a] = act[a]
    BY <1>1, Resting DEF Fewer
  <1>3. WorkOK'
    BY <1>1, <1>2 DEF WorkOK
  <1>4. FlightsMine' /\ Slots' /\ Prompted'
    BY <1>1 DEF Flow, FlightsMine, Mine, Slots, Prompted
  <1>5. ActsMine'
    BY <1>1, <1>2 DEF Flow, ActsMine, Mine
  <1>6. Waiting'
    BY <1>1, <1>2 DEF Flow, Waiting, WaitsWell
  <1>7. Owed'
    BY <1>2 DEF Flow, Owed, Owes
  <1> QED
    BY <1>1, <1>3, <1>4, <1>5, <1>6, <1>7 DEF Flow

\* Another session is taken up.
LEMMA Adopts ==
    ASSUME WorkOK, Flow, KeepOK, Marked, Kept, gen < MaxGen, NEW s \in Session, NEW acts,
           Fewer(acts), late' = late, Adopt(s, acts)
    PROVE  Course /\ tab' = s
  <1>1. tab' = s /\ marker' = s.user /\ s.user \in Account /\ s # None /\ None \notin Account
    <2>1. s.user \in Account /\ None \notin Account
      BY Resting DEF Session
    <2> QED
      BY <2>1, NoSession DEF Adopt
  <1>2. Marked'
    BY <1>1 DEF Marked
  <1>3. CASE Scrub(acts)
    <2>1. WorkOK' /\ Flow' /\ gen' = gen + 1 /\ window' = None /\ held' = None /\ stash' = None
      BY <1>3, Scrubs
    <2> QED
      BY <1>1, <1>2, <2>1 DEF Course, KeepOK, Kept, Stands
  <1>4. CASE NoScrub(acts) /\ Previous \in {None, s.user}
    <2>1. marker \in Account \cup {None} /\ (tab # None => marker = tab.user /\ tab.user \in Account)
      BY DEF KeepOK, Marked, Session
    <2>2. /\ tab # None => s.user = tab.user
          /\ marker # None => s.user = marker
          /\ marker = None => tab = None
      BY <1>1, <1>4, <2>1 DEF Previous
    <2>3. WorkOK' /\ Flow' /\ gen' = gen /\ UNCHANGED <<window, held, stash>>
      BY <1>1, <1>4, <2>2, StaysOn
    <2>4. KeepOK'
      BY <1>1, <2>3 DEF KeepOK
    <2>5. Kept'
      BY <1>1, <2>2, <2>3 DEF Kept
    <2>6. Stands
      BY <1>1, <2>2, <2>3 DEF Stands
    <2> QED
      BY <1>1, <1>2, <2>3, <2>4, <2>5, <2>6 DEF Course
  <1> QED
    BY <1>1, <1>3, <1>4 DEF Adopt

\* The tab is signed out.
LEMMA SignsOut ==
    ASSUME WorkOK, Flow, gen < MaxGen, NEW acts, Fewer(acts), late' = late, Disconnect(acts)
    PROVE  Course /\ tab' = None /\ stored' = None
  <1>1. tab' = None /\ stored' = None /\ marker' = None /\ Scrub(acts)
    BY DEF Disconnect
  <1>2. WorkOK' /\ Flow' /\ gen' = gen + 1 /\ window' = None /\ held' = None /\ stash' = None
    BY <1>1, Scrubs
  <1> QED
    BY <1>1, <1>2 DEF Course, KeepOK, Marked, Kept, Stands

\* Nothing of it changes.
LEMMA StaysSame ==
    ASSUME WorkOK, Flow, KeepOK, Marked, Kept, NEW acts, Fewer(acts), late' = late,
           NoScrub(acts), UNCHANGED <<tab, marker>>
    PROVE  Course
  <1>1. WorkOK' /\ Flow' /\ gen' = gen /\ UNCHANGED <<window, held, stash>>
    BY StaysOn
  <1> QED
    BY <1>1 DEF Course, KeepOK, Marked, Kept, Stands

\* The actions as they are, and without one of them.
LEMMA FewerActs ==
    ASSUME WorkOK
    PROVE  Fewer(act) /\ \A a \in Act : Fewer(Without(a))
  <1>1. act \in [Act -> ActRec] /\ NoAct \in ActRec
    BY Resting DEF WorkOK
  <1>2. Fewer(act)
    BY <1>1 DEF Fewer
  <1>3. ASSUME NEW a \in Act
        PROVE  Fewer(Without(a))
    BY <1>1 DEF Fewer, Without
  <1> QED
    BY <1>2, <1>3

(***************************************************************************)
(* The steps.                                                              *)
(***************************************************************************)

\* What the invariant says, part by part.
LEMMA Parts ==
    ASSUME IInv
    PROVE  /\ WorkOK /\ KeepOK /\ RestOK /\ Flow /\ Marked /\ Kept /\ TripMine /\ Left /\ lost = FALSE
           /\ \A f \in Flight : flight[f].pc # "idle" => trip.pc # "orcid"
           /\ \A a \in Act : act[a].pc # "idle" => trip.pc # "orcid"
  BY Types DEF IInv, Left, NothingLost

\* A step that leaves the round trip alone.
LEMMA Carries ==
    ASSUME IInv, Course, RestOK', UNCHANGED <<trip, lost>>, trip.pc # "orcid"
    PROVE  IInv'
  <1>1. WorkOK /\ RestOK /\ TripMine /\ lost = FALSE
    BY Parts
  <1>2. TypeOK'
    BY TypesNext DEF Course, Flow
  <1>3. TripMine'
    <2>1. trip.gen \in Nat /\ gen \in Nat
      BY <1>1, Resting DEF RestOK, TripRec, WorkOK
    <2> QED
      BY <1>1, <2>1 DEF TripMine, Mine, Course, Stands
  <1>4. Left'
    BY DEF Left
  <1>5. NothingLost'
    BY <1>1 DEF NothingLost
  <1> QED
    BY <1>2, <1>3, <1>4, <1>5 DEF IInv, Course

\* What may come of something the tab keeps, while its subject stays.
Keeping(old, new) == new \in {old, None} \/ (tab # None /\ new = tab.user)

\* A step of the work of the tab.
LEMMA Works ==
    ASSUME IInv, WorkOK', Flow', UNCHANGED <<stored, events, tab, marker, logins, gen, trip, lost, late>>,
           trip.pc # "orcid",
           Keeping(window, window'), Keeping(held, held'), Keeping(stash, stash')
    PROVE  IInv'
  <1>1. WorkOK /\ KeepOK /\ RestOK /\ Marked /\ Kept
    BY Parts
  <1>2. tab # None => tab.user \in Account /\ marker = tab.user
    BY <1>1 DEF KeepOK, Session, Marked
  <1>3. KeepOK'
    BY <1>1, <1>2 DEF KeepOK, Keeping
  <1>4. Marked' /\ Kept' /\ Stands
    BY <1>1, <1>2 DEF Marked, Kept, Keeping, Stands
  <1>5. RestOK'
    BY <1>1 DEF RestOK
  <1> QED
    BY <1>3, <1>4, <1>5, Carries DEF Course

\* Somebody logs in.
LEMMA StepLoginHere ==
    ASSUME IInv, NEW u \in Account, LoginHere(u)
    PROVE  IInv'
  <1>1. WorkOK /\ KeepOK /\ RestOK /\ Flow /\ Marked /\ Kept
    BY Parts
  <1>2. /\ trip.pc # "orcid" /\ gen < MaxGen /\ late' = late /\ UNCHANGED <<trip, lost>>
        /\ logins' \in 1..MaxLogins /\ stored' = [user |-> u, n |-> logins'] /\ Adopt(stored', act)
        /\ UNCHANGED events
    BY <1>1, ClientAssumption DEF LoginHere, Here, Room, RestOK
  <1>3. stored' \in Session
    BY <1>2 DEF Session
  <1>4. Course
    <2> DEFINE s == stored'
    <2>1. s \in Session /\ Adopt(s, act) /\ Fewer(act)
      BY <1>1, <1>2, <1>3, FewerActs
    <2> HIDE DEF s
    <2> QED
      BY <1>1, <1>2, <2>1, Adopts
  <1>5. RestOK'
    BY <1>1, <1>2, <1>3 DEF RestOK
  <1> QED
    BY <1>2, <1>4, <1>5, Carries

\* The user logs out.
LEMMA StepLogoutHere ==
    ASSUME IInv, LogoutHere
    PROVE  IInv'
  <1>1. WorkOK /\ KeepOK /\ RestOK /\ Flow
    BY Parts
  <1>2. /\ trip.pc # "orcid" /\ gen < MaxGen /\ late' = late /\ UNCHANGED <<trip, lost, events, logins>>
        /\ Disconnect(act)
    BY DEF LogoutHere, Here, Room
  <1>3. Course /\ stored' = None
    BY <1>1, <1>2, FewerActs, SignsOut
  <1>4. RestOK'
    BY <1>1, <1>2, <1>3 DEF RestOK
  <1> QED
    BY <1>2, <1>3, <1>4, Carries

\* Another tab logs in or out.
LEMMA StepOtherTab ==
    ASSUME IInv, OtherTab
    PROVE  IInv'
  <1>1. WorkOK /\ KeepOK /\ RestOK /\ Flow /\ Marked /\ Kept /\ TripMine /\ Left /\ lost = FALSE
    BY Parts
  <1>2. UNCHANGED <<tab, marker, window, held, stash, gen, slot, prompt, flight, act, trip, lost, late>>
    BY DEF OtherTab, storage
  <1>3. stored' \in Session \cup {None} /\ logins' \in 0..MaxLogins
    BY <1>1, ClientAssumption DEF OtherTab, RestOK, Session
  <1>4. events' \in Seq(BOOLEAN)
    <2> DEFINE set == stored' # None
    <2>1. /\ events \in Seq(BOOLEAN) /\ set \in BOOLEAN
          /\ events' = Append(events, set) \/ events' = events
      BY <1>1 DEF RestOK, OtherTab
    <2> HIDE DEF set
    <2> QED
      BY <2>1
  <1>5. RestOK'
    BY <1>1, <1>2, <1>3, <1>4 DEF RestOK
  <1>6. WorkOK' /\ KeepOK'
    BY <1>1, <1>2 DEF WorkOK, KeepOK
  <1>7. FlightsMine' /\ ActsMine' /\ TripMine' /\ Waiting' /\ Slots' /\ Prompted' /\ Owed'
    <2>1. FlightsMine' /\ ActsMine' /\ TripMine'
      BY <1>1, <1>2 DEF Flow, FlightsMine, ActsMine, TripMine, Mine
    <2>2. Waiting' /\ Slots' /\ Prompted' /\ Owed'
      BY <1>1, <1>2 DEF Flow, Waiting, WaitsWell, Slots, Prompted, Owed, Owes
    <2> QED
      BY <2>1, <2>2
  <1>8. Marked' /\ Kept' /\ Left' /\ NothingLost'
    BY <1>1, <1>2 DEF Marked, Kept, Left, NothingLost
  <1> QED
    BY <1>5, <1>6, <1>7, <1>8, TypesNext DEF IInv, Flow

\* The tab hears of it.
LEMMA StepStorageEvent ==
    ASSUME IInv, StorageEvent
    PROVE  IInv'
  <1>1. WorkOK /\ KeepOK /\ RestOK /\ Flow /\ Marked /\ Kept /\ Fewer(act)
    BY Parts, FewerActs
  <1>2. /\ trip.pc # "orcid" /\ gen < MaxGen /\ late' = late /\ UNCHANGED <<trip, lost, logins>>
        /\ events # <<>> /\ events' = Tail(events)
    BY DEF StorageEvent, Here, Room
  <1>3. events' \in Seq(BOOLEAN)
    BY <1>1, <1>2 DEF RestOK
  <1>4. ASSUME Disconnect(act)
        PROVE  Course /\ stored' = None
    BY <1>1, <1>2, <1>4, SignsOut
  <1>5. ASSUME stored # None, Adopt(stored, act)
        PROVE  Course
    <2>1. stored \in Session
      BY <1>1, <1>5 DEF RestOK
    <2> QED
      BY <1>1, <1>2, <1>5, <2>1, Adopts
  <1>6. ASSUME NoScrub(act), UNCHANGED <<tab, marker>>
        PROVE  Course
    BY <1>1, <1>2, <1>6, StaysSame
  <1>7. Course /\ (stored' = stored \/ stored' = None)
    <2>1. \/ Disconnect(act)
          \/ stored # None /\ Adopt(stored, act) /\ stored' = stored
          \/ NoScrub(act) /\ tab' = tab /\ marker' = marker /\ stored' = stored
      BY DEF StorageEvent
    <2> QED
      BY <1>4, <1>5, <1>6, <2>1
  <1>8. RestOK'
    BY <1>1, <1>2, <1>3, <1>7 DEF RestOK
  <1> QED
    BY <1>2, <1>7, <1>8, Carries

\* What the tab keeps is of its subject.
LEMMA KeptOfTab ==
    ASSUME IInv
    PROVE  /\ Keeping(window, window) /\ Keeping(held, held) /\ Keeping(stash, stash)
           /\ Keeping(window, None) /\ Keeping(held, None) /\ Keeping(stash, None)
           /\ tab # None => /\ tab.user \in Account
                            /\ late \/ {window, held, stash} \subseteq {None, tab.user}
  <1>1. KeepOK /\ Marked /\ Kept
    BY Parts
  <1> QED
    BY <1>1 DEF Keeping, KeepOK, Marked, Kept, Session

\* An action begins.
LEMMA StepBegin ==
    ASSUME IInv, NEW a \in Act, NEW kind \in Kinds, Begin(a, kind)
    PROVE  IInv'
  <1> DEFINE r == Doing("idle", kind, gen, tab.user, None, None, None, 0)
  <1>1. WorkOK /\ KeepOK /\ Flow
    BY Parts
  <1>2. /\ trip.pc # "orcid" /\ tab # None /\ UNCHANGED <<stored, events, tab, marker, logins>>
        /\ UNCHANGED <<window, held, stash, gen, prompt, trip, lost, late>>
        /\ Acquire(a, r, "factor", Cached(kind))
    BY DEF Begin, session, storage
  <1>3. tab.user \in Account /\ (late \/ {window, held, stash} \subseteq {None, tab.user})
    BY <1>2, KeptOfTab
  <1>4. r \in ActRec /\ r.user = tab.user /\ r.gen = gen
    BY <1>1, <1>3 DEF Doing, ActRec, WorkOK
  <1> HIDE DEF r
  <1>5. Cached(kind) \in Account \cup {None} /\ (late \/ Cached(kind) \in {None, tab.user})
    BY <1>1, <1>3 DEF Cached, KeepOK
  <1>6. WorkOK' /\ Flow'
    <2> DEFINE cached == Cached(kind)
    <2>1. cached \in Account \cup {None} /\ (late \/ cached \in {None, r.user})
      BY <1>4, <1>5
    <2>2. Acquire(a, r, "factor", cached)
      BY <1>2
    <2>3. Still
      BY <1>2 DEF Still
    <2> HIDE DEF cached
    <2> QED
      BY <1>1, <1>2, <1>4, <2>1, <2>2, <2>3, Acquires
  <1> QED
    BY <1>2, <1>6, KeptOfTab, Works

\* An action that has begun is of the tab's subject, if its generation stands.
LEMMA ActOwn ==
    ASSUME IInv, NEW a \in Act, act[a].pc # "idle"
    PROVE  /\ trip.pc # "orcid" /\ act[a] \in ActRec /\ Owes(act[a])
           /\ ~TornDown(act[a].gen) => act[a].gen = gen /\ tab # None /\ act[a].user = tab.user
  <1>1. WorkOK /\ Flow /\ trip.pc # "orcid"
    BY Parts
  <1> QED
    BY <1>1, ActHeld DEF Flow, ActsMine, Mine, Owed, TornDown

\* A step of an action that does not wait.
LEMMA ActMoves ==
    ASSUME IInv, NEW a \in Act, act[a].pc # "idle",
           UNCHANGED <<stored, events, tab, marker, logins, gen, slot, prompt, flight, trip, lost, late>>,
           NEW r \in ActRec, act' = [act EXCEPT ![a] = r], r.pc # "waiting", Owes(r),
           r.pc # "idle" => r.gen = act[a].gen /\ r.user = act[a].user,
           Keeping(window, window'), Keeping(held, held'), Keeping(stash, stash')
    PROVE  IInv'
  <1>1. WorkOK /\ Flow /\ trip.pc # "orcid"
    BY Parts
  <1>2. r.pc # "idle" => Mine(r.gen, r.user)
    BY <1>1 DEF Flow, ActsMine
  <1>3. Still
    BY DEF Still
  <1>4. WorkOK' /\ Flow'
    BY <1>1, <1>2, <1>3, Moves
  <1> QED
    BY <1>1, <1>4, Works

\* One that ends.
LEMMA ActEnds ==
    ASSUME IInv, NEW a \in Act, act[a].pc # "idle",
           UNCHANGED <<stored, events, tab, marker, logins, gen, slot, prompt, flight, trip, lost, late>>,
           act' = Without(a),
           Keeping(window, window'), Keeping(held, held'), Keeping(stash, stash')
    PROVE  IInv'
  <1>1. NoAct \in ActRec /\ NoAct.pc = "idle" /\ act' = [act EXCEPT ![a] = NoAct]
    BY Resting DEF Without
  <1>2. Owes(NoAct)
    BY <1>1 DEF Owes
  <1> QED
    BY <1>1, <1>2, ActMoves

\* One that acquires again.
LEMMA ActAcquires ==
    ASSUME IInv, NEW a \in Act, act[a].pc # "idle", ~TornDown(act[a].gen),
           UNCHANGED <<stored, events, tab, marker, logins, gen, prompt, trip, lost, late>>,
           NEW r \in ActRec, r.gen = act[a].gen, r.user = act[a].user, NEW pc \in {"factor", "start"},
           r.kind = "compose" => pc = "factor",
           NEW cached \in {None, window}, Acquire(a, r, pc, cached),
           Keeping(window, window'), Keeping(held, held'), Keeping(stash, stash')
    PROVE  IInv'
  <1>1. WorkOK /\ KeepOK /\ Flow /\ trip.pc # "orcid"
    BY Parts
  <1>2. tab # None /\ r.user = tab.user /\ r.gen = gen
    BY ActOwn
  <1>3. cached \in Account \cup {None} /\ (late \/ cached \in {None, r.user})
    BY <1>1, <1>2, KeptOfTab DEF KeepOK
  <1>4. Still
    BY DEF Still
  <1>5. WorkOK' /\ Flow'
    BY <1>1, <1>2, <1>3, <1>4, Acquires
  <1> QED
    BY <1>1, <1>5, Works

\* The user is asked whether to lose the work.
LEMMA StepAsked ==
    ASSUME IInv, NEW a \in Act, Asked(a)
    PROVE  IInv'
  <1>1. /\ act[a].pc # "idle" /\ UNCHANGED <<stored, events, tab, marker, logins>>
        /\ UNCHANGED <<window, held, stash, gen, prompt, trip, lost, late>>
    BY DEF Asked, session, storage
  <1>2. CASE act' = [act EXCEPT ![a] = NoAct] /\ UNCHANGED <<flight, slot>>
    BY <1>1, <1>2, KeptOfTab, ActEnds DEF Without
  <1>3. CASE /\ ~TornDown(act[a].gen)
             /\ Acquire(a, Doing("asking", "write", act[a].gen, act[a].user, None, None, None, act[a].tries),
                        "start", window)
    <2> DEFINE r == Doing("asking", "write", act[a].gen, act[a].user, None, None, None, act[a].tries)
    <2>1. r \in ActRec /\ r.kind = "write" /\ r.gen = act[a].gen /\ r.user = act[a].user
      <3>1. WorkOK
        BY Parts
      <3>2. /\ act[a].gen \in 0..MaxGen /\ act[a].user \in Account \cup {None} /\ act[a].tries \in 0..1
            /\ "write" \in Kinds
        BY <3>1, ActHeld DEF Kinds
      <3> QED
        BY <3>2 DEF Doing, ActRec
    <2>2. ~TornDown(act[a].gen) /\ Acquire(a, r, "start", window)
      BY <1>3
    <2> HIDE DEF r
    <2> QED
      BY <1>1, <2>1, <2>2, KeptOfTab, ActAcquires
  <1> QED
    BY <1>2, <1>3 DEF Asked

\* A file is hashed.
LEMMA StepHashed ==
    ASSUME IInv, NEW a \in Act, Hashed(a)
    PROVE  IInv'
  <1>1. /\ act[a].pc = "hashing" /\ UNCHANGED <<stored, events, tab, marker, logins>>
        /\ UNCHANGED <<window, held, stash, gen, slot, prompt, flight, trip, lost, late>>
    BY DEF Hashed, session, storage
  <1>2. CASE act' = Without(a)
    BY <1>1, <1>2, KeptOfTab, ActEnds
  <1>3. CASE tab # None
    <2> DEFINE r == Doing("sending", act[a].kind, act[a].gen, act[a].user, None, act[a].proof, tab, act[a].tries)
    <2>1. WorkOK /\ KeepOK /\ Owes(act[a])
      BY <1>1, Parts, ActOwn
    <2>2. /\ act[a].kind \in Kinds /\ act[a].gen \in 0..MaxGen /\ act[a].user \in Account \cup {None}
          /\ act[a].proof \in Account \cup {None} /\ act[a].tries \in 0..1 /\ tab \in Session \cup {None}
      BY <2>1, ActHeld DEF KeepOK
    <2>3. /\ r \in ActRec /\ r.pc = "sending" /\ r.kind = act[a].kind /\ r.gen = act[a].gen
          /\ r.user = act[a].user /\ r.proof = act[a].proof /\ r.sent = tab
      BY <2>2 DEF Doing, ActRec
    <2>4. act' = [act EXCEPT ![a] = r]
      BY <1>3 DEF Hashed
    <2> HIDE DEF r
    <2>5. Owes(r)
      BY <1>1, <1>3, <2>1, <2>3 DEF Owes
    <2>6. r.pc # "waiting"
      BY <2>3
    <2> QED
      BY <1>1, <2>3, <2>4, <2>5, <2>6, KeptOfTab, ActMoves
  <1> QED
    BY <1>2, <1>3 DEF Hashed, Without

\* The server accepts.
LEMMA StepAccepted ==
    ASSUME IInv, NEW a \in Act, Accepted(a)
    PROVE  IInv'
  <1>1. /\ act[a].pc # "idle" /\ act' = Without(a) /\ UNCHANGED <<stored, events, tab, marker, logins>>
        /\ UNCHANGED <<window, gen, slot, prompt, flight, trip, lost, late>>
        /\ held' \in {held, None} /\ stash' \in {stash, None}
    BY DEF Accepted, session
  <1>2. Keeping(window, window') /\ Keeping(held, held') /\ Keeping(stash, stash')
    BY <1>1 DEF Keeping
  <1> QED
    BY <1>1, <1>2, ActEnds

\* It refuses a proof that is spent.
LEMMA StepExpired ==
    ASSUME IInv, NEW a \in Act, Expired(a)
    PROVE  IInv'
  <1>1. /\ act[a].pc # "idle" /\ UNCHANGED <<stored, events, tab, marker, logins>>
        /\ UNCHANGED <<stash, gen, prompt, trip, lost, late>>
        /\ held' \in {held, None} /\ window' \in {window, None}
    BY DEF Expired, session
  <1>2. Keeping(window, window') /\ Keeping(held, held') /\ Keeping(stash, stash')
    BY <1>1 DEF Keeping
  <1>3. CASE act' = Without(a) /\ UNCHANGED <<flight, slot>>
    BY <1>1, <1>2, <1>3, ActEnds
  <1>4. CASE /\ ~TornDown(act[a].gen)
             /\ Acquire(a, Doing("sending", act[a].kind, act[a].gen, act[a].user, None, None, None, 1), "factor", None)
    <2> DEFINE r == Doing("sending", act[a].kind, act[a].gen, act[a].user, None, None, None, 1)
    <2>1. r \in ActRec /\ r.gen = act[a].gen /\ r.user = act[a].user
      <3>1. WorkOK
        BY Parts
      <3>2. /\ act[a].kind \in Kinds /\ act[a].gen \in 0..MaxGen /\ act[a].user \in Account \cup {None}
        BY <3>1, ActHeld
      <3> QED
        BY <3>2 DEF Doing, ActRec
    <2>2. ~TornDown(act[a].gen) /\ Acquire(a, r, "factor", None)
      BY <1>4
    <2> HIDE DEF r
    <2> QED
      BY <1>1, <1>2, <2>1, <2>2, ActAcquires
  <1> QED
    BY <1>3, <1>4 DEF Expired

\* A request fails.
LEMMA StepFails ==
    ASSUME IInv, NEW a \in Act, Fails(a)
    PROVE  IInv'
  <1>1. /\ act[a].pc # "idle" /\ act' = Without(a) /\ UNCHANGED <<stored, events, tab, marker, logins>>
        /\ UNCHANGED <<window, held, stash, gen, slot, prompt, flight, trip, lost, late>>
    BY DEF Fails, session, storage
  <1> QED
    BY <1>1, KeptOfTab, ActEnds

\* It refuses a proof of another account.
LEMMA StepMismatch ==
    ASSUME IInv, NEW a \in Act, Mismatch(a)
    PROVE  IInv'
  <1>1. WorkOK /\ KeepOK /\ RestOK /\ Flow /\ Marked /\ Kept /\ Fewer(Without(a))
    BY Parts, FewerActs
  <1>2. /\ act[a].pc # "idle" /\ gen < MaxGen /\ UNCHANGED <<events, logins, trip, lost, late>>
        /\ \/ NoScrub(Without(a)) /\ UNCHANGED <<stored, tab, marker>>
           \/ Disconnect(Without(a))
    BY DEF Mismatch, Room
  <1>3. trip.pc # "orcid"
    BY <1>2, ActOwn
  <1>4. Course /\ (stored' = stored \/ stored' = None)
    BY <1>1, <1>2, StaysSame, SignsOut
  <1>5. RestOK'
    BY <1>1, <1>2, <1>4 DEF RestOK
  <1> QED
    BY <1>2, <1>3, <1>4, <1>5, Carries

\* It has ended the session.
LEMMA StepEnded ==
    ASSUME IInv, NEW a \in Act, Ended(a)
    PROVE  IInv'
  <1>1. WorkOK /\ KeepOK /\ RestOK /\ Flow /\ Marked /\ Kept /\ Fewer(Without(a))
    BY Parts, FewerActs
  <1>2. /\ act[a].pc # "idle" /\ gen < MaxGen /\ UNCHANGED <<events, logins, trip, lost, late>>
        /\ \/ NoScrub(Without(a)) /\ UNCHANGED <<stored, tab, marker>>
           \/ stored # None /\ Adopt(stored, Without(a)) /\ UNCHANGED stored
           \/ Disconnect(Without(a))
    BY DEF Ended, Room, EndSession
  <1>3. trip.pc # "orcid"
    BY <1>2, ActOwn
  <1>4. ASSUME stored # None, Adopt(stored, Without(a))
        PROVE  Course
    <2>1. stored \in Session
      BY <1>1, <1>4 DEF RestOK
    <2> QED
      BY <1>1, <1>2, <1>4, <2>1, Adopts
  <1>5. Course /\ (stored' = stored \/ stored' = None)
    BY <1>1, <1>2, <1>4, StaysSame, SignsOut
  <1>6. RestOK'
    BY <1>1, <1>2, <1>5 DEF RestOK
  <1> QED
    BY <1>2, <1>3, <1>5, <1>6, Carries

\* A running acquisition is of the tab's subject, if its generation stands; the prompt is not
\* its own unless it asks.
LEMMA FlightOwn ==
    ASSUME IInv, NEW f \in Flight, flight[f].pc # "idle"
    PROVE  /\ trip.pc # "orcid"
           /\ flight[f].pc # "prompt" => prompt # f
           /\ ~TornDown(flight[f].gen) => /\ flight[f].gen = gen /\ tab # None
                                          /\ flight[f].user = tab.user
  <1>1. WorkOK /\ Flow /\ trip.pc # "orcid" /\ None \notin Flight
    BY Parts, Resting
  <1> QED
    BY <1>1, FlightHeld DEF Flow, FlightsMine, Mine, Prompted, TornDown

\* The factor of the account is known.
LEMMA StepFactorRead ==
    ASSUME IInv, NEW f \in Flight, FactorRead(f)
    PROVE  IInv'
  <1>1. /\ flight[f].pc = "factor" /\ UNCHANGED <<stored, events, tab, marker, logins>>
        /\ UNCHANGED <<window, held, stash, gen, trip, lost, late>>
    BY DEF FactorRead, session, storage
  <1>2. WorkOK /\ Flow /\ Still /\ trip.pc # "orcid" /\ prompt # f
    BY <1>1, Parts, FlightOwn DEF Still
  <1>3. CASE Cancelled(f) /\ UNCHANGED prompt
    <2>1. WorkOK' /\ Flow'
      BY <1>2, <1>3, Cancels
    <2> QED
      BY <1>1, <1>2, <2>1, KeptOfTab, Works
  <1>4. ASSUME NEW assumed \in BOOLEAN, ~TornDown(flight[f].gen), Asks(f, assumed, flight[f].tries)
        PROVE  IInv'
    <2> DEFINE tries == flight[f].tries
    <2>1. tries \in 0..1 /\ flight[f].gen = gen /\ Asks(f, assumed, tries)
      BY <1>1, <1>2, <1>4, FlightHeld, FlightOwn
    <2> HIDE DEF tries
    <2>2. WorkOK' /\ Flow'
      BY <1>1, <1>2, <2>1, AsksOnce
    <2> QED
      BY <1>1, <1>2, <2>2, KeptOfTab, Works
  <1>5. CASE OrcidOrRefuse(f) /\ UNCHANGED prompt
    <2>1. WorkOK' /\ Flow'
      BY <1>1, <1>2, <1>5, Orcids
    <2> QED
      BY <1>1, <1>2, <2>1, KeptOfTab, Works
  <1>6. \/ Cancelled(f) /\ UNCHANGED prompt
        \/ /\ ~TornDown(flight[f].gen)
           /\ Asks(f, flight[f].assumed, flight[f].tries) \/ Asks(f, TRUE, flight[f].tries)
        \/ OrcidOrRefuse(f) /\ UNCHANGED prompt
    BY DEF FactorRead
  <1>7. ASSUME ~TornDown(flight[f].gen), Asks(f, flight[f].assumed, flight[f].tries)
        PROVE  IInv'
    <2> DEFINE assumed == flight[f].assumed
    <2>1. assumed \in BOOLEAN /\ Asks(f, assumed, flight[f].tries)
      BY <1>2, <1>7, FlightHeld
    <2> HIDE DEF assumed
    <2> QED
      BY <1>4, <1>7, <2>1
  <1>8. ASSUME ~TornDown(flight[f].gen), Asks(f, TRUE, flight[f].tries)
        PROVE  IInv'
    <2> DEFINE assumed == TRUE
    <2>1. assumed \in BOOLEAN /\ Asks(f, assumed, flight[f].tries)
      BY <1>8
    <2> HIDE DEF assumed
    <2> QED
      BY <1>4, <1>8, <2>1
  <1> QED
    BY <1>3, <1>5, <1>6, <1>7, <1>8

\* The prompt is answered.
LEMMA StepAnswer ==
    ASSUME IInv, NEW f \in Flight, Answer(f)
    PROVE  IInv'
  <1>1. /\ prompt = f /\ prompt' = None /\ UNCHANGED <<stored, events, tab, marker, logins>>
        /\ UNCHANGED <<window, held, stash, gen, trip, lost, late>>
    BY DEF Answer, session, storage
  <1>2. WorkOK /\ Flow /\ Still /\ flight[f].pc = "prompt"
    BY <1>1, Parts, Resting DEF Still, Flow, Prompted
  <1>3. CASE Cancelled(f)
    <2>1. WorkOK' /\ Flow'
      BY <1>1, <1>2, <1>3, Cancels
    <2> QED
      BY <1>1, <1>2, <2>1, KeptOfTab, Works, FlightOwn
  <1>4. CASE Goes(f, "mint", flight[f].assumed, flight[f].tries, flight[f].stashes) /\ UNCHANGED <<slot, act>>
    <2> DEFINE assumed == flight[f].assumed
               tries == flight[f].tries
    <2>1. /\ assumed \in BOOLEAN /\ tries \in 0..1
          /\ Goes(f, "mint", assumed, tries, flight[f].stashes)
      BY <1>2, <1>4, FlightHeld
    <2> HIDE DEF assumed, tries
    <2>2. WorkOK' /\ Flow'
      BY <1>1, <1>2, <1>4, <2>1, GoesOn
    <2> QED
      BY <1>1, <1>2, <2>2, KeptOfTab, Works, FlightOwn
  <1> QED
    BY <1>3, <1>4 DEF Answer

\* Those who wait on an acquisition that has a proof present it.
LEMMA Proven ==
    ASSUME IInv, NEW f \in Flight, flight[f].pc # "idle", ~TornDown(flight[f].gen), NEW a \in Waiters(f)
    PROVE  Answers(Presents(act[a], flight[f].user), a)
  <1>1. /\ WorkOK /\ KeepOK /\ Flow /\ a \in Act /\ act[a].pc = "waiting" /\ act[a].on = f
    BY Parts DEF Waiters
  <1>2. tab # None /\ flight[f].user = tab.user /\ act[a] \in ActRec /\ act[a].user = flight[f].user
    BY <1>1, FlightOwn, ActOwn DEF Flow, Waiting, WaitsWell
  <1>3. flight[f].user \in Account \cup {None}
    BY <1>1, FlightHeld
  <1> DEFINE r == act[a]
             owner == flight[f].user
  <1>4. r \in ActRec /\ owner \in Account \cup {None} /\ r.user = tab.user /\ owner = r.user
    BY <1>2, <1>3
  <1>5. Presents(r, owner) \in ActRec /\ Presents(r, owner).pc \in {"hashing", "sending"}
        /\ Presents(r, owner).gen = r.gen /\ Presents(r, owner).user = r.user
        /\ Owes(Presents(r, owner))
    <2> HIDE DEF r, owner
    <2> QED
      BY <1>1, <1>2, <1>4, PresentsOwn
  <1> QED
    BY <1>5 DEF Answers

\* A password mints a proof, or does not.
LEMMA StepMint ==
    ASSUME IInv, NEW f \in Flight, Mint(f)
    PROVE  IInv'
  <1>1. /\ flight[f].pc = "mint" /\ UNCHANGED <<stored, events, tab, marker, logins>>
        /\ UNCHANGED <<held, stash, gen, trip, lost, late>>
    BY DEF Mint, session
  <1>2. WorkOK /\ Flow /\ Still /\ trip.pc # "orcid" /\ prompt # f
    BY <1>1, Parts, FlightOwn DEF Still
  <1>3. CASE Cancelled(f) /\ UNCHANGED <<window, prompt>>
    <2>1. WorkOK' /\ Flow'
      BY <1>2, <1>3, Cancels
    <2> QED
      BY <1>1, <1>2, <1>3, <2>1, KeptOfTab, Works
  <1>4. CASE /\ ~TornDown(flight[f].gen) /\ window' \in {window, flight[f].user} /\ UNCHANGED prompt
             /\ Settle(f, [a \in Act |-> Presents(act[a], flight[f].user)])
    <2> DEFINE to == [a \in Act |-> Presents(act[a], flight[f].user)]
    <2>1. \A a \in Waiters(f) : Answers(to[a], a)
      <3>1. \A a \in Waiters(f) : a \in Act
        BY DEF Waiters
      <3> QED
        BY <1>1, <1>4, <3>1, Proven
    <2>2. Settle(f, to)
      BY <1>4
    <2> HIDE DEF to
    <2>3. WorkOK' /\ Flow'
      BY <1>2, <1>4, <2>1, <2>2, Settles
    <2>4. Keeping(window, window')
      BY <1>1, <1>4, FlightOwn DEF Keeping
    <2> QED
      BY <1>1, <1>2, <2>3, <2>4, KeptOfTab, Works
  <1>5. CASE OrcidOrRefuse(f) /\ UNCHANGED <<window, prompt>>
    <2>1. WorkOK' /\ Flow'
      BY <1>1, <1>2, <1>5, Orcids
    <2> QED
      BY <1>1, <1>2, <1>5, <2>1, KeptOfTab, Works
  <1>6. CASE ~TornDown(flight[f].gen) /\ UNCHANGED window /\ Asks(f, flight[f].assumed, 1)
    <2> DEFINE assumed == flight[f].assumed
               tries == 1
    <2>1. assumed \in BOOLEAN /\ tries \in 0..1 /\ flight[f].gen = gen /\ Asks(f, assumed, tries)
      BY <1>1, <1>2, <1>6, FlightHeld, FlightOwn
    <2> HIDE DEF assumed, tries
    <2>2. WorkOK' /\ Flow'
      BY <1>1, <1>2, <2>1, AsksOnce
    <2> QED
      BY <1>1, <1>2, <1>6, <2>2, KeptOfTab, Works
  <1> QED
    BY <1>3, <1>4, <1>5, <1>6 DEF Mint

\* The page is left with all that was composed: one record holds it.
LEMMA Whole ==
    ASSUME IInv, NEW f \in Flight, Keeps(f), NEW a \in Waiters(f), act[a].kind = "compose"
    PROVE  flight[f].stashes = {a}
  <1>1. WorkOK /\ Flow
    BY Parts
  <1>2. a \in flight[f].stashes /\ flight[f].stashes \in SUBSET Act
    BY <1>1, FlightHeld DEF Waiters, Flow, Waiting, WaitsWell
  <1> DEFINE S == flight[f].stashes
  <1>3. IsFiniteSet(S) /\ a \in S /\ Cardinality(S) <= 1
    BY <1>2, ClientAssumption, FS_Subset DEF Keeps
  <1> HIDE DEF S
  <1>4. ASSUME NEW b \in S, b # a
        PROVE  FALSE
    <2>1. Cardinality({a, b}) = 2
      <3>1. Cardinality({a}) = 1 /\ IsFiniteSet({a})
        BY FS_Singleton
      <3>2. Cardinality({a} \cup {b}) = Cardinality({a}) + 1
        BY <1>4, <3>1, FS_AddElement
      <3>3. {a, b} = {a} \cup {b}
        OBVIOUS
      <3> QED
        BY <3>1, <3>2, <3>3
    <2>2. {a, b} \subseteq S
      BY <1>3, <1>4
    <2>3. Cardinality({a, b}) <= Cardinality(S) /\ Cardinality(S) \in Nat
      BY <1>3, <2>2, FS_Subset, FS_CardinalityType
    <2> QED
      BY <1>3, <2>1, <2>3
  <1>5. S = {a}
    BY <1>3, <1>4
  <1> QED
    BY <1>5 DEF S

\* The page is left for ORCID.
LEMMA StepLeaves ==
    ASSUME IInv, NEW f \in Flight, flight[f].pc = "start", ~TornDown(flight[f].gen), Keeps(f), Leaves,
           trip' = [pc |-> "orcid", by |-> flight[f].user, gen |-> 0,
                    kind |-> IF flight[f].posture = "alone" THEN "consent" ELSE "window"],
           stash' \in {stash, None, flight[f].user},
           lost' = (lost \/ \E a \in Waiters(f) : act[a].kind = "compose" /\ flight[f].stashes # {a}),
           UNCHANGED <<stored, marker, logins, window, held, late>>
    PROVE  IInv'
  <1>1. WorkOK /\ KeepOK /\ RestOK /\ Marked /\ Kept /\ lost = FALSE
    BY Parts
  <1>2. flight[f].user = tab.user /\ tab # None /\ flight[f].user \in Account \cup {None}
    BY <1>1, FlightOwn, FlightHeld
  <1>3. flight[f].user = marker
    BY <1>1, <1>2 DEF Marked
  <1>4. lost' = FALSE
    BY <1>1, Whole
  <1>5. /\ act' = [a \in Act |-> NoAct] /\ flight' = [g \in Flight |-> NoFlight]
        /\ slot' = [p \in Shared |-> None] /\ prompt' = None /\ gen' = 0 /\ tab' = None /\ events' = <<>>
    BY DEF Leaves
  <1>6. NoAct \in ActRec /\ NoAct.pc = "idle" /\ NoFlight \in FlightRec /\ NoFlight.pc = "idle" /\ 0 \in 0..MaxGen
    BY Resting
  <1>7. WorkOK'
    BY <1>5, <1>6 DEF WorkOK
  <1>8. KeepOK' /\ Marked' /\ Kept'
    BY <1>1, <1>2, <1>3, <1>5 DEF KeepOK, Marked, Kept
  <1>9. trip'.pc = "orcid" /\ trip' \in TripRec
    BY <1>2, <1>6 DEF TripRec
  <1>10. RestOK'
    BY <1>1, <1>4, <1>5, <1>9 DEF RestOK
  <1>11. /\ \A a \in Act : act'[a].pc = "idle"
         /\ \A g \in Flight : flight'[g].pc = "idle"
         /\ \A p \in Shared : slot'[p] = None
    BY <1>5, <1>6
  <1>12. Flow'
    <2>1. FlightsMine' /\ ActsMine' /\ Waiting' /\ Slots' /\ Prompted' /\ Owed'
      BY <1>5, <1>11 DEF FlightsMine, ActsMine, Waiting, WaitsWell, Slots, Prompted, Owed, Owes
    <2> QED
      BY <2>1 DEF Flow
  <1>13. TripMine' /\ Left' /\ NothingLost'
    BY <1>4, <1>5, <1>9, <1>11 DEF TripMine, Left, NothingLost
  <1> QED
    BY <1>7, <1>8, <1>10, <1>12, <1>13, TypesNext DEF IInv, Flow

\* startOrcid answers.
LEMMA StepStart ==
    ASSUME IInv, NEW f \in Flight, Start(f)
    PROVE  IInv'
  <1>1. /\ flight[f].pc = "start" /\ UNCHANGED <<stored, marker, logins, window, held, late>>
    BY DEF Start
  <1>2. WorkOK /\ Flow /\ trip.pc # "orcid" /\ prompt # f
    BY <1>1, Parts, FlightOwn
  <1>3. ASSUME Cancelled(f) \/ Refused(f), UNCHANGED <<tab, events, stash, gen, prompt, trip, lost>>
        PROVE  IInv'
    <2>1. Still
      BY <1>1, <1>3 DEF Still
    <2>2. WorkOK' /\ Flow'
      BY <1>2, <1>3, <2>1, Cancels, Refuses
    <2> QED
      BY <1>1, <1>2, <1>3, <2>2, KeptOfTab, Works
  <1>4. ASSUME ~TornDown(flight[f].gen), Keeps(f), Leaves,
               trip' = [pc |-> "orcid", by |-> flight[f].user, gen |-> 0,
                        kind |-> IF flight[f].posture = "alone" THEN "consent" ELSE "window"],
               stash' \in {stash, None, flight[f].user},
               lost' = (lost \/ \E a \in Waiters(f) : act[a].kind = "compose" /\ flight[f].stashes # {a})
        PROVE  IInv'
    BY <1>1, <1>4, StepLeaves
  <1> QED
    BY <1>3, <1>4 DEF Start

\* A page loads when the user is back.
LEMMA StepReturn ==
    ASSUME IInv, Return
    PROVE  IInv'
  <1>1. WorkOK /\ KeepOK /\ RestOK /\ Flow /\ Marked /\ Kept /\ Fewer(act) /\ lost = FALSE
    BY Parts, FewerActs
  <1>2. /\ trip.pc = "orcid" /\ gen = 0 /\ tab = None /\ UNCHANGED <<stored, events, logins, lost, late>>
        /\ gen < MaxGen
    BY Resting, ClientAssumption DEF IInv, Left, Return
  <1>3. ASSUME stored # None, Adopt(stored, act)
        PROVE  Course /\ tab' = stored
    <2>1. stored \in Session
      BY <1>1, <1>3 DEF RestOK
    <2> QED
      BY <1>1, <1>2, <1>3, <2>1, Adopts
  <1>4. ASSUME NoScrub(act), UNCHANGED <<tab, marker>>
        PROVE  Course
    BY <1>1, <1>2, <1>4, StaysSame
  <1>5. Course /\ (stored # None => tab' = stored)
    <2>1. \/ stored = None /\ NoScrub(act) /\ UNCHANGED <<tab, marker>>
          \/ stored # None /\ Adopt(stored, act)
      BY DEF Return
    <2> QED
      BY <1>3, <1>4, <2>1
  <1>6. CASE trip' = NoTrip
    <2>1. trip'.pc = "none" /\ trip' \in TripRec
      BY <1>6, Resting
    <2>2. RestOK'
      BY <1>1, <1>2, <2>1 DEF RestOK
    <2>3. TripMine' /\ Left' /\ NothingLost'
      BY <1>1, <1>2, <2>1 DEF TripMine, Left, NothingLost
    <2> QED
      BY <1>5, <2>2, <2>3, TypesNext DEF IInv, Course, Flow
  <1>7. CASE /\ stored # None /\ stored.user = trip.by
             /\ trip' = [pc |-> "callback", by |-> trip.by, kind |-> trip.kind, gen |-> gen']
    <2>1. /\ trip.by \in Account \cup {None} /\ trip.kind \in {"window", "consent"} /\ gen' \in 0..MaxGen
          /\ gen' \in Nat
      BY <1>1, <1>5, Resting DEF RestOK, TripRec, Course, WorkOK
    <2>2. trip' \in TripRec /\ trip'.pc = "callback" /\ trip'.by = trip.by /\ trip'.gen = gen'
      BY <1>7, <2>1 DEF TripRec
    <2>3. RestOK'
      BY <1>1, <1>2, <2>2 DEF RestOK
    <2>4. TripMine'
      BY <1>5, <1>7, <2>1, <2>2 DEF TripMine, Mine
    <2>5. Left' /\ NothingLost'
      BY <1>1, <1>2, <2>2 DEF Left, NothingLost
    <2> QED
      BY <1>5, <2>3, <2>4, <2>5, TypesNext DEF IInv, Course, Flow
  <1> QED
    BY <1>6, <1>7 DEF Return

\* The callback takes the proof it finds.
LEMMA StepCallback ==
    ASSUME IInv, Callback
    PROVE  IInv'
  <1>1. WorkOK /\ KeepOK /\ RestOK /\ Flow /\ Marked /\ Kept /\ TripMine /\ lost = FALSE
    BY Parts
  <1>2. /\ trip.pc = "callback" /\ trip'.pc = "none" /\ trip' \in TripRec
        /\ UNCHANGED <<stored, events, tab, marker, logins, stash, gen, slot, prompt, flight, act, lost>>
        /\ late' = (late \/ trip.gen # gen) \/ late' = late
    BY Resting DEF Callback, session, TornDown
  <1>3. late' \in BOOLEAN /\ (~late' => ~late)
    <2> DEFINE changed == late \/ trip.gen # gen
    <2>1. late \in BOOLEAN /\ changed \in BOOLEAN /\ (late => changed)
      BY <1>1 DEF RestOK
    <2>2. late' = changed \/ late' = late
      BY <1>2
    <2> HIDE DEF changed
    <2> QED
      BY <2>1, <2>2
  <1>4. /\ window' \in {window, trip.by} /\ held' \in {held, trip.by}
        /\ (window' = window /\ held' = held) \/ late' \/ trip.gen = gen
    BY DEF Callback, Caches, TornDown
  <1>5. WorkOK' /\ Flow'
    <2>1. WorkOK'
      BY <1>1, <1>2 DEF WorkOK
    <2>2. FlightsMine' /\ ActsMine' /\ Waiting' /\ Slots' /\ Prompted'
      BY <1>1, <1>2 DEF Flow, FlightsMine, ActsMine, Mine, Waiting, WaitsWell, Slots, Prompted
    <2>3. Owed'
      BY <1>1, <1>2, <1>3 DEF Flow, Owed, Owes
    <2> QED
      BY <2>1, <2>2, <2>3 DEF Flow
  <1>6. KeepOK'
    BY <1>1, <1>2, <1>4 DEF KeepOK, RestOK, TripRec
  <1>7. Marked' /\ Left' /\ NothingLost' /\ TripMine'
    BY <1>1, <1>2 DEF Marked, Left, NothingLost, TripMine
  <1>8. Kept'
    <2>1. SUFFICES ASSUME ~late'
                   PROVE  {window', held', stash'} \subseteq {None, marker'}
      BY DEF Kept
    <2>2. {window, held, stash} \subseteq {None, marker}
      BY <1>1, <1>3, <2>1 DEF Kept
    <2>3. trip.gen = gen => trip.by = marker
      BY <1>1, <1>2 DEF TripMine, Mine, Marked
    <2> QED
      BY <1>2, <1>4, <2>1, <2>2, <2>3
  <1>9. RestOK'
    BY <1>1, <1>2, <1>3 DEF RestOK
  <1> QED
    BY <1>5, <1>6, <1>7, <1>8, <1>9, TypesNext DEF IInv, Flow

\* A composer takes back what was kept for it.
LEMMA StepTakeStash ==
    ASSUME IInv, TakeStash
    PROVE  IInv'
  <1>1. /\ trip.pc # "orcid" /\ stash' = None /\ UNCHANGED <<stored, events, tab, marker, logins>>
        /\ UNCHANGED <<window, held, gen, slot, prompt, flight, act, trip, lost, late>>
    BY DEF TakeStash, session
  <1>2. WorkOK /\ Flow
    BY Parts
  <1>3. WorkOK'
    BY <1>1, <1>2 DEF WorkOK
  <1>4. FlightsMine' /\ ActsMine' /\ Waiting' /\ Slots' /\ Prompted' /\ Owed'
    BY <1>1, <1>2 DEF Flow, FlightsMine, ActsMine, Mine, Waiting, WaitsWell, Slots, Prompted, Owed, Owes
  <1>5. Flow'
    BY <1>4 DEF Flow
  <1> QED
    BY <1>1, <1>3, <1>5, KeptOfTab, Works

\* Nothing happens.
LEMMA StepStutter ==
    ASSUME IInv, UNCHANGED vars
    PROVE  IInv'
  <1>1. UNCHANGED <<stored, events, tab, marker, logins, window, held, stash, gen, slot, prompt, flight,
                    act, trip, lost, late>>
    BY DEF vars
  <1>2. TypeOK' /\ Marked' /\ Kept' /\ TripMine' /\ Left' /\ NothingLost'
    BY <1>1 DEF IInv, TypeOK, Marked, Kept, TripMine, Mine, Left, NothingLost
  <1>3. FlightsMine' /\ ActsMine' /\ Waiting' /\ Slots' /\ Prompted' /\ Owed'
    BY <1>1 DEF IInv, Flow, FlightsMine, ActsMine, Mine, Waiting, WaitsWell, Slots, Prompted, Owed, Owes
  <1> QED
    BY <1>2, <1>3 DEF IInv, Flow

(***************************************************************************)
(* The theorems.                                                           *)
(***************************************************************************)

\* It holds at the start.
LEMMA InitHolds ==
    Init => IInv
  <1>1. SUFFICES ASSUME Init
                 PROVE  IInv
    OBVIOUS
  <1>2. PICK u \in Account : tab = [user |-> u, n |-> 1] /\ marker = u
    BY <1>1 DEF Init
  <1>3. /\ stored = tab /\ events = <<>> /\ window = None /\ held = None /\ stash = None
        /\ gen = 0 /\ slot = [p \in Shared |-> None] /\ prompt = None
        /\ flight = [f \in Flight |-> NoFlight] /\ act = [a \in Act |-> NoAct] /\ trip = NoTrip
        /\ logins = 1 /\ lost = FALSE /\ late = FALSE
    BY <1>1 DEF Init
  <1>4. tab \in Session /\ tab.user = u /\ logins \in 0..MaxLogins
    BY <1>2, <1>3, ClientAssumption DEF Session
  <1>5. /\ NoAct \in ActRec /\ NoAct.pc = "idle" /\ NoFlight \in FlightRec /\ NoFlight.pc = "idle"
        /\ NoTrip \in TripRec /\ NoTrip.pc = "none" /\ 0 \in 0..MaxGen
    BY Resting
  <1>6. /\ \A f \in Flight : flight[f].pc = "idle"
        /\ \A a \in Act : act[a].pc = "idle"
        /\ \A p \in Shared : slot[p] = None
    BY <1>3, <1>5
  <1>7. WorkOK
    BY <1>3, <1>5 DEF WorkOK
  <1>8. KeepOK
    BY <1>2, <1>3, <1>4 DEF KeepOK
  <1>9. RestOK
    <2>1. stored \in Session \cup {None} /\ trip \in TripRec
      BY <1>3, <1>4, <1>5
    <2>2. events \in Seq(BOOLEAN)
      BY <1>3
    <2>3. lost \in BOOLEAN /\ late \in BOOLEAN
      BY <1>3
    <2> QED
      BY <1>4, <2>1, <2>2, <2>3 DEF RestOK
  <1>10. FlightsMine /\ ActsMine /\ Waiting /\ Slots /\ Prompted /\ Owed
    BY <1>3, <1>6 DEF FlightsMine, ActsMine, Waiting, WaitsWell, Slots, Prompted, Owed, Owes
  <1>11. Marked /\ Kept /\ TripMine /\ Left /\ NothingLost
    BY <1>2, <1>3, <1>4, <1>5 DEF Marked, Kept, TripMine, Left, NothingLost
  <1> QED
    BY <1>7, <1>8, <1>9, <1>10, <1>11, Types DEF IInv, Flow

\* Every step keeps it.
LEMMA NextKeeps ==
    IInv /\ [Next]_vars => IInv'
  <1>1. SUFFICES ASSUME IInv, [Next]_vars
                 PROVE  IInv'
    OBVIOUS
  <1>2. ASSUME NEW u \in Account, LoginHere(u)
        PROVE  IInv'
    BY <1>1, <1>2, StepLoginHere
  <1>3. CASE LogoutHere
    BY <1>1, <1>3, StepLogoutHere
  <1>4. CASE OtherTab
    BY <1>1, <1>4, StepOtherTab
  <1>5. CASE StorageEvent
    BY <1>1, <1>5, StepStorageEvent
  <1>6. ASSUME NEW a \in Act, NEW kind \in Kinds, Begin(a, kind)
        PROVE  IInv'
    BY <1>1, <1>6, StepBegin
  <1>7. ASSUME NEW a \in Act,
               Asked(a) \/ Hashed(a) \/ Accepted(a) \/ Expired(a) \/ Mismatch(a) \/ Ended(a) \/ Fails(a)
        PROVE  IInv'
    BY <1>1, <1>7, StepAsked, StepHashed, StepAccepted, StepExpired, StepMismatch, StepEnded, StepFails
  <1>8. ASSUME NEW f \in Flight, FactorRead(f) \/ Answer(f) \/ Mint(f) \/ Start(f)
        PROVE  IInv'
    BY <1>1, <1>8, StepFactorRead, StepAnswer, StepMint, StepStart
  <1>9. CASE Return
    BY <1>1, <1>9, StepReturn
  <1>10. CASE Callback
    BY <1>1, <1>10, StepCallback
  <1>11. CASE TakeStash
    BY <1>1, <1>11, StepTakeStash
  <1>12. CASE UNCHANGED vars
    BY <1>1, <1>12, StepStutter
  <1> QED
    BY <1>1, <1>2, <1>3, <1>4, <1>5, <1>6, <1>7, <1>8, <1>9, <1>10, <1>11, <1>12 DEF Next

\* The inductive invariant holds of every behaviour of a tab (auth.js, fresh-auth.js).
THEOREM Invariance == Spec => []IInv
  BY InitHolds, NextKeeps, PTL DEF Spec

\* The variables of a tab keep their types.
THEOREM Typed == Spec => []TypeOK
  <1>1. IInv => TypeOK
    BY DEF IInv
  <1> QED
    BY <1>1, Invariance, PTL

\* What a tab keeps of a subject is never there for the next, and an action goes out under
\* the account it began under, with a proof of that account (auth.js _adoptSubject,
\* fresh-auth.js subjectTeardownGuard).
THEOREM Subject == Spec => []ActsAsSubject
  <1>1. IInv => ActsAsSubject
    <2>1. SUFFICES ASSUME IInv
                   PROVE  ActsAsSubject
      OBVIOUS
    <2>2. ProofsOfSubject
      BY <2>1, Parts DEF ProofsOfSubject, OfSubject, Marked, Kept
    <2>3. SentAsBegun
      BY <2>1, Parts DEF SentAsBegun, Flow, Owed, Owes
    <2> QED
      BY <2>2, <2>3 DEF ActsAsSubject
  <1> QED
    BY <1>1, Invariance, PTL

\* An open prompt is that of a running acquisition for the subject, nobody waits on one that
\* ended, and a page left for ORCID takes along what was composed (fresh-auth.js
\* stashBeforeNavigating, dismissOpenReauthPrompt).
THEOREM Prompts == Spec => []PromptsSound
  <1>1. IInv => PromptsSound
    <2>1. SUFFICES ASSUME IInv
                   PROVE  PromptsSound
      OBVIOUS
    <2>2. PromptIsCurrent
      <3>1. Flow
        BY <2>1, Parts
      <3> QED
        BY <3>1 DEF PromptIsCurrent, TornDown, Flow, Prompted, Waiting, WaitsWell
    <2>3. NothingLost
      BY <2>1 DEF IInv
    <2> QED
      BY <2>2, <2>3 DEF PromptsSound
  <1> QED
    BY <1>1, Invariance, PTL
=============================================================================
