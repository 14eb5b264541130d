--------------------------- MODULE FreshAuthClient ---------------------------
(* A tab of the browser application: its session, which other tabs of the      *)
(* browser change through localStorage, and the actions that need a fresh      *)
(* proof of identity.  A proof comes from the window cached in the tab, from a *)
(* password prompt, or from a round trip to ORCID that leaves the page and     *)
(* lands on the callback page.                                                 *)
(*                                                                             *)
(* Between two awaits JavaScript is not interrupted: an action of the model is *)
(* what runs between two of them, with the microtasks it settles.              *)
EXTENDS Integers, Sequences, FiniteSets

CONSTANTS Account, Passworded, \* light accounts, and those that have a password
          None,
          Act,        \* actions of the user that run at a time
          Flight,     \* acquisitions that run at a time
          MaxLogins,  \* bound on logins
          MaxGen      \* bound on changes of the subject in one page

\* What an instance must give them.
ASSUME ClientAssumption ==
  /\ Passworded \subseteq Account /\ None \notin Account /\ None \notin [user : Account, n : Nat]
  /\ Act \subseteq Nat /\ IsFiniteSet(Act) /\ Flight \subseteq Nat /\ None \notin Flight
  /\ MaxLogins \in Nat \ {0} /\ MaxGen \in Nat \ {0}

VARIABLES
  stored,  \* the session in localStorage
  events,  \* storage events under way to this tab: whether the session was set
  tab,     \* the session of the auth store
  marker,  \* TAB_SUBJECT_KEY
  window,  \* SESSION_PROOF_KEY: whose proof it is
  held,    \* CONSENT_OP_PROOF_KEY: whose proof it is
  stash,   \* NAVIGATION_STASH_KEY: whose work it holds
  gen,     \* _acquireGeneration
  slot,    \* _acquireInFlight
  prompt,  \* the flight the password prompt belongs to
  flight,  \* acquisitions
  act,     \* actions
  trip,    \* the round trip to ORCID
  logins,  \* bound
  lost,    \* history: composed work a navigation dropped unasked
  late     \* history: a proof of the callback landed after a change of subject

vars == <<stored, events, tab, marker, window, held, stash, gen, slot, prompt, flight, act, trip, logins, lost, late>>

storage == <<window, held, stash>>
session == <<stored, events, tab, marker, logins>>

Session == [user : Account, n : 1..MaxLogins]
Shared == {"permissive", "suppressed"}
Posture == Shared \cup {"alone"}
FlightRec == [pc : {"idle", "factor", "prompt", "mint", "start"}, gen : 0..MaxGen, user : Account \cup {None},
              posture : Posture, assumed : BOOLEAN, tries : 0..1, stashes : SUBSET Act]
Kinds == {"write", "compose", "inline", "upload", "consent"}
ActRec == [pc : {"idle", "waiting", "asking", "hashing", "sending"}, kind : Kinds, gen : 0..MaxGen,
           user : Account \cup {None}, on : Flight \cup {None}, proof : Account \cup {None},
           sent : Session \cup {None}, tries : 0..1]
TripRec == [pc : {"none", "orcid", "callback"}, by : Account \cup {None}, kind : {"window", "consent"}, gen : 0..MaxGen]

\* An acquisition, and an action.
Flying(pc, g, u, posture, assumed, tries, stashes) ==
  [pc |-> pc, gen |-> g, user |-> u, posture |-> posture, assumed |-> assumed, tries |-> tries,
   stashes |-> stashes]
Doing(pc, kind, g, u, on, proof, sent, tries) ==
  [pc |-> pc, kind |-> kind, gen |-> g, user |-> u, on |-> on, proof |-> proof, sent |-> sent,
   tries |-> tries]

NoFlight == Flying("idle", 0, None, "alone", FALSE, 0, {})
NoAct == Doing("idle", "write", 0, None, None, None, None, 0)
NoTrip == [pc |-> "none", by |-> None, kind |-> "window", gen |-> 0]

TypeOK ==
  /\ stored \in Session \cup {None} /\ tab \in Session \cup {None} /\ events \in Seq(BOOLEAN)
  /\ {marker, window, held, stash} \subseteq Account \cup {None}
  /\ gen \in 0..MaxGen /\ slot \in [Shared -> Flight \cup {None}]
  /\ prompt \in Flight \cup {None}
  /\ flight \in [Flight -> FlightRec] /\ act \in [Act -> ActRec] /\ trip \in TripRec
  /\ logins \in 0..MaxLogins /\ lost \in BOOLEAN /\ late \in BOOLEAN
  /\ \A p \in Shared : slot[p] # None => flight[slot[p]].posture = p

PostureOf(kind) ==
  IF kind \in {"write", "compose"} THEN "permissive"
  ELSE IF kind \in {"inline", "upload"} THEN "suppressed" ELSE "alone"

Waiters(f) == {a \in Act : act[a].pc = "waiting" /\ act[a].on = f}
Here == trip.pc # "orcid"

-----------------------------------------------------------------------------
(* The subject of the tab *)

\* Seeded fault: the prompt stays open over a change of subject.
Dismissed_Kept == prompt

\* dismissOpenReauthPrompt.
Dismissed == None

\* _scrubSubjectBoundState.  The flight at the prompt resumes in the same turn, finds its
\* guard torn down, and those who wait on it end.
Scrub(acts) ==
  /\ gen' = gen + 1 /\ window' = None /\ held' = None /\ stash' = None
  /\ slot' = [p \in Shared |-> None] /\ prompt' = Dismissed
  /\ flight' = IF prompt' # prompt THEN [flight EXCEPT ![prompt] = NoFlight] ELSE flight
  /\ act' = [a \in Act |-> IF prompt' # prompt /\ a \in Waiters(prompt) THEN NoAct ELSE acts[a]]

NoScrub(acts) == act' = acts /\ UNCHANGED <<gen, storage, slot, prompt, flight>>

\* Seeded fault: only the session in memory is looked at.
Previous_Tab == IF tab # None THEN tab.user ELSE None

\* The marker of the tab, or else the session it has, names the subject.
Previous == IF marker # None THEN marker ELSE IF tab # None THEN tab.user ELSE None

\* _adoptSubject.
Adopt(s, acts) ==
  /\ IF Previous \notin {None, s.user} THEN Scrub(acts) ELSE NoScrub(acts)
  /\ tab' = s /\ marker' = s.user

Disconnect(acts) == tab' = None /\ stored' = None /\ marker' = None /\ Scrub(acts)

Room == gen < MaxGen

\* Somebody logs in in this tab.
LoginHere(u) ==
  /\ Here /\ Room /\ logins < MaxLogins /\ logins' = logins + 1
  /\ stored' = [user |-> u, n |-> logins'] /\ Adopt(stored', act)
  /\ UNCHANGED <<events, trip, lost, late>>

LogoutHere ==
  /\ Here /\ Room /\ tab # None /\ Disconnect(act)
  /\ UNCHANGED <<events, logins, trip, lost, late>>

\* Another tab logs in or out; a page that is left hears nothing of it.
OtherTab ==
  /\ Len(events) < 2   \* bound
  /\ \/ \E u \in Account : /\ logins < MaxLogins /\ logins' = logins + 1
                           /\ stored' = [user |-> u, n |-> logins']
     \/ stored # None /\ stored' = None /\ UNCHANGED logins
  /\ events' = IF Here THEN Append(events, stored' # None) ELSE events
  /\ UNCHANGED <<tab, marker, storage, gen, slot, prompt, flight, act, trip, lost, late>>

\* _handleStorageEvent: a removal is a sign-out; else the session that is stored now is
\* taken up.
StorageEvent ==
  /\ Here /\ Room /\ events # <<>> /\ events' = Tail(events)
  /\ \/ ~Head(events) /\ Disconnect(act)
     \/ Head(events) /\ stored # None /\ Adopt(stored, act) /\ UNCHANGED stored
     \/ Head(events) /\ stored = None /\ NoScrub(act) /\ UNCHANGED <<stored, tab, marker>>
  /\ UNCHANGED <<logins, trip, lost, late>>

\* _endSession: nothing if the token was replaced since; a newer stored session is taken
\* up instead of torn down.
EndSession(sent, acts) ==
  \/ sent # tab /\ NoScrub(acts) /\ UNCHANGED <<stored, tab, marker>>
  \/ sent = tab /\ stored \notin {None, sent} /\ Adopt(stored, acts) /\ UNCHANGED stored
  \/ sent = tab /\ stored \in {None, sent} /\ Disconnect(acts)

-----------------------------------------------------------------------------
(* Acquisitions *)

\* Seeded fault: a change of subject is not noticed.
TornDown_Never(g) == FALSE

\* subjectTeardownGuard.
TornDown(g) == g # gen

\* Seeded fault: a slot is not released.
Released_Never(f) == slot

Released(f) == [p \in Shared |-> IF slot[p] = f THEN None ELSE slot[p]]

\* An acquisition goes on for the subject it began for.
Goes(f, pc, assumed, tries, stashes) ==
  flight' = [flight EXCEPT ![f] = Flying(pc, flight[f].gen, flight[f].user, flight[f].posture,
                                         assumed, tries, stashes)]

\* A flight ends: its slot is released, and every action that waits on it goes to to[a].
Settle(f, to) ==
  /\ flight' = [flight EXCEPT ![f] = NoFlight] /\ slot' = Released(f)
  /\ act' = [a \in Act |-> IF a \in Waiters(f) THEN to[a] ELSE act[a]]

Cancelled(f) == Settle(f, [a \in Act |-> NoAct])

\* A proof goes out with the session of this turn; an upload hashes its file first.
Presents(r, owner) ==
  IF r.kind = "upload" THEN Doing("hashing", r.kind, r.gen, r.user, None, owner, None, r.tries)
                       ELSE Doing("sending", r.kind, r.gen, r.user, None, owner, tab, r.tries)

Asking(r) == Doing("asking", r.kind, r.gen, r.user, None, None, None, r.tries)

\* FRESH_AUTH_REAUTH_REQUIRED: who composed something is asked whether to lose it; one
\* dialog is open at a time.
Refused(f) ==
  LET asked == {a \in Waiters(f) : act[a].kind = "compose" /\ \A b \in Act : act[b].pc # "asking"} IN
  \/ \E one \in asked : Settle(f, [a \in Act |-> IF a = one THEN Asking(act[a]) ELSE NoAct])
  \/ asked = {} /\ Cancelled(f)

\* orcidOrRefuse.
OrcidOrRefuse(f) ==
  IF flight[f].posture = "suppressed" THEN Refused(f)
  ELSE /\ Goes(f, "start", flight[f].assumed, flight[f].tries, flight[f].stashes)
       /\ UNCHANGED <<slot, act>>

\* The prompt, when no other flight has it.
Asks(f, assumed, tries) ==
  IF prompt = None
    THEN prompt' = f /\ Goes(f, "prompt", assumed, tries, flight[f].stashes) /\ UNCHANGED <<slot, act>>
    ELSE Cancelled(f) /\ UNCHANGED prompt

\* Flights for a consent operation are not shared.
InFlight(p) == IF p = "alone" THEN None ELSE slot[p]

Cached(kind) == IF PostureOf(kind) = "alone" THEN held ELSE window

\* The action waits on f.
WaitsOn(a, r, f) ==
  act' = [act EXCEPT ![a] = Doing("waiting", r.kind, r.gen, r.user, f, None, None, r.tries)]

\* acquireSessionProof and the resolvers of the consent-op proofs: a cached proof, a
\* flight to join, or a flight of its own.
Acquire(a, r, pc, cached) ==
  LET p == PostureOf(r.kind)
      stashes == IF r.kind = "compose" /\ pc = "factor" THEN {a} ELSE {} IN
  \/ cached # None /\ act' = [act EXCEPT ![a] = Presents(r, cached)] /\ UNCHANGED <<flight, slot>>
  \/ /\ cached = None
     /\ \E f \in {InFlight(p)} \ {None} :
          /\ Goes(f, flight[f].pc, flight[f].assumed, flight[f].tries, flight[f].stashes \cup stashes)
          /\ WaitsOn(a, r, f) /\ UNCHANGED slot
  \/ /\ cached = None /\ InFlight(p) = None
     /\ \E f \in Flight :
          /\ flight[f].pc = "idle" /\ \A g \in Flight : g < f => flight[g].pc # "idle"
          /\ flight' = [flight EXCEPT ![f] = Flying(pc, gen, tab.user, p, FALSE, 0, stashes)]
          /\ slot' = [q \in Shared |-> IF q = p THEN f ELSE slot[q]]
          /\ WaitsOn(a, r, f)

\* An action begins: a vote, a composed text, an image, a file, a consent operation.
Begin(a, kind) ==
  /\ trip.pc = "none" /\ tab # None /\ act[a].pc = "idle"
  /\ \A b \in Act : b < a => act[b].pc # "idle"
  /\ Acquire(a, Doing("idle", kind, gen, tab.user, None, None, None, 0), "factor", Cached(kind))
  /\ UNCHANGED <<session, storage, gen, prompt, trip, lost, late>>

\* consentOpFreshAuthRetryGate: a retry of a consent operation does not leave the page.
Retried(f) == flight[f].posture = "alone" /\ \E a \in Waiters(f) : act[a].tries = 1

\* resolvePasswordFactor answers; a read that fails lets a password be assumed.
FactorRead(f) ==
  /\ flight[f].pc = "factor"
  /\ \/ TornDown(flight[f].gen) /\ Cancelled(f) /\ UNCHANGED prompt
     \/ /\ ~TornDown(flight[f].gen)
        /\ \/ flight[f].user \in Passworded /\ Asks(f, flight[f].assumed, flight[f].tries)
           \/ Asks(f, TRUE, flight[f].tries)
           \/ /\ flight[f].user \notin Passworded /\ UNCHANGED prompt
              /\ IF Retried(f) THEN Cancelled(f) ELSE OrcidOrRefuse(f)
  /\ UNCHANGED <<session, storage, gen, trip, lost, late>>

\* The user types a password, or dismisses the prompt.
Answer(f) ==
  /\ prompt = f /\ prompt' = None
  /\ \/ Goes(f, "mint", flight[f].assumed, flight[f].tries, flight[f].stashes) /\ UNCHANGED <<slot, act>>
     \/ Cancelled(f)
  /\ UNCHANGED <<session, storage, gen, trip, lost, late>>

\* mintViaPasswordFactor: a password is asked for twice; an assumed one that is rejected
\* falls back on ORCID.
Mint(f) ==
  /\ flight[f].pc = "mint"
  /\ \/ Cancelled(f) /\ UNCHANGED <<window, prompt>>   \* torn down, a failure, or rejected twice
     \/ /\ ~TornDown(flight[f].gen) /\ flight[f].user \in Passworded
        /\ window' = IF flight[f].posture = "alone" THEN window ELSE flight[f].user
        /\ Settle(f, [a \in Act |-> Presents(act[a], flight[f].user)]) /\ UNCHANGED prompt
     \/ /\ ~TornDown(flight[f].gen) /\ UNCHANGED window
        /\ IF flight[f].assumed THEN OrcidOrRefuse(f) /\ UNCHANGED prompt
           ELSE flight[f].tries = 0 /\ Asks(f, flight[f].assumed, 1)
  /\ UNCHANGED <<session, held, stash, gen, trip, lost, late>>

\* The page is left, and what it had in memory with it.
Leaves ==
  /\ act' = [a \in Act |-> NoAct] /\ flight' = [g \in Flight |-> NoFlight]
  /\ slot' = [p \in Shared |-> None] /\ prompt' = None /\ gen' = 0 /\ tab' = None /\ events' = <<>>

\* Seeded fault: a joiner's work is not looked at.
Keeps_First(f) == TRUE

\* stashBeforeNavigating: one record can be kept.
Keeps(f) == Cardinality(flight[f].stashes) <= 1

\* startOrcid answers: the page goes to ORCID, unless work would be lost or the record
\* cannot be written.
Start(f) ==
  /\ flight[f].pc = "start"
  /\ \/ Cancelled(f) /\ UNCHANGED <<tab, events, stash, gen, prompt, trip, lost>>   \* torn down, or a failure
     \/ /\ ~TornDown(flight[f].gen) /\ flight[f].stashes # {} /\ Refused(f)
        /\ UNCHANGED <<tab, events, stash, gen, prompt, trip, lost>>
     \/ /\ ~TornDown(flight[f].gen) /\ Keeps(f) /\ Leaves
        /\ trip' = [pc |-> "orcid", by |-> flight[f].user, gen |-> 0,
                    kind |-> IF flight[f].posture = "alone" THEN "consent" ELSE "window"]
        /\ stash' = IF flight[f].posture = "alone" THEN stash
                    ELSE IF flight[f].stashes = {} THEN None ELSE flight[f].user
        /\ lost' = (lost \/ \E a \in Waiters(f) : act[a].kind = "compose" /\ flight[f].stashes # {a})
  /\ UNCHANGED <<stored, marker, logins, window, held, late>>

\* navigateWithoutStash: whoever agrees to lose the work goes to ORCID at once.
Asked(a) ==
  /\ act[a].pc = "asking"
  /\ \/ act' = [act EXCEPT ![a] = NoAct] /\ UNCHANGED <<flight, slot>>
     \/ ~TornDown(act[a].gen) /\ Acquire(a, Doing("asking", "write", act[a].gen, act[a].user, None, None, None, act[a].tries),
                                       "start", window)
  /\ UNCHANGED <<session, storage, gen, prompt, trip, lost, late>>

-----------------------------------------------------------------------------
(* The requests that carry a proof *)

\* The hash of a file is ready; the request goes out with the session of this turn.
Hashed(a) ==
  /\ act[a].pc = "hashing"
  /\ act' = [act EXCEPT ![a] = IF tab = None THEN NoAct ELSE
               Doing("sending", act[a].kind, act[a].gen, act[a].user, None, act[a].proof, tab, act[a].tries)]
  /\ UNCHANGED <<session, storage, gen, slot, prompt, flight, trip, lost, late>>

Without(a) == [act EXCEPT ![a] = NoAct]

\* The server accepts a proof of the account of the session.
Accepted(a) ==
  /\ act[a].pc = "sending" /\ act[a].proof = act[a].sent.user
  /\ act' = Without(a)
  /\ held' = IF act[a].kind = "consent" THEN None ELSE held
  /\ stash' = IF act[a].kind = "compose" /\ ~TornDown(act[a].gen) THEN None ELSE stash
  /\ UNCHANGED <<session, window, gen, slot, prompt, flight, trip, lost, late>>

\* It refuses one that is spent or has expired: the cached one is dropped, unless it is
\* another subject's by now, and the action tries once more.
Expired(a) ==
  /\ act[a].pc = "sending"
  /\ held' = IF act[a].kind = "consent" /\ act[a].tries = 0 THEN None ELSE held
  /\ window' = IF act[a].kind # "consent" /\ act[a].tries = 0 /\ ~TornDown(act[a].gen) THEN None ELSE window
  /\ IF TornDown(act[a].gen) \/ act[a].tries = 1
       THEN act' = Without(a) /\ UNCHANGED <<flight, slot>>
       ELSE Acquire(a, Doing("sending", act[a].kind, act[a].gen, act[a].user, None, None, None, 1), "factor", None)
  /\ UNCHANGED <<session, stash, gen, prompt, trip, lost, late>>

\* It refuses a proof of another account: the tab is signed out; an upload whose subject
\* changed meanwhile just ends.
Mismatch(a) ==
  /\ act[a].pc = "sending" /\ act[a].proof # act[a].sent.user /\ Room
  /\ IF tab = None \/ (act[a].kind = "upload" /\ TornDown(act[a].gen))
       THEN NoScrub(Without(a)) /\ UNCHANGED <<stored, tab, marker>>
       ELSE Disconnect(Without(a))
  /\ UNCHANGED <<events, logins, trip, lost, late>>

\* It has ended the session; or the request fails.
Ended(a) ==
  /\ act[a].pc = "sending" /\ Room
  /\ EndSession(act[a].sent, Without(a))
  /\ UNCHANGED <<events, logins, trip, lost, late>>

Fails(a) ==
  /\ act[a].pc = "sending" /\ act' = Without(a)
  /\ UNCHANGED <<session, storage, gen, slot, prompt, flight, trip, lost, late>>

-----------------------------------------------------------------------------
(* The round trip *)

\* A page loads, on the callback or because the user came back without an answer; the
\* server completes the round trip of the account that began it.
Return ==
  /\ trip.pc = "orcid"
  /\ IF stored = None THEN NoScrub(act) /\ UNCHANGED <<tab, marker>> ELSE Adopt(stored, act)
  /\ \/ trip' = NoTrip
     \/ stored # None /\ stored.user = trip.by /\ trip' = [pc |-> "callback", by |-> trip.by, kind |-> trip.kind, gen |-> gen']
  /\ UNCHANGED <<stored, events, logins, lost, late>>

\* _handleSessionAuth, _handleFreshAuth.
Caches ==
  IF trip.kind = "window" THEN window' = trip.by /\ UNCHANGED held ELSE held' = trip.by /\ UNCHANGED window

Callback ==
  /\ trip.pc = "callback" /\ trip' = NoTrip
  /\ \/ Caches /\ late' = (late \/ TornDown(trip.gen))
     \/ UNCHANGED <<window, held, late>>
  /\ UNCHANGED <<session, stash, gen, slot, prompt, flight, act, lost>>

\* A composer mounts and takes back what is its subject's.
TakeStash ==
  /\ trip.pc = "none" /\ tab # None /\ stash # None /\ stash' = None
  /\ UNCHANGED <<session, window, held, gen, slot, prompt, flight, act, trip, lost, late>>

Init ==
  /\ \E u \in Account : tab = [user |-> u, n |-> 1] /\ marker = u
  /\ stored = tab /\ events = <<>> /\ window = None /\ held = None /\ stash = None
  /\ gen = 0 /\ slot = [p \in Shared |-> None] /\ prompt = None
  /\ flight = [f \in Flight |-> NoFlight] /\ act = [a \in Act |-> NoAct] /\ trip = NoTrip
  /\ logins = 1 /\ lost = FALSE /\ late = FALSE

Next ==
  \/ \E u \in Account : LoginHere(u)
  \/ LogoutHere \/ OtherTab \/ StorageEvent
  \/ \E a \in Act : \/ \E kind \in Kinds : Begin(a, kind)
                    \/ Asked(a) \/ Hashed(a) \/ Accepted(a) \/ Expired(a) \/ Mismatch(a) \/ Ended(a) \/ Fails(a)
  \/ \E f \in Flight : FactorRead(f) \/ Answer(f) \/ Mint(f) \/ Start(f)
  \/ Return \/ Callback \/ TakeStash

Spec == Init /\ [][Next]_vars

-----------------------------------------------------------------------------
(* Properties *)

OfSubject == tab # None => {window, held, stash} \subseteq {None, tab.user}

\* What the tab keeps of a subject, a window, a proof, composed work, is never there for the
\* next: not after sign-outs, logins in this tab or in others, adopted sessions or late
\* answers, in whatever order; save the proof of a callback that a change of subject overtook.
ProofsOfSubject == late \/ OfSubject

\* An action goes out under the account it began under, with a proof of that account; only an
\* upload may find the session changed, and then its proof is refused.
SentAsBegun ==
  \A a \in Act : act[a].pc = "sending" /\ ~late =>
    act[a].sent # None /\
    IF act[a].kind = "upload" THEN act[a].proof = act[a].user
                              ELSE act[a].proof = act[a].user /\ act[a].sent.user = act[a].user

\* No action waits on an acquisition that has ended, and an open prompt is the one of a
\* running acquisition for the subject of the tab: a password is never typed for another.
PromptIsCurrent ==
  /\ prompt # None => flight[prompt].pc = "prompt" /\ ~TornDown(flight[prompt].gen)
  /\ \A a \in Act : act[a].pc = "waiting" => flight[act[a].on].pc # "idle"
  /\ \A f \in Flight : flight[f].pc = "prompt" => prompt = f

\* A page that leaves for ORCID takes along what was composed by those who wait on it.
NothingLost == ~lost

\* The tab acts for its subject, and for no other.
ActsAsSubject == ProofsOfSubject /\ SentAsBegun

\* The prompt serves the subject, and a page that is left takes along what was composed.
PromptsSound == PromptIsCurrent /\ NothingLost

\* subject-bound-keys.js:1-4: "the next subject on a shared browser cannot inherit the
\* previous subject's proofs".
ScrubHolds == OfSubject
=============================================================================
