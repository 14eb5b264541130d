--------------------------- MODULE ComposerDrafts ---------------------------
(* The drafts of the publish page and of the edit page of one paper.  A tab    *)
(* shows one page; its composer is bound to the account that is signed in when *)
(* it loads, drafts under that account's key, and is replaced when another     *)
(* account signs in.  Storage is shared by the tabs.                           *)
EXTENDS Integers, FiniteSets

CONSTANTS Tab, Page,       \* Page[t] is "publish" or "edit"
          Account, Editor, \* accounts, and those that may edit the paper
          None,
          MaxText, MaxHead, MaxSigns  \* bounds on texts, versions, changes of account

\* What an instance must give them.
DraftsAssumption ==
  /\ Page \in [Tab -> {"publish", "edit"}] /\ Editor \subseteq Account /\ None \notin Account
  /\ {MaxText, MaxHead, MaxSigns} \subseteq Nat

VARIABLES
  who,        \* the account signed in, by tab
  inst,       \* the composer of each tab
  store,      \* the drafts in localStorage
  collection, \* a citation collected on another page waits in localStorage
  sent,       \* broadcasts in flight whose composer is gone: the key they will clear
  typed,      \* texts typed so far
  by,         \* by whom each was typed
  host,       \* history: the account whose submit was under way when another typed a text
  head,       \* versions of the paper
  foreign,    \* history: an account broadcast what another had typed
  blind,      \* history: a draft its composer never showed, or a form, was replaced unasked
  wanted,     \* history: the citation was collected, and nobody gave it up
  signs       \* bound

vars == <<who, inst, store, collection, sent, typed, by, host, head, foreign, blind, wanted,
          signs>>

Text == 0..MaxText   \* 0: as loaded
Marker == 0..MaxHead
Key == {"publish", "edit"} \X Account
Entry == [text : Text, cited : BOOLEAN, marker : Marker \cup {None}, name : Account \cup {None}]
Steps == {"idle", "gate", "legs", "last", "sending", "landed"}
Composer == [ph : {"fetch", "editors", "ready"}, acct : Account \cup {None}, key : Key \cup {None},
             marker : Marker \cup {None}, text : Text, cited : BOOLEAN, merged : BOOLEAN,
             name : Account \cup {None}, pending : Entry \cup {None}, timer : BOOLEAN,
             remount : BOOLEAN, step : Steps, sub : Account \cup {None}, torn : BOOLEAN,
             out : Text, saw : SUBSET Text]

TypeOK ==
  /\ who \in [Tab -> Account \cup {None}] /\ inst \in [Tab -> Composer \cup {None}]
  /\ store \in [Key -> Entry \cup {None}] /\ collection \in BOOLEAN /\ sent \subseteq Key
  /\ typed \in Text /\ by \in [1..MaxText -> SUBSET Account]
  /\ host \in [1..MaxText -> Account \cup {None}] /\ head \in Marker
  /\ {foreign, blind, wanted} \subseteq BOOLEAN /\ signs \in 0..MaxSigns

-----------------------------------------------------------------------------
(* What a composer does between two awaits, on a record of its state m.i, the  *)
(* drafts m.s, the collection m.c and m.b, whether it overwrote unasked.       *)

Locked(i) == i.ph # "ready" \/ i.pending # None
Landed(i) == i.step = "landed"

\* Seeded fault: a landed composer still writes.
Refuses_Landed(i) == i.key = None \/ Locked(i)

\* The refusals of _writeDraft and of _mergeCitationCollection.
Refuses(i) == Landed(i) \/ i.key = None \/ Locked(i)

AtBaseline(i) == i.text = 0 /\ ~i.cited

\* readDraftEntry of what composeDraftEntry made of the form.
EntryOf(i) == IF AtBaseline(i) THEN None ELSE [text |-> i.text, cited |-> i.cited, marker |-> i.marker, name |-> i.name]

\* Replacing what the composer never showed.
Unseen(m) == m.s[m.i.key] # None /\ m.s[m.i.key].text \notin m.i.saw

\* _writeDraft.
Write(m) ==
  IF Refuses(m.i) THEN m
  ELSE [m EXCEPT !.s[m.i.key] = EntryOf(m.i), !.b = m.b \/ Unseen(m)]

\* Seeded fault: the collection is taken and left to the timer.
Merge_Later(m) ==
  IF Refuses(m.i) \/ ~m.c THEN m
  ELSE [m EXCEPT !.i.cited = TRUE, !.i.merged = TRUE, !.i.timer = TRUE, !.c = FALSE]

\* _mergeCitationCollection.
Merge(m) ==
  IF Refuses(m.i) \/ ~m.c THEN m
  ELSE LET n == [m EXCEPT !.i.cited = TRUE, !.i.merged = TRUE, !.i.timer = TRUE, !.c = FALSE] IN
       IF m.i.cited THEN [n EXCEPT !.i.timer = m.i.timer] ELSE Write(n)

\* _applyAccreditationPrefill: an empty author field takes the name of the account.
Prefilled(i, u) == [i EXCEPT !.name = IF i.name = None THEN u ELSE i.name]

\* _applyDraft.
Apply(m, e) ==
  Write([m EXCEPT !.i = [Prefilled([m.i EXCEPT !.name = e.name], m.i.acct) EXCEPT
                           !.text = e.text, !.cited = e.cited, !.timer = TRUE, !.saw = @ \cup {e.text}]])

\* Seeded fault: a draft is restored whatever the form holds.
Silent_Always(i, e) == TRUE

\* When a stored draft is restored without asking.
Silent(i, e) ==
  IF i.key[1] = "publish" THEN AtBaseline(i) ELSE i.marker # None /\ e.marker = i.marker

\* _restoreDraft.
Restore(m) ==
  IF m.i.key = None \/ m.s[m.i.key] = None THEN m
  ELSE LET e == m.s[m.i.key] IN
       IF Silent(m.i, e) THEN Apply([m EXCEPT !.b = m.b \/ m.i.text # 0], e) ELSE [m EXCEPT !.i.pending = e]

\* _captureAccount, _captureDraftTarget.
Captured(i, page, u) ==
  [i EXCEPT !.acct = u, !.key = IF u = None \/ (page = "edit" /\ u \notin Editor) THEN None ELSE <<page, u>>]

\* _adoptAccount: the form of a visitor becomes the account's.
Adopt(m, u) ==
  LET n == [m EXCEPT !.i = Prefilled(Captured(m.i, "publish", u), u)] IN
  IF m.i.ph # "ready" THEN n ELSE Write(Merge(Restore(n)))


\* _readoptAccount: what the other account filled in is emptied.
Emptied(i) == [i EXCEPT !.pending = None, !.name = None]

Fresh(page, u) ==
  LET i == [ph |-> "fetch", acct |-> None, key |-> None, marker |-> None, text |-> 0, cited |-> FALSE,
            merged |-> FALSE, name |-> None, pending |-> None, timer |-> FALSE, remount |-> FALSE,
            step |-> "idle", sub |-> None, torn |-> FALSE, out |-> 0, saw |-> {0}] IN
  IF page = "edit" THEN i ELSE Prefilled([Captured(i, page, u) EXCEPT !.ph = "editors"], u)

Submitting(i) == i.step \in {"gate", "legs", "last", "sending"}

\* _remountWhenSettled.
Settled(m, t, u) ==
  IF Landed(m.i) THEN [m EXCEPT !.i.remount = FALSE]
  ELSE IF ~m.i.remount \/ Submitting(m.i) THEN m
  ELSE [Write(m) EXCEPT !.i = Fresh(Page[t], u)]

\* _onAccountChange, and the guard of a submit under way.
SignedIn(m, t, u) ==
  LET n == [m EXCEPT !.i.torn = Submitting(m.i)] IN
  IF u = None \/ u = m.i.acct \/ m.i.ph = "fetch" THEN n
  ELSE IF Page[t] = "publish" /\ m.i.acct = None THEN Adopt(n, u)
  ELSE IF Page[t] = "publish" /\ m.i.pending # None THEN Adopt([n EXCEPT !.i = Emptied(m.i)], u)
  ELSE Settled([n EXCEPT !.i.remount = TRUE], t, u)

-----------------------------------------------------------------------------

Of(t) == [i |-> inst[t], s |-> store, c |-> collection, b |-> blind]

Becomes(t, m) ==
  /\ inst' = [inst EXCEPT ![t] = m.i] /\ store' = m.s /\ collection' = m.c /\ blind' = m.b

Mounted(t) == inst[t] # None
Else == UNCHANGED <<who, sent, typed, by, host, head, foreign, wanted, signs>>

Visit(t) ==
  /\ ~Mounted(t) /\ inst' = [inst EXCEPT ![t] = Fresh(Page[t], who[t])]
  /\ UNCHANGED <<store, collection, blind>> /\ Else

\* loadPaperData: the paper served may be an older version, or carry no marker.
PaperLoads(t) ==
  /\ Mounted(t) /\ inst[t].ph = "fetch"
  /\ \E k \in 0..head \cup {None} :
       inst' = [inst EXCEPT ![t] = [Captured(inst[t], "edit", who[t]) EXCEPT !.marker = k, !.ph = "editors"]]
  /\ UNCHANGED <<store, collection, blind>> /\ Else

\* _onEditorsMounted.
EditorsMount(t) ==
  /\ Mounted(t) /\ inst[t].ph = "editors"
  /\ Becomes(t, Merge(Restore([Of(t) EXCEPT !.i.ph = "ready"]))) /\ Else

\* Another account signed in while a submit was under way: the composer is replaced when it
\* ends, and takes input until then.
Overstays(t) == Submitting(inst[t]) /\ who[t] \notin {None, inst[t].acct}

\* The user types, or takes back what was typed.  A text goes on from the one in the form.
Types(t) ==
  /\ Mounted(t) /\ ~Locked(inst[t]) /\ (Page[t] = "edit" => who[t] \in Editor)
  /\ \/ /\ typed < MaxText /\ typed' = typed + 1
        /\ inst' = [inst EXCEPT ![t].text = typed', ![t].timer = TRUE, ![t].saw = @ \cup {typed'}]
        /\ by' = [by EXCEPT ![typed'] =
             (IF inst[t].text = 0 THEN {} ELSE by[inst[t].text]) \cup ({who[t]} \ {None})]
        /\ host' = [host EXCEPT ![typed'] =
             IF inst[t].text # 0 /\ host[inst[t].text] # None THEN host[inst[t].text]
             ELSE IF Overstays(t) THEN inst[t].acct ELSE None]
     \/ /\ inst[t].text # 0 /\ inst' = [inst EXCEPT ![t].text = 0, ![t].timer = TRUE]
        /\ UNCHANGED <<typed, by, host>>
  /\ UNCHANGED <<who, store, collection, sent, head, foreign, blind, wanted, signs>>

Saves(t) ==
  /\ Mounted(t) /\ inst[t].timer
  /\ Becomes(t, Write([Of(t) EXCEPT !.i.timer = FALSE])) /\ Else

\* restorePendingDraft, discardPendingDraft, discardDraft.
Chooses(t) ==
  /\ Mounted(t) /\ ~Landed(inst[t])
  /\ LET e == inst[t].pending
         seen == [Of(t) EXCEPT !.i.pending = None, !.i.saw = @ \cup {IF e = None THEN 0 ELSE e.text}]
         back == [seen EXCEPT !.i.text = 0, !.i.cited = inst[t].merged, !.s[inst[t].key] = None] IN
     \/ /\ e # None /\ Becomes(t, Merge(Apply(seen, e))) /\ UNCHANGED wanted
     \/ /\ e # None
        /\ LET n == [seen EXCEPT !.s[inst[t].key] = None] IN
           Becomes(t, Merge(IF Page[t] = "publish" THEN Write([n EXCEPT !.i = Prefilled(n.i, n.i.acct)]) ELSE n))
        /\ wanted' = (wanted /\ ~e.cited)
     \/ /\ e = None /\ inst[t].key # None /\ ~Locked(inst[t]) /\ store[inst[t].key] # None
        /\ Becomes(t, Write(back)) /\ wanted' = (wanted /\ (inst[t].merged \/ ~inst[t].cited))
  /\ UNCHANGED <<who, sent, typed, by, host, head, foreign, signs>>

\* A citation is collected; composers hear of it.  One that a form shows already is not
\* drafted again by the merge.
Collects ==
  /\ ~collection /\ ~wanted /\ collection' = TRUE
  /\ wanted' = \A t \in Tab : Mounted(t) => ~inst[t].cited
  /\ UNCHANGED <<who, inst, store, sent, typed, by, host, head, foreign, blind, signs>>

CollectionEvent(t) == Mounted(t) /\ collection /\ ~Refuses(inst[t]) /\ Becomes(t, Merge(Of(t))) /\ Else

RemovesCitation(t) ==
  /\ Mounted(t) /\ ~Locked(inst[t]) /\ inst[t].cited
  /\ inst' = [inst EXCEPT ![t].cited = FALSE, ![t].merged = FALSE, ![t].timer = TRUE]
  /\ collection' = FALSE /\ wanted' = FALSE
  /\ UNCHANGED <<who, store, sent, typed, by, host, head, foreign, blind, signs>>

Signs(t, u) ==
  /\ signs < MaxSigns /\ signs' = signs + 1 /\ u # who[t] /\ who' = [who EXCEPT ![t] = u]
  /\ IF Mounted(t) THEN Becomes(t, SignedIn(Of(t), t, u)) ELSE UNCHANGED <<inst, store, collection, blind>>
  /\ UNCHANGED <<sent, typed, by, host, head, foreign, wanted>>

\* The page is left; a broadcast under way goes on.
Leaves(t) ==
  /\ Mounted(t) /\ inst' = [inst EXCEPT ![t] = None]
  /\ sent' = IF inst[t].step = "sending" THEN sent \cup {inst[t].key} ELSE sent
  /\ UNCHANGED <<who, store, collection, typed, by, host, head, foreign, blind, wanted, signs>>

-----------------------------------------------------------------------------
(* A submit *)

Stops(m, t) == Settled([m EXCEPT !.i.step = "idle", !.i.sub = None, !.i.torn = FALSE, !.i.out = 0], t, who[t])

Submit(t) ==
  /\ Mounted(t) /\ ~Locked(inst[t]) /\ inst[t].step = "idle" /\ who[t] # None /\ inst[t].text # 0
  /\ Page[t] = "edit" => who[t] \in Editor
  /\ LET m == Write([Of(t) EXCEPT !.i.timer = FALSE]) IN
     Becomes(t, [m EXCEPT !.i.step = "gate", !.i.sub = who[t], !.i.torn = FALSE, !.i.out = inst[t].text])
  /\ Else

\* A gate refuses, or leaves for ORCID; the subject changed; or the hashes, uploads and
\* the dialog follow.
Gate(t) ==
  /\ Mounted(t) /\ inst[t].step = "gate"
  /\ \/ Becomes(t, Stops(Of(t), t))
     \/ inst' = [inst EXCEPT ![t] = None] /\ UNCHANGED <<store, collection, blind>>
     \/ ~inst[t].torn /\ inst' = [inst EXCEPT ![t].step = "legs"] /\ UNCHANGED <<store, collection, blind>>
  /\ Else

\* The operation is put together; the last gate flushes first.
Legs(t) ==
  /\ Mounted(t) /\ inst[t].step = "legs"
  /\ \/ Becomes(t, Stops(Of(t), t))
     \/ /\ ~inst[t].torn
        /\ LET m == Write([Of(t) EXCEPT !.i.timer = FALSE]) IN Becomes(t, [m EXCEPT !.i.step = "last"])
  /\ Else

\* Whose words a submit may send: the account's own, and what a draft under its key held
\* before that another had typed into an earlier submit.
Answerable(i) == {i.sub} \cup (IF host[i.out] = None THEN {} ELSE by[i.out])

\* The text of a publication is read when it is sent, that of an edit was read first.
Send(t) ==
  /\ Mounted(t) /\ inst[t].step = "last"
  /\ \/ Becomes(t, Stops(Of(t), t)) /\ UNCHANGED foreign
     \/ /\ ~inst[t].torn
        /\ LET text == IF Page[t] = "publish" THEN inst[t].text ELSE inst[t].out IN
           /\ foreign' = (foreign \/ (text # 0 /\ ~(by[text] \subseteq Answerable(inst[t]))))
           /\ inst' = [inst EXCEPT ![t].step = "sending", ![t].out = 0]
        /\ UNCHANGED <<store, collection, blind>>
  /\ UNCHANGED <<who, sent, typed, by, host, head, wanted, signs>>

\* The broadcast resolves: _markLanded.
Lands(t) ==
  /\ Mounted(t) /\ inst[t].step = "sending"
  /\ inst' = [inst EXCEPT ![t].step = "landed", ![t].timer = FALSE, ![t].remount = FALSE,
                              ![t].sub = None, ![t].torn = FALSE]
  /\ store' = [store EXCEPT ![inst[t].key] = None]
  /\ head' = IF Page[t] = "edit" /\ head < MaxHead THEN head + 1 ELSE head
  /\ wanted' = FALSE   \* what was cited is published, or was drafted while it was in flight
  /\ UNCHANGED <<who, collection, sent, typed, by, host, foreign, blind, signs>>

\* It is rejected, or a sign-in took its place.
Rejected(t) == Mounted(t) /\ inst[t].step = "sending" /\ Becomes(t, Stops(Of(t), t)) /\ Else

\* A broadcast resolves whose composer is gone.
LateAnswer(k) ==
  /\ k \in sent /\ sent' = sent \ {k}
  /\ \/ store' = [store EXCEPT ![k] = None] /\ wanted' = FALSE
     \/ UNCHANGED <<store, wanted>>
  /\ UNCHANGED <<who, inst, collection, typed, by, host, head, foreign, blind, signs>>

\* Somebody else edits the paper.
NewVersion ==
  /\ head < MaxHead /\ head' = head + 1
  /\ UNCHANGED <<who, inst, store, collection, sent, typed, by, host, foreign, blind, wanted, signs>>

Init ==
  /\ who \in [Tab -> Account \cup {None}] /\ inst = [t \in Tab |-> None]
  /\ store = [k \in Key |-> None] /\ collection = FALSE /\ sent = {} /\ typed = 0
  /\ by = [n \in 1..MaxText |-> {}]
  /\ host = [n \in 1..MaxText |-> None] /\ head = 0 /\ foreign = FALSE /\ blind = FALSE /\ wanted = FALSE /\ signs = 0

Next ==
  \/ \E t \in Tab : \/ Visit(t) \/ PaperLoads(t) \/ EditorsMount(t) \/ Types(t) \/ Saves(t) \/ Chooses(t)
                    \/ CollectionEvent(t) \/ RemovesCitation(t) \/ Leaves(t)
                    \/ Submit(t) \/ Gate(t) \/ Legs(t) \/ Send(t) \/ Lands(t) \/ Rejected(t)
                    \/ \E u \in Account \cup {None} : Signs(t, u)
  \/ Collects \/ NewVersion
  \/ \E k \in Key : LateAnswer(k)

Spec == Init /\ [][Next]_vars

-----------------------------------------------------------------------------
(* Properties *)

\* A draft under an account's key, and a post an account broadcasts, was typed by nobody
\* else.  A submit that outlasts a sign-in leaves the form open to the next account, whose
\* words are then drafted under the submitting account's key, and no other, but are not
\* broadcast by that submit.
DraftIsOwn ==
  /\ \A k \in Key : store[k] # None =>
       /\ store[k].text # 0 => IF host[store[k].text] = None THEN by[store[k].text] \subseteq {k[2]}
                                                            ELSE host[store[k].text] = k[2]
       /\ store[k].name \in {None, k[2]}
  /\ ~foreign

\* Nothing typed replaces a stored draft the composer has not shown its user, and no
\* stored draft replaces what was typed, unless the user chose so.
NoBlindWrite == ~blind

\* A landed composer's draft stays gone, whatever its form, its timer, the collection and
\* the accounts do after.
LandingIsTerminal ==
  \A t \in Tab : Mounted(t) /\ Landed(inst[t]) =>
    store[inst[t].key] = None \/ \E o \in Tab \ {t} : Page[o] = Page[t]

\* A collected citation is in the collection, in a draft, or on a page that is open, until
\* its user gives it up or a broadcast lands.
CitationKept ==
  wanted => collection \/ (\E k \in Key : store[k] # None /\ store[k].cited)
            \/ (\E t \in Tab : Mounted(t) /\ inst[t].cited)
=============================================================================
