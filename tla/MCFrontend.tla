----------------------------- MODULE MCFrontend -----------------------------
(* The browser application: a tab that acquires proofs of identity, and the    *)
(* drafts of the publish page, of the edit page, and of a tab of each, and the *)
(* edits of a paper composed on stale pages.  A behaviour picks one.           *)
EXTENDS FreshAuthClient, TLC

VARIABLES
  focus,   \* the service the behaviour exercises
  dWho, dInst, dStore, dCollection, dSent, dTyped, dBy, dHost, dHead, dForeign, dBlind,
  dWanted, dSigns,
  vOrder, vMeta, vLog, vView, vLast

clientVars == <<stored, events, tab, marker, window, held, stash, gen, slot, prompt,
                 flight, act, trip, logins, lost, late>>
draftsVars == <<dWho, dInst, dStore, dCollection, dSent, dTyped, dBy, dHost, dHead,
                 dForeign, dBlind, dWanted, dSigns>>
editingVars == <<vOrder, vMeta, vLog, vView, vLast>>

Says(hive, name) == [hive |-> hive, name |-> name, says |-> 0]

Publish == INSTANCE ComposerDrafts WITH
  who <- dWho, inst <- dInst, store <- dStore, collection <- dCollection, sent <- dSent,
  typed <- dTyped, by <- dBy, host <- dHost, head <- dHead, foreign <- dForeign,
  blind <- dBlind, wanted <- dWanted, signs <- dSigns, Tab <- {1},
  Page <- 1 :> "publish", Account <- {"a", "b"}, Editor <- {"a"}, MaxText <- 2,
  MaxHead <- 0, MaxSigns <- 3

Edit == INSTANCE ComposerDrafts WITH
  who <- dWho, inst <- dInst, store <- dStore, collection <- dCollection, sent <- dSent,
  typed <- dTyped, by <- dBy, host <- dHost, head <- dHead, foreign <- dForeign,
  blind <- dBlind, wanted <- dWanted, signs <- dSigns, Tab <- {2}, Page <- 2 :> "edit",
  Account <- {"a", "b"}, Editor <- {"a"}, MaxText <- 2, MaxHead <- 1, MaxSigns <- 2

Tabs == INSTANCE ComposerDrafts WITH
  who <- dWho, inst <- dInst, store <- dStore, collection <- dCollection, sent <- dSent,
  typed <- dTyped, by <- dBy, host <- dHost, head <- dHead, foreign <- dForeign,
  blind <- dBlind, wanted <- dWanted, signs <- dSigns, Tab <- {1, 2},
  Page <- 1 :> "publish" @@ 2 :> "edit", Account <- {"a"}, Editor <- {"a"},
  MaxText <- 1, MaxHead <- 0, MaxSigns <- 0

Amending == INSTANCE PaperEditing WITH
  order <- vOrder, meta <- vMeta, log <- vLog, view <- vView, last <- vLast,
  Post <- 1..4, Author <- <<"a", "b", "c", "b">>, Bridge <- "bridge", MaxHops <- 3,
  BackHops <- 3, Paper <- 1, Account <- {"a", "b", "c"}, Page <- 1..4,
  User <- <<"a", "a", "b", "c">>, Claimer <- {"c"},
  Authored <- <<Says("a", ""), Says("b", "")>>,
  Added <- {Says("c", ""), Says(None, "n")}, Begun <- <<1>>, MaxOps <- 3

Revising == INSTANCE PaperEditing WITH
  order <- vOrder, meta <- vMeta, log <- vLog, view <- vView, last <- vLast,
  Post <- 1..4, Author <- <<"a", "b", "c", "b">>, Bridge <- "bridge", MaxHops <- 3,
  BackHops <- 3, Paper <- 1, Account <- {"a", "b", "c"}, Page <- 1..3,
  User <- <<"a", "b", "b">>, Claimer <- {"c"},
  Authored <- <<Says("a", ""), Says("b", "")>>,
  Added <- {Says("c", ""), Says(None, "n")}, Begun <- <<1, 2>>, MaxOps <- 4

ASSUME FrontendAssumption ==
  /\ Publish!DraftsAssumption
  /\ Edit!DraftsAssumption
  /\ Tabs!DraftsAssumption
  /\ Amending!EditingAssumption
  /\ Revising!EditingAssumption

FrontendInit ==
  /\ focus \in {"client", "publish", "edit", "tabs", "editing", "revising"}
  /\ Init
  /\ \/ focus \notin {"edit", "tabs"} /\ Publish!Init
     \/ focus = "edit" /\ Edit!Init
     \/ focus = "tabs" /\ Tabs!Init
  /\ \/ focus \notin {"revising"} /\ Amending!Init
     \/ focus = "revising" /\ Revising!Init
  /\ tab.user = "a"
  /\ \A t \in DOMAIN dWho : dWho[t] = "a"

FrontendNext ==
  /\ UNCHANGED focus
  /\ \/ focus = "client" /\ Next
        /\ UNCHANGED <<draftsVars, editingVars>>
     \/ focus = "publish" /\ Publish!Next
        /\ UNCHANGED <<clientVars, editingVars>>
     \/ focus = "edit" /\ Edit!Next
        /\ UNCHANGED <<clientVars, editingVars>>
     \/ focus = "tabs" /\ Tabs!Next
        /\ UNCHANGED <<clientVars, editingVars>>
     \/ focus = "editing" /\ Amending!Next
        /\ UNCHANGED <<clientVars, draftsVars>>
     \/ focus = "revising" /\ Revising!Next
        /\ UNCHANGED <<clientVars, draftsVars>>

frontendVars == <<focus, clientVars, draftsVars, editingVars>>

FrontendSpec == FrontendInit /\ [][FrontendNext]_frontendVars

-----------------------------------------------------------------------------
\* Types: the type invariant of the module that moves.
FrontendTypeOK ==
  /\ focus = "client" => TypeOK
  /\ focus = "publish" => Publish!TypeOK
  /\ focus = "edit" => Edit!TypeOK
  /\ focus = "tabs" => Tabs!TypeOK
  /\ focus = "editing" => Amending!TypeOK
  /\ focus = "revising" => Revising!TypeOK


\* A landed composer's draft stays gone, whatever it does after; a collected citation is in
\* the collection, in a draft or on an open page until its user gives it up or a broadcast
\* lands.
LandedStays ==
  /\ focus = "publish" => Publish!LandingIsTerminal
  /\ focus = "edit" => Edit!LandingIsTerminal
  /\ focus = "tabs" => Tabs!LandingIsTerminal
  /\ focus = "publish" => Publish!CitationKept
  /\ focus = "edit" => Edit!CitationKept
  /\ focus = "tabs" => Tabs!CitationKept

\* An edit of a paper is shown as it was made once no other tab overtook it, and only if the
\* chain lists its author; no edit cuts another off, and nobody speaks for an author but a
\* post of their own.
VersionsStand ==
  /\ focus = "editing" => Amending!EditShown /\ Amending!ChainStays /\ Amending!OwnWords
  /\ focus = "revising" => Revising!EditShown /\ Revising!ChainStays /\ Revising!OwnWords
=============================================================================
