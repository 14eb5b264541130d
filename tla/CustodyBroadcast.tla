-------------------------- MODULE CustodyBroadcast --------------------------
(* POST /custody/broadcast: the server signs and broadcasts a bundle of ops    *)
(* for a light account.  A bundle with a consent or credit op is let through   *)
(* by a one-shot proof bound to that op, any other one by a session window.    *)
(* A bundle may carry an idempotency key: the key is embedded in its first     *)
(* comment or custom_json op, and HAF, behind a short positive cache in Redis, *)
(* is asked whether an op with that key landed before.                         *)
(*                                                                             *)
(* That a proof is accepted once is FreshAuthConsent's result and is taken     *)
(* here as one atomic step; a window is SessionWindow's and is answered        *)
(* nondeterministically.  The handler is split at its awaits.                  *)
EXTENDS Integers, Sequences, FiniteSets, FiniteSetsExt

CONSTANTS Req,          \* concurrent requests of the account
          Key,          \* idempotency keys
          Target,       \* what a gated op acts on: the op itself, up to its hash
          Proof,        \* consent proofs the account has minted
          ProofTarget,  \* the target each was minted for
          None,         \* no key, no proof, no surface
          MaxOps,       \* bound on the ops of a bundle
          MaxSent,      \* bound on the transactions of a behaviour
          MaxFaults     \* bound on failed lookups, cache failures and crashes

\* What an instance must give them.
CustodyAssumption ==
  /\ Req \subseteq Nat
  /\ None \notin Key /\ None \notin Proof /\ None \notin Target
  /\ ProofTarget \in [Proof -> Target]
  /\ MaxOps \in Nat \ {0} /\ MaxSent \in Nat /\ MaxFaults \in Nat

VARIABLES
  account,   \* the accounts row, as far as the handler looks at it
  unspent,   \* proofs not consumed yet
  req,       \* the requests
  tx,        \* the transactions sent, in the order they were signed
  cache,     \* positive entries of Redis, [key, surface]
  claimed,   \* history: the answers already_landed, [key, surface]
  faults     \* history: faults so far

vars == <<account, unspent, req, tx, cache, claimed, faults>>

Plain == {"comment", "comment_options", "vote", "revote"}
Op == Plain \cup {"transfer", "unfit"} \cup Target  \* unfit: gated, with a malformed field
Bundle == UNION {[1..n -> Op] : n \in 1..MaxOps}
Surface == {"comment", "custom_json", None}
Fate == {"flight", "landed", "indexed", "dropped"}
\* What of a bundle is carried on: its key, the surface the key is embedded in, how many
\* gated ops it has and on what, the proof that let it through, and, for the properties,
\* whether HAF had the op by then.
What == [key : Key \cup {None}, surface : Surface, gates : 0..MaxOps, acts : SUBSET Target,
         proof : Proof \cup {None}, knew : BOOLEAN]
Tx == [what : What, blind : BOOLEAN, fate : Fate]   \* blind: the lookup failed
Request == [pc : {"idle", "looking", "loading"}, what : What, probe : SUBSET Surface, blind : BOOLEAN]

Carrying(key, surface, gates, acts, proof, knew) ==
  [key |-> key, surface |-> surface, gates |-> gates, acts |-> acts, proof |-> proof, knew |-> knew]
At(pc, what, probe, blind) == [pc |-> pc, what |-> what, probe |-> probe, blind |-> blind]
Sent(what, blind, fate) == [what |-> what, blind |-> blind, fate |-> fate]

IdleRequest == At("idle", Carrying(None, None, 0, {}, None, FALSE), {}, FALSE)

TypeOK ==
  /\ account \in {"light", "left"}
  /\ unspent \subseteq Proof
  /\ req \in [Req -> Request]
  /\ tx \in Seq(Tx) /\ Len(tx) <= MaxSent
  /\ cache \subseteq [key : Key, surface : Surface]
  /\ claimed \subseteq [key : Key, surface : SUBSET Surface]
  /\ faults \in 0..MaxFaults

-----------------------------------------------------------------------------
(* Reading a bundle *)

\* The whitelist: comment_options only after the comment it belongs to.
Allowed(b) ==
  \A i \in DOMAIN b :
     /\ b[i] # "transfer"
     /\ b[i] = "comment_options" => \E j \in 1..(i - 1) : b[j] = "comment"

IsGated(op) == op \in Target \cup {"unfit"}

GatedAt(b) == {i \in DOMAIN b : IsGated(b[i])}
FirstGated(b) == b[Min(GatedAt(b))]

\* Seeded fault: the scan answers with the first gated op it finds.
Scan_First(b) == IF GatedAt(b) = {} THEN "none"
                 ELSE IF FirstGated(b) = "unfit" THEN "malformed" ELSE "single"

\* findGatedOpsInBundle: the scan stops at the first malformed gated op and at
\* the second well-formed one.
Scan(b) ==
  IF GatedAt(b) = {} THEN "none"
  ELSE IF \E i \in GatedAt(b) : b[i] = "unfit" /\ Cardinality({j \in GatedAt(b) : j < i}) < 2
    THEN "malformed"
  ELSE IF Cardinality(GatedAt(b)) = 1 THEN "single" ELSE "multiple"

CarriesKey(op) == op = "comment" \/ op = "revote" \/ op \in Target

OpType(op) == IF op = "comment" THEN "comment" ELSE "custom_json"

\* embedIdempotencyKey: the first comment or custom_json op takes the key.
EmbedSurface(b) ==
  LET takers == SelectSeq(b, CarriesKey) IN
  IF takers = <<>> THEN None ELSE OpType(takers[1])

\* Seeded fault: the lookup probes the comment arm of any bundle with a comment.
Probe_CommentFirst(b) ==
  IF EmbedSurface(b) = None THEN {"comment", "custom_json"}
  ELSE IF \E i \in DOMAIN b : b[i] = "comment" THEN {"comment"} ELSE {"custom_json"}

\* The arm of HAF that is probed: the surface that carries the key, or both.
Probe(b) == IF EmbedSurface(b) = None THEN {"comment", "custom_json"} ELSE {EmbedSurface(b)}

Indexed(key, arms) ==
  \E i \in DOMAIN tx : tx[i].fate = "indexed" /\ tx[i].what.key = key /\ tx[i].what.surface \in arms

-----------------------------------------------------------------------------
(* The handler *)

Ends(r) == req' = [req EXCEPT ![r] = IdleRequest]

\* consumeFreshAuthToken for a bundle with one gated op: single use, and bound to the target
\* of that op.  consumeSessionFreshAuthToken for one without takes a window, or spends a
\* proof whatever it was minted for.
LetThrough(b, proof) ==
  /\ proof \in unspent \cup {None} /\ unspent' = unspent \ {proof}
  /\ Scan(b) = "single" => proof # None /\ ProofTarget[proof] = FirstGated(b)

\* Validation, the gated scan, and the proof or window that lets the bundle
\* through; a refusal at any of them changes nothing.  Without a key there is no
\* lookup.
Receive(r) ==
  /\ req[r].pc = "idle" /\ Len(tx) < MaxSent
  /\ \A q \in Req : q < r => req[q].pc # "idle"   \* requests are interchangeable
  /\ \E b \in Bundle, key \in Key \cup {None}, proof \in Proof \cup {None} :
        /\ Allowed(b) /\ Scan(b) \in {"none", "single"} /\ LetThrough(b, proof)
        /\ req' = [req EXCEPT ![r] =
             At(IF key = None THEN "loading" ELSE "looking",
                Carrying(key, EmbedSurface(b), Cardinality(GatedAt(b)), {b[i] : i \in GatedAt(b)}, proof,
                         key # None /\ Indexed(key, {EmbedSurface(b)} \ {None})),
                Probe(b), FALSE)]
  /\ UNCHANGED <<account, tx, cache, claimed, faults>>

AlreadyLanded(r, arms) ==
  /\ claimed' = claimed \cup {[key |-> req[r].what.key, surface |-> arms]}
  /\ Ends(r)

\* The key of the Redis entry: the surface is part of it; a bundle without one
\* has no entry.
Slot(r) == [key |-> req[r].what.key, surface |-> req[r].what.surface]

\* readCached hits.
AnswerFromCache(r) ==
  /\ req[r].pc = "looking" /\ Slot(r) \in cache
  /\ AlreadyLanded(r, {req[r].what.surface})
  /\ UNCHANGED <<account, unspent, tx, cache, faults>>

\* The bundle goes on to the keys.
Loads(r, blind) == req' = [req EXCEPT ![r] = At("loading", req[r].what, req[r].probe, blind)]

\* readCached misses or fails, and HAF answers: writeCached on a hit, best-effort.
\* Nothing is carried from the one read to the other, so they are one step.
LookUp(r) ==
  /\ req[r].pc = "looking"
  /\ IF Indexed(req[r].what.key, req[r].probe)
       THEN /\ AlreadyLanded(r, req[r].probe)
            /\ cache' \in {cache, IF req[r].what.surface = None THEN cache ELSE cache \cup {Slot(r)}}
       ELSE Loads(r, req[r].blind) /\ UNCHANGED <<cache, claimed>>
  /\ UNCHANGED <<account, unspent, tx, faults>>

\* The lookup throws: the handler warns and goes on without deduplication.
LookUpFails(r) ==
  /\ req[r].pc = "looking" /\ faults < MaxFaults
  /\ Loads(r, TRUE)
  /\ faults' = faults + 1
  /\ UNCHANGED <<account, unspent, tx, cache, claimed>>

\* The SELECT of the keys, decryptKey, and the call that signs and sends.  The
\* rest of the handler answers 200, 504 on the timeout or 502 on any other error
\* of the node (neither says whether the op lands) and writes an audit row nobody
\* reads back: it has no effect on what follows.
Send(r) ==
  /\ req[r].pc = "loading"
  /\ tx' = IF account = "light" /\ Len(tx) < MaxSent
             THEN Append(tx, Sent(req[r].what, req[r].blind, "flight"))
             ELSE tx
  /\ Ends(r)
  /\ UNCHANGED <<account, unspent, cache, claimed, faults>>

Handle(r) == \/ Receive(r) \/ AnswerFromCache(r)
             \/ LookUp(r) \/ LookUpFails(r) \/ Send(r)

-----------------------------------------------------------------------------
(* Around it *)

\* A sent transaction is included, or expires or is rejected; HAF indexes it later.
Chain(i) ==
  /\ \E f \in Fate : /\ tx' = [tx EXCEPT ![i] = Sent(tx[i].what, tx[i].blind, f)]
                     /\ \/ tx[i].fate = "flight" /\ f \in {"landed", "dropped"}
                        \/ tx[i].fate = "landed" /\ f = "indexed"
  /\ UNCHANGED <<account, unspent, req, cache, claimed, faults>>

\* Another request upgrades or deletes the account.
Leave ==
  /\ account = "light" /\ account' = "left"
  /\ UNCHANGED <<unspent, req, tx, cache, claimed, faults>>

\* The positive TTL of an entry passes.
Expire ==
  /\ \E e \in cache : cache' = cache \ {e}
  /\ UNCHANGED <<account, unspent, req, tx, claimed, faults>>

Crash ==
  /\ faults < MaxFaults /\ faults' = faults + 1
  /\ req' = [r \in Req |-> IdleRequest]
  /\ \E r \in Req : req[r].pc # "idle"
  /\ UNCHANGED <<account, unspent, tx, cache, claimed>>

Init ==
  /\ account = "light" /\ unspent = Proof /\ req = [r \in Req |-> IdleRequest]
  /\ tx = <<>> /\ cache = {} /\ claimed = {} /\ faults = 0

Next == \/ \E r \in Req : Handle(r)
        \/ \E i \in DOMAIN tx : Chain(i)
        \/ Leave \/ Expire \/ Crash

Spec == Init /\ [][Next]_vars

-----------------------------------------------------------------------------
(* Properties *)

\* Every transaction that carries a gated op carries one, under a proof that was
\* minted for that very op and that no other transaction was let through with:
\* the scan, the binding and the single use of the proof, together, over retries,
\* concurrent requests and crashes.
OwnProof ==
  \A i \in DOMAIN tx : tx[i].what.gates # 0 =>
     /\ tx[i].what.gates = 1 /\ tx[i].what.proof # None
     /\ tx[i].what.acts = {ProofTarget[tx[i].what.proof]}
     /\ \A j \in DOMAIN tx \ {i} : tx[j].what.proof # tx[i].what.proof

\* The idempotency layer is right in both directions: an op that HAF had indexed
\* when the request was let through is not sent again unless the lookup itself failed, and
\* the answer already_landed is given only when an op with that key landed on a
\* surface the bundle would have used.
Dedup ==
  /\ \A i \in DOMAIN tx : tx[i].what.knew => tx[i].blind
  /\ \A c \in claimed : \E i \in DOMAIN tx :
        tx[i].fate = "indexed" /\ tx[i].what.key = c.key /\ tx[i].what.surface \in c.surface

\* A proof for each gated op, and no op twice.
SentOnce == OwnProof /\ Dedup
=============================================================================
