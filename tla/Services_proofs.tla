--------------------------- MODULE Services_proofs ---------------------------
(* Proofs about the custody broadcasts, the rate limits and signed requests,   *)
(* the admin roster, the accreditation by email and signup, each for any       *)
(* requests, keys, accounts and persons, and any bounds.  A part is laid out   *)
(* the same way in all: the inductive invariant, what several steps have in    *)
(* common, one lemma for each action, the theorems.                            *)
EXTENDS Services, FiniteSetTheorems, FiniteSetsExt, SequenceTheorems, WellFoundedInduction, TLAPS

(***************************************************************************)
(* Custody broadcasts.                                                     *)
(***************************************************************************)

\* An instance has a copy of the standard operators of its own.
LEMMA CustodyCardinality ==
    /\ \A S : Custody!Cardinality(S) = Cardinality(S)
    /\ \A S : Custody!IsFiniteSet(S) = IsFiniteSet(S)
  BY DEF Custody!Cardinality, Cardinality, Custody!IsFiniteSet, IsFiniteSet

(***************************************************************************)
(* Custody broadcasts: the inductive invariant.                            *)
(***************************************************************************)

Active(r) == cReq[r].pc # "idle"

\* A bundle has one gated op at the most, the one its proof was minted for, and the proof
\* is used up.
Rightly(w) == w.gates # 0 => /\ w.gates = 1 /\ w.proof # None
                             /\ w.acts = {ProofTarget[w.proof]}
Spent(w) == w.proof \notin cUnspent
Held ==
  /\ \A r \in Call : Active(r) => Rightly(cReq[r].what) /\ Spent(cReq[r].what)
  /\ \A i \in DOMAIN cTx : Rightly(cTx[i].what) /\ Spent(cTx[i].what)

\* No proof let two bundles through.
Apart(v, w) == v.proof # None => v.proof # w.proof
Distinct ==
  /\ \A i, j \in DOMAIN cTx : i # j => Apart(cTx[i].what, cTx[j].what)
  /\ \A q, r \in Call : q # r /\ Active(q) /\ Active(r) => Apart(cReq[q].what, cReq[r].what)
  /\ \A r \in Call, i \in DOMAIN cTx : Active(r) => Apart(cReq[r].what, cTx[i].what)

\* A request looks up its key on the surface that carries it, and goes on to the keys only
\* when HAF did not have the op, or could not say.
Knows(r) ==
  /\ r.pc = "looking" =>
       /\ r.what.key \in Key
       /\ r.what.surface # None => r.probe = {r.what.surface}
       /\ r.what.knew => Custody!Indexed(r.what.key, {r.what.surface} \ {None})
  /\ r.pc = "loading" => (r.what.knew => r.blind)
Known == \A r \in Call : Knows(cReq[r])

\* Redis holds what HAF has, and answers what was indexed.
Backed == \A e \in cCache : Custody!Indexed(e.key, {e.surface})
Claims == \A c \in cClaimed : Custody!Indexed(c.key, c.surface)
Sends == \A i \in DOMAIN cTx : cTx[i].what.knew => cTx[i].blind

CustodyInv == Custody!CustodyAssumption /\ Custody!TypeOK /\ Held /\ Distinct /\ Known /\ Backed /\ Claims /\ Sends

(***************************************************************************)
(* Custody broadcasts: typing.                                             *)
(***************************************************************************)

\* The records of a request and of a transaction.
LEMMA CustodyRecords ==
    /\ \A pc \in {"idle", "looking", "loading"}, what \in Custody!What, probe \in SUBSET Custody!Surface, blind \in BOOLEAN :
         LET q == Custody!At(pc, what, probe, blind) IN
         q \in Custody!Request /\ q.pc = pc /\ q.what = what /\ q.probe = probe /\ q.blind = blind
    /\ \A what \in Custody!What, blind \in BOOLEAN, fate \in Custody!Fate :
         LET t == Custody!Sent(what, blind, fate) IN
         t \in Custody!Tx /\ t.what = what /\ t.blind = blind /\ t.fate = fate
  BY DEF Custody!At, Custody!Request, Custody!Sent, Custody!Tx

\* A request at rest.
LEMMA CustodyResting ==
    ASSUME Custody!CustodyAssumption
    PROVE  Custody!IdleRequest \in Custody!Request /\ Custody!IdleRequest.pc = "idle"
  <1>1. 0 \in 0..MaxTxOps
    BY DEF Custody!CustodyAssumption
  <1>2. None \in Custody!Surface /\ {} \in SUBSET Custody!Surface
    BY DEF Custody!Surface
  <1> DEFINE what == Custody!Carrying(None, None, 0, {}, None, FALSE)
  <1>3. what \in Custody!What
    BY <1>1, <1>2 DEF Custody!Carrying, Custody!What
  <1>4. Custody!IdleRequest = Custody!At("idle", what, {}, FALSE)
    BY DEF Custody!IdleRequest
  <1> HIDE DEF what
  <1> QED
    BY <1>2, <1>3, <1>4 DEF Custody!At, Custody!Request

\* What a request and a transaction hold.
LEMMA CustodyRequestHolds ==
    ASSUME Custody!TypeOK, NEW r \in Call
    PROVE  /\ cReq[r] \in Custody!Request /\ cReq[r].pc \in {"idle", "looking", "loading"}
           /\ cReq[r].what \in Custody!What /\ cReq[r].probe \in SUBSET Custody!Surface /\ cReq[r].blind \in BOOLEAN
           /\ cReq[r].what.key \in Key \cup {None} /\ cReq[r].what.surface \in Custody!Surface
           /\ cReq[r].what.proof \in Proof \cup {None}
  BY DEF Custody!TypeOK, Custody!Request, Custody!What

\* What is known of a transaction.
LEMMA TxHolds ==
    ASSUME Custody!TypeOK, NEW i \in DOMAIN cTx
    PROVE  /\ cTx[i] \in Custody!Tx /\ cTx[i].what \in Custody!What /\ cTx[i].blind \in BOOLEAN /\ cTx[i].fate \in Custody!Fate
           /\ cTx[i].what.proof \in Proof \cup {None}
  <1>1. cTx[i] \in Custody!Tx
    BY DEF Custody!TypeOK
  <1> QED
    BY <1>1 DEF Custody!Tx, Custody!What

\* A request that becomes another.
LEMMA CustodyBecomes ==
    ASSUME Custody!TypeOK, NEW r \in Call, NEW rec \in Custody!Request, cReq' = [cReq EXCEPT ![r] = rec]
    PROVE  /\ cReq' \in [Call -> Custody!Request] /\ cReq'[r] = rec
           /\ \A q \in Call \ {r} : cReq'[q] = cReq[q]
  BY DEF Custody!TypeOK

\* A request that ends, and one that goes on to the keys.
LEMMA EndsWell ==
    ASSUME Custody!CustodyAssumption, Custody!TypeOK, NEW r \in Call, Custody!Ends(r)
    PROVE  /\ cReq' \in [Call -> Custody!Request] /\ cReq'[r].pc = "idle"
           /\ \A q \in Call \ {r} : cReq'[q] = cReq[q]
  BY CustodyResting, CustodyBecomes DEF Custody!Ends

\* A request that starts to load moves alone.
LEMMA LoadsWell ==
    ASSUME Custody!TypeOK, NEW r \in Call, NEW blind \in BOOLEAN, Custody!Loads(r, blind)
    PROVE  /\ cReq' \in [Call -> Custody!Request]
           /\ cReq'[r].pc = "loading" /\ cReq'[r].what = cReq[r].what /\ cReq'[r].blind = blind
           /\ \A q \in Call \ {r} : cReq'[q] = cReq[q]
  <1> DEFINE rec == Custody!At("loading", cReq[r].what, cReq[r].probe, blind)
  <1>1. cReq[r].what \in Custody!What /\ cReq[r].probe \in SUBSET Custody!Surface
    BY CustodyRequestHolds
  <1>2. rec \in Custody!Request /\ rec.pc = "loading" /\ rec.what = cReq[r].what /\ rec.blind = blind
    BY <1>1, CustodyRecords
  <1>3. cReq' = [cReq EXCEPT ![r] = rec]
    BY DEF Custody!Loads
  <1> HIDE DEF rec
  <1> QED
    BY <1>2, <1>3, CustodyBecomes

(***************************************************************************)
(* Custody broadcasts: what every step keeps.                              *)
(***************************************************************************)

\* The transactions stay, and what HAF has it keeps.
Grows ==
  \A i \in DOMAIN cTx : /\ i \in DOMAIN cTx' /\ cTx'[i].what = cTx[i].what /\ cTx'[i].blind = cTx[i].blind
                        /\ cTx[i].fate = "indexed" => cTx'[i].fate = "indexed"

\* So what was indexed stays indexed.
LEMMA IndexedStays ==
    ASSUME Grows, NEW key, NEW arms, Custody!Indexed(key, arms)
    PROVE  Custody!Indexed(key, arms)'
  BY DEF Grows, Custody!Indexed

\* Redis, the answers and the other requests are none the worse.
LEMMA StillBacked ==
    ASSUME Grows
    PROVE  /\ Backed /\ cCache' \subseteq cCache => Backed'
           /\ Claims /\ cClaimed' = cClaimed => Claims'
           /\ \A q \in Call : Knows(cReq[q]) /\ (cReq'[q] = cReq[q] \/ cReq'[q].pc = "idle") => Knows(cReq[q])'
  <1>1. \A key, arms : Custody!Indexed(key, arms) => Custody!Indexed(key, arms)'
    BY IndexedStays
  <1>2. Backed /\ cCache' \subseteq cCache => Backed'
    BY <1>1 DEF Backed
  <1>3. Claims /\ cClaimed' = cClaimed => Claims'
    BY <1>1 DEF Claims
  <1>4. ASSUME NEW q \in Call, Knows(cReq[q]), cReq'[q] = cReq[q] \/ cReq'[q].pc = "idle"
        PROVE  Knows(cReq[q])'
    BY <1>1, <1>4 DEF Knows
  <1> QED
    BY <1>2, <1>3, <1>4

\* Bundles that end, or stay what they are, keep their proofs.
LEMMA Fewer ==
    ASSUME Held, Distinct, cUnspent' = cUnspent, DOMAIN cTx' = DOMAIN cTx,
           \A i \in DOMAIN cTx : cTx'[i].what = cTx[i].what,
           \A q \in Call : cReq'[q].pc = "idle" \/ (cReq[q].pc # "idle" /\ cReq'[q].what = cReq[q].what)
    PROVE  Held' /\ Distinct'
  <1>1. Held'
    BY DEF Held, Active, Rightly, Spent
  <1>2. Distinct'
    BY DEF Distinct, Active, Apart
  <1> QED
    BY <1>1, <1>2

\* A step that leaves the transactions alone.
LEMMA Quiet ==
    ASSUME CustodyInv, UNCHANGED <<cTx, cUnspent>>, Custody!TypeOK', Backed', Claims',
           \A q \in Call : cReq'[q].pc = "idle" \/ (cReq[q].pc # "idle" /\ cReq'[q].what = cReq[q].what),
           \A q \in Call : Knows(cReq[q])'
    PROVE  CustodyInv'
  <1>1. Held' /\ Distinct'
    BY Fewer DEF CustodyInv
  <1>2. Sends'
    BY DEF CustodyInv, Sends
  <1> QED
    BY <1>1, <1>2 DEF CustodyInv, Known

\* A request that ends.
LEMMA QuietEnd ==
    ASSUME CustodyInv, NEW r \in Call, Custody!Ends(r), UNCHANGED <<cAccount, cTx, cUnspent, cFaults>>,
           cCache' \subseteq [key : Key, surface : Custody!Surface], Backed',
           cClaimed' \subseteq [key : Key, surface : SUBSET Custody!Surface], Claims'
    PROVE  CustodyInv'
  <1>1. Custody!TypeOK /\ Custody!CustodyAssumption /\ Known
    BY DEF CustodyInv
  <1>2. /\ cReq' \in [Call -> Custody!Request] /\ cReq'[r].pc = "idle"
        /\ \A q \in Call \ {r} : cReq'[q] = cReq[q]
    BY <1>1, EndsWell
  <1>3. Custody!TypeOK'
    BY <1>1, <1>2 DEF Custody!TypeOK
  <1>4. Grows
    BY DEF Grows
  <1>5. \A q \in Call : Knows(cReq[q])'
    BY <1>1, <1>2, <1>4, StillBacked DEF Known
  <1>6. \A q \in Call : cReq'[q].pc = "idle" \/ (cReq[q].pc # "idle" /\ cReq'[q].what = cReq[q].what)
    BY <1>2
  <1> QED
    BY <1>3, <1>5, <1>6, Quiet

(***************************************************************************)
(* Custody broadcasts: the steps.                                          *)
(***************************************************************************)

\* What the scan lets through: a bundle without a gated op, or with one.
LEMMA Scanned ==
    ASSUME Custody!CustodyAssumption, NEW b \in Custody!Bundle, Custody!Scan(b) \in {"none", "single"}
    PROVE  /\ Cardinality(Custody!GatedAt(b)) \in 0..MaxTxOps /\ {b[i] : i \in Custody!GatedAt(b)} \in SUBSET Target
           /\ Custody!Scan(b) = "none" => Cardinality(Custody!GatedAt(b)) = 0
           /\ Custody!Scan(b) = "single" => /\ Cardinality(Custody!GatedAt(b)) = 1
                                            /\ {b[i] : i \in Custody!GatedAt(b)} = {Custody!FirstGated(b)}
  <1>1. MaxTxOps \in Nat /\ MaxTxOps >= 1
    BY DEF Custody!CustodyAssumption
  <1>2. CASE Custody!GatedAt(b) = {}
    <2>1. Cardinality(Custody!GatedAt(b)) = 0 /\ Custody!Scan(b) = "none"
      BY <1>2, FS_EmptySet DEF Custody!Scan
    <2> QED
      BY <1>1, <1>2, <2>1
  <1>3. CASE Custody!GatedAt(b) # {}
    <2>1. /\ Custody!Scan(b) = "single" /\ Cardinality(Custody!GatedAt(b)) = 1
          /\ ~\E i \in Custody!GatedAt(b) : b[i] = "unfit" /\ Cardinality({j \in Custody!GatedAt(b) : j < i}) < 2
      BY CustodyCardinality, <1>3 DEF Custody!Scan
    <2>2. PICK n \in 1..MaxTxOps : b \in [1..n -> Custody!Op]
      BY DEF Custody!Bundle
    <2>3. IsFiniteSet(Custody!GatedAt(b))
      <3>1. IsFiniteSet(1..n)
        BY <2>2, FS_Interval
      <3>2. Custody!GatedAt(b) \subseteq 1..n
        BY <2>2 DEF Custody!GatedAt
      <3> QED
        BY <3>1, <3>2, FS_Subset
    <2>4. PICK i : Custody!GatedAt(b) = {i}
      <3> DEFINE S == Custody!GatedAt(b)
      <3>1. IsFiniteSet(S) /\ Cardinality(S) = 1
        BY <2>1, <2>3
      <3> HIDE DEF S
      <3>2. \E x : S = {x}
        BY <3>1, FS_Singleton
      <3> QED
        BY <3>2 DEF S
    <2>5. i \in 1..n /\ i \in Int /\ Custody!IsGated(b[i])
      BY <2>2, <2>4 DEF Custody!GatedAt
    <2>6. b[i] # "unfit"
      <3>1. {j \in Custody!GatedAt(b) : j < i} = {}
        BY <2>4, <2>5
      <3>2. Cardinality({j \in Custody!GatedAt(b) : j < i}) < 2
        BY <3>1, FS_EmptySet
      <3> QED
        BY <2>1, <2>4, <3>2
    <2>7. b[i] \in Target
      BY <2>5, <2>6 DEF Custody!IsGated
    <2>8. Custody!FirstGated(b) = b[i]
      <3>1. Custody!Min(Custody!GatedAt(b)) = i
        BY <2>4, <2>5 DEF Custody!Min
      <3> QED
        BY <3>1 DEF Custody!FirstGated
    <2>9. {b[k] : k \in Custody!GatedAt(b)} = {b[i]}
      BY <2>4
    <2> QED
      BY <1>1, <2>1, <2>7, <2>8, <2>9
  <1> QED
    BY <1>2, <1>3

\* The surface that carries the key, and the arms that are probed for it.
LEMMA Probed ==
    ASSUME NEW b
    PROVE  /\ Custody!EmbedSurface(b) \in Custody!Surface /\ Custody!Probe(b) \in SUBSET Custody!Surface
           /\ Custody!EmbedSurface(b) # None => Custody!Probe(b) = {Custody!EmbedSurface(b)}
  <1>1. Custody!EmbedSurface(b) \in Custody!Surface
    BY DEF Custody!EmbedSurface, Custody!OpType, Custody!Surface
  <1> QED
    BY <1>1 DEF Custody!Probe, Custody!Surface

\* A request comes in: its proof is new to all the others.
LEMMA StepReceive ==
    ASSUME CustodyInv, NEW r \in Call, Custody!Receive(r)
    PROVE  CustodyInv'
  <1>1. Custody!TypeOK /\ Custody!CustodyAssumption /\ Held /\ Distinct /\ Known /\ Backed /\ Claims /\ Sends
    BY DEF CustodyInv
  <1>2. PICK b \in Custody!Bundle, key \in Key \cup {None}, proof \in Proof \cup {None} :
          /\ Custody!Scan(b) \in {"none", "single"} /\ Custody!LetThrough(b, proof)
          /\ cReq' = [cReq EXCEPT ![r] =
               Custody!At(IF key = None THEN "loading" ELSE "looking",
                  Custody!Carrying(key, Custody!EmbedSurface(b), Cardinality(Custody!GatedAt(b)), {b[i] : i \in Custody!GatedAt(b)}, proof,
                           key # None /\ Custody!Indexed(key, {Custody!EmbedSurface(b)} \ {None})),
                  Custody!Probe(b), FALSE)]
    BY CustodyCardinality DEF Custody!Receive
  <1>3. UNCHANGED <<cAccount, cTx, cCache, cClaimed, cFaults>>
    BY DEF Custody!Receive
  <1> DEFINE pc == IF key = None THEN "loading" ELSE "looking"
             knew == key # None /\ Custody!Indexed(key, {Custody!EmbedSurface(b)} \ {None})
             gates == Cardinality(Custody!GatedAt(b))
             acts == {b[i] : i \in Custody!GatedAt(b)}
             what == Custody!Carrying(key, Custody!EmbedSurface(b), gates, acts, proof, knew)
             rec == Custody!At(pc, what, Custody!Probe(b), FALSE)
  <1>4. /\ pc \in {"loading", "looking"} /\ (pc = "looking" => key \in Key) /\ (pc = "loading" => key = None)
        /\ knew \in BOOLEAN
        /\ knew => key # None /\ Custody!Indexed(key, {Custody!EmbedSurface(b)} \ {None})
    BY <1>2
  <1>5. /\ gates \in 0..MaxTxOps /\ acts \in SUBSET Target
        /\ Custody!Scan(b) = "none" => gates = 0
        /\ Custody!Scan(b) = "single" => gates = 1 /\ acts = {Custody!FirstGated(b)}
    BY <1>1, <1>2, Scanned
  <1> HIDE DEF pc, knew, gates, acts
  <1>6. /\ what \in Custody!What /\ what.key = key /\ what.surface = Custody!EmbedSurface(b) /\ what.gates = gates
        /\ what.acts = acts /\ what.proof = proof /\ what.knew = knew
    BY <1>2, <1>4, <1>5, Probed DEF Custody!Carrying, Custody!What
  <1> HIDE DEF what
  <1>7. rec \in Custody!Request /\ rec.pc = pc /\ rec.what = what /\ rec.probe = Custody!Probe(b) /\ rec.blind = FALSE
    <2>1. pc \in {"idle", "looking", "loading"} /\ FALSE \in BOOLEAN /\ Custody!Probe(b) \in SUBSET Custody!Surface
      BY <1>4, Probed
    <2> QED
      BY <1>6, <2>1 DEF Custody!At, Custody!Request
  <1>8. cReq' = [cReq EXCEPT ![r] = rec]
    BY <1>2 DEF pc, knew, gates, acts, what
  <1> HIDE DEF rec
  <1>9. /\ cReq' \in [Call -> Custody!Request] /\ cReq'[r] = rec
        /\ \A q \in Call \ {r} : cReq'[q] = cReq[q]
    BY <1>1, <1>7, <1>8, CustodyBecomes
  <1>10. /\ cUnspent' \subseteq cUnspent /\ proof \notin cUnspent'
         /\ proof = None \/ proof \in cUnspent
         /\ gates # 0 => gates = 1 /\ proof # None /\ acts = {ProofTarget[proof]}
    BY <1>1, <1>2, <1>5 DEF Custody!LetThrough, Custody!TypeOK, Custody!CustodyAssumption
  <1>11. Custody!TypeOK'
    BY <1>1, <1>3, <1>9, <1>10 DEF Custody!TypeOK
  <1>12. Held'
    <2>1. Rightly(what)
      BY <1>6, <1>10 DEF Rightly
    <2>2. \A q \in Call : Active(q)' => Rightly(cReq'[q].what) /\ cReq'[q].what.proof \notin cUnspent'
      BY <1>1, <1>6, <1>7, <1>9, <1>10, <2>1 DEF Held, Active, Spent
    <2>3. \A i \in DOMAIN cTx : Rightly(cTx[i].what) /\ cTx[i].what.proof \notin cUnspent'
      BY <1>1, <1>10 DEF Held, Spent
    <2> QED
      BY <1>3, <2>2, <2>3 DEF Held, Rightly, Spent
  <1>13. Distinct'
    <2>1. \A q \in Call \ {r} : Active(q) => Apart(cReq[q].what, what) /\ Apart(what, cReq[q].what)
      BY <1>1, <1>6, <1>10 DEF Held, Spent, Apart
    <2>2. \A i \in DOMAIN cTx : Apart(what, cTx[i].what)
      BY <1>1, <1>6, <1>10 DEF Held, Spent, Apart
    <2>3. \A q, p \in Call : q # p /\ Active(q)' /\ Active(p)' => Apart(cReq'[q].what, cReq'[p].what)
      BY <1>1, <1>7, <1>9, <2>1 DEF Distinct, Active
    <2>4. \A q \in Call, i \in DOMAIN cTx : Active(q)' => Apart(cReq'[q].what, cTx[i].what)
      BY <1>1, <1>7, <1>9, <2>2 DEF Distinct, Active
    <2> QED
      BY <1>1, <1>3, <2>3, <2>4 DEF Distinct, Apart
  <1>14. Grows
    BY <1>3 DEF Grows
  <1>15. Known'
    <2>1. \A q \in Call \ {r} : Knows(cReq[q])'
      BY <1>1, <1>9, <1>14, StillBacked DEF Known
    <2>2. /\ rec.pc = "looking" => /\ rec.what.key \in Key
                                   /\ rec.what.surface # None => rec.probe = {rec.what.surface}
                                   /\ rec.what.knew => Custody!Indexed(rec.what.key, {rec.what.surface} \ {None})
          /\ rec.pc = "loading" => ~rec.what.knew
      BY <1>4, <1>6, <1>7, Probed
    <2>3. \A k, arms : Custody!Indexed(k, arms) => Custody!Indexed(k, arms)'
      BY <1>14, IndexedStays
    <2>4. Knows(cReq[r])'
      BY <1>9, <2>2, <2>3 DEF Knows
    <2> QED
      BY <2>1, <2>4 DEF Known
  <1>16. Backed' /\ Claims'
    BY <1>1, <1>3, <1>14, StillBacked
  <1>17. Sends' /\ Custody!CustodyAssumption'
    BY <1>1, <1>3 DEF Sends, Custody!CustodyAssumption
  <1> QED
    BY <1>11, <1>12, <1>13, <1>15, <1>16, <1>17 DEF CustodyInv

\* The answer is in Redis.
LEMMA StepAnswerFromCache ==
    ASSUME CustodyInv, NEW r \in Call, Custody!AnswerFromCache(r)
    PROVE  CustodyInv'
  <1>1. Custody!TypeOK /\ Known /\ Backed /\ Claims
    BY DEF CustodyInv
  <1>2. /\ cReq[r].pc = "looking" /\ Custody!Slot(r) \in cCache /\ Custody!Ends(r) /\ UNCHANGED <<cAccount, cUnspent, cTx, cCache, cFaults>>
        /\ cClaimed' = cClaimed \cup {[key |-> cReq[r].what.key, surface |-> {cReq[r].what.surface}]}
    BY DEF Custody!AnswerFromCache, Custody!AlreadyLanded
  <1>3. Custody!Indexed(cReq[r].what.key, {cReq[r].what.surface})
    BY <1>1, <1>2 DEF Backed, Custody!Slot
  <1>4. Grows
    BY <1>2 DEF Grows
  <1>5. Claims'
    <2>1. \A k, arms : Custody!Indexed(k, arms) => Custody!Indexed(k, arms)'
      BY <1>4, IndexedStays
    <2> QED
      BY <1>1, <1>2, <1>3, <2>1 DEF Claims
  <1>6. Backed'
    BY <1>1, <1>2, <1>4, StillBacked
  <1>7. cClaimed' \subseteq [key : Key, surface : SUBSET Custody!Surface]
    <2>1. cReq[r].what.key \in Key /\ {cReq[r].what.surface} \in SUBSET Custody!Surface
      BY <1>1, <1>2, CustodyRequestHolds DEF Known, Knows
    <2>2. [key |-> cReq[r].what.key, surface |-> {cReq[r].what.surface}] \in [key : Key, surface : SUBSET Custody!Surface]
      BY <2>1
    <2> QED
      BY <1>1, <1>2, <2>2 DEF Custody!TypeOK
  <1>8. cCache' \subseteq [key : Key, surface : Custody!Surface]
    BY <1>1, <1>2 DEF Custody!TypeOK
  <1> QED
    BY <1>2, <1>5, <1>6, <1>7, <1>8, QuietEnd

\* A request goes on to the keys: HAF did not have the op, or could not say.
LEMMA QuietLoad ==
    ASSUME CustodyInv, NEW r \in Call, NEW blind \in BOOLEAN, cReq[r].pc = "looking", Custody!Loads(r, blind),
           cReq[r].what.knew => blind,
           UNCHANGED <<cAccount, cTx, cUnspent, cCache, cClaimed>>, cFaults' \in 0..MaxFaults
    PROVE  CustodyInv'
  <1>1. Custody!TypeOK /\ Known /\ Backed /\ Claims
    BY DEF CustodyInv
  <1>2. /\ cReq' \in [Call -> Custody!Request]
        /\ cReq'[r].pc = "loading" /\ cReq'[r].what = cReq[r].what /\ cReq'[r].blind = blind
        /\ \A q \in Call \ {r} : cReq'[q] = cReq[q]
    BY <1>1, LoadsWell
  <1>3. Custody!TypeOK'
    BY <1>1, <1>2 DEF Custody!TypeOK
  <1>4. Grows
    BY DEF Grows
  <1>5. \A q \in Call : Knows(cReq[q])'
    <2>1. \A q \in Call \ {r} : Knows(cReq[q])'
      BY <1>1, <1>2, <1>4, StillBacked DEF Known
    <2>2. Knows(cReq[r])'
      BY <1>2 DEF Knows
    <2> QED
      BY <2>1, <2>2
  <1>6. \A q \in Call : cReq'[q].pc = "idle" \/ (cReq[q].pc # "idle" /\ cReq'[q].what = cReq[q].what)
    <2>1. cReq[r].pc # "idle" /\ cReq'[r].what = cReq[r].what
      BY <1>2
    <2>2. \A q \in Call \ {r} : cReq'[q] = cReq[q]
      BY <1>2
    <2> QED
      BY <2>1, <2>2
  <1>7. Backed' /\ Claims'
    BY <1>1, <1>4, StillBacked
  <1> QED
    BY <1>3, <1>5, <1>6, <1>7, Quiet

\* HAF is asked.
LEMMA StepLookUp ==
    ASSUME CustodyInv, NEW r \in Call, Custody!LookUp(r)
    PROVE  CustodyInv'
  <1>1. Custody!TypeOK /\ Known /\ Backed /\ Claims
    BY DEF CustodyInv
  <1>2. cReq[r].pc = "looking" /\ UNCHANGED <<cAccount, cUnspent, cTx, cFaults>>
    BY DEF Custody!LookUp
  <1>3. /\ cReq[r].what.key \in Key
        /\ cReq[r].what.surface # None => cReq[r].probe = {cReq[r].what.surface}
        /\ cReq[r].what.knew => Custody!Indexed(cReq[r].what.key, {cReq[r].what.surface} \ {None})
        /\ cReq[r].what.surface \in Custody!Surface /\ cReq[r].probe \in SUBSET Custody!Surface /\ cReq[r].blind \in BOOLEAN
    BY <1>1, <1>2, CustodyRequestHolds DEF Known, Knows
  <1>4. Grows
    BY <1>2 DEF Grows
  <1>5. CASE Custody!Indexed(cReq[r].what.key, cReq[r].probe)
    <2>1. /\ Custody!Ends(r)
          /\ cClaimed' = cClaimed \cup {[key |-> cReq[r].what.key, surface |-> cReq[r].probe]}
          /\ cCache' = cCache \/ (cReq[r].what.surface # None /\ cCache' = cCache \cup {Custody!Slot(r)})
      BY <1>5 DEF Custody!LookUp, Custody!AlreadyLanded
    <2>2. \A k, arms : Custody!Indexed(k, arms) => Custody!Indexed(k, arms)'
      BY <1>4, IndexedStays
    <2>3. Claims'
      BY <1>1, <1>5, <2>1, <2>2 DEF Claims
    <2>4. Backed'
      <3>1. CASE cCache' = cCache
        BY <1>1, <2>2, <3>1 DEF Backed
      <3>2. CASE cReq[r].what.surface # None /\ cCache' = cCache \cup {Custody!Slot(r)}
        <4>1. Custody!Slot(r).key = cReq[r].what.key /\ Custody!Slot(r).surface = cReq[r].what.surface
          BY DEF Custody!Slot
        <4>2. Custody!Indexed(cReq[r].what.key, {cReq[r].what.surface})
          BY <1>3, <1>5, <3>2
        <4> QED
          BY <1>1, <2>2, <3>2, <4>1, <4>2 DEF Backed
      <3> QED
        BY <2>1, <3>1, <3>2
    <2>5. cClaimed' \subseteq [key : Key, surface : SUBSET Custody!Surface]
      BY <1>1, <1>3, <2>1 DEF Custody!TypeOK
    <2>6. cCache' \subseteq [key : Key, surface : Custody!Surface]
      BY <1>1, <1>3, <2>1 DEF Custody!TypeOK, Custody!Slot
    <2> QED
      BY <1>2, <2>1, <2>3, <2>4, <2>5, <2>6, QuietEnd
  <1>6. CASE ~Custody!Indexed(cReq[r].what.key, cReq[r].probe)
    <2> DEFINE blind == cReq[r].blind
    <2>1. Custody!Loads(r, blind) /\ UNCHANGED <<cCache, cClaimed>>
      BY <1>6 DEF Custody!LookUp
    <2>2. ~cReq[r].what.knew
      BY <1>3, <1>6 DEF Custody!Indexed
    <2>3. blind \in BOOLEAN /\ cFaults' \in 0..MaxFaults
      BY <1>1, <1>2, <1>3 DEF Custody!TypeOK
    <2> HIDE DEF blind
    <2> QED
      BY <1>2, <2>1, <2>2, <2>3, QuietLoad
  <1> QED
    BY <1>5, <1>6

\* The lookup throws.
LEMMA StepLookUpFails ==
    ASSUME CustodyInv, NEW r \in Call, Custody!LookUpFails(r)
    PROVE  CustodyInv'
  <1>1. /\ cReq[r].pc = "looking" /\ Custody!Loads(r, TRUE) /\ UNCHANGED <<cAccount, cUnspent, cTx, cCache, cClaimed>>
        /\ cFaults' \in 0..MaxFaults
    <2>1. cFaults \in 0..MaxFaults /\ MaxFaults \in Nat
      BY DEF CustodyInv, Custody!TypeOK, Custody!CustodyAssumption
    <2>2. /\ cReq[r].pc = "looking" /\ Custody!Loads(r, TRUE) /\ UNCHANGED <<cAccount, cUnspent, cTx, cCache, cClaimed>>
          /\ cFaults < MaxFaults /\ cFaults' = cFaults + 1
      BY Zenon DEF Custody!LookUpFails
    <2>3. cFaults' \in 0..MaxFaults
      BY <2>1, <2>2
    <2> QED
      BY <2>2, <2>3, Zenon
  <1> DEFINE blind == TRUE
  <1>2. blind \in BOOLEAN /\ blind /\ Custody!Loads(r, blind)
    BY <1>1
  <1> HIDE DEF blind
  <1> QED
    BY <1>1, <1>2, QuietLoad

\* The transaction is sent, unless the account left meanwhile.
LEMMA StepSend ==
    ASSUME CustodyInv, NEW r \in Call, Custody!Send(r)
    PROVE  CustodyInv'
  <1>1. Custody!TypeOK /\ Custody!CustodyAssumption /\ Held /\ Distinct /\ Known /\ Backed /\ Claims /\ Sends
    BY DEF CustodyInv
  <1>2. cReq[r].pc = "loading" /\ Custody!Ends(r) /\ UNCHANGED <<cAccount, cUnspent, cCache, cClaimed, cFaults>>
    BY DEF Custody!Send
  <1>3. CASE cTx' = cTx
    <2>1. /\ cCache' \subseteq [key : Key, surface : Custody!Surface]
          /\ cClaimed' \subseteq [key : Key, surface : SUBSET Custody!Surface]
      BY <1>1, <1>2 DEF Custody!TypeOK
    <2>2. Grows
      BY <1>3 DEF Grows
    <2>3. Backed' /\ Claims'
      BY <1>1, <1>2, <2>2, StillBacked
    <2> QED
      BY <1>2, <1>3, <2>1, <2>3, QuietEnd
  <1>4. CASE Len(cTx) < MaxSent /\ cTx' = Append(cTx, Custody!Sent(cReq[r].what, cReq[r].blind, "flight"))
    <2> DEFINE t == Custody!Sent(cReq[r].what, cReq[r].blind, "flight")
    <2>1. cReq[r].what \in Custody!What /\ cReq[r].blind \in BOOLEAN /\ "flight" \in Custody!Fate
      BY <1>1, CustodyRequestHolds DEF Custody!Fate
    <2>2. t \in Custody!Tx /\ t.what = cReq[r].what /\ t.blind = cReq[r].blind /\ t.fate = "flight"
      BY <2>1, CustodyRecords
    <2>3. cTx' = Append(cTx, t) /\ cTx \in Seq(Custody!Tx) /\ Len(cTx) < MaxSent /\ MaxSent \in Nat
      BY <1>1, <1>4 DEF Custody!TypeOK, Custody!CustodyAssumption
    <2> HIDE DEF t
    <2>4. /\ cTx' \in Seq(Custody!Tx) /\ Len(cTx') = Len(cTx) + 1 /\ cTx'[Len(cTx) + 1] = t
          /\ \A i \in 1..Len(cTx) : cTx'[i] = cTx[i]
          /\ DOMAIN cTx = 1..Len(cTx) /\ DOMAIN cTx' = 1..(Len(cTx) + 1) /\ Len(cTx) \in Nat
      BY <2>2, <2>3, AppendProperties
    <2>5. \A i \in DOMAIN cTx' : \/ i \in DOMAIN cTx /\ cTx'[i] = cTx[i]
                                 \/ i = Len(cTx) + 1 /\ cTx'[i] = t
      BY <2>4
    <2>6. /\ cReq' \in [Call -> Custody!Request] /\ cReq'[r].pc = "idle"
          /\ \A q \in Call \ {r} : cReq'[q] = cReq[q]
      BY <1>1, <1>2, EndsWell
    <2>7. Custody!TypeOK'
      BY <1>1, <1>2, <2>3, <2>4, <2>6 DEF Custody!TypeOK
    <2>8. Grows
      BY <2>4 DEF Grows
    <2>9. Held'
      <3>1. Rightly(t.what) /\ t.what.proof \notin cUnspent
        BY <1>1, <1>2, <2>2 DEF Held, Active, Spent
      <3>2. \A i \in DOMAIN cTx' : Rightly(cTx'[i].what) /\ cTx'[i].what.proof \notin cUnspent
        BY <1>1, <2>5, <3>1 DEF Held, Spent
      <3>3. \A q \in Call : Active(q)' => Rightly(cReq'[q].what) /\ cReq'[q].what.proof \notin cUnspent
        BY <1>1, <2>6 DEF Held, Active, Spent
      <3> QED
        BY <1>2, <3>2, <3>3 DEF Held, Rightly, Spent
    <2>10. Distinct'
      <3>1. \A i \in DOMAIN cTx : Apart(t.what, cTx[i].what) /\ Apart(cTx[i].what, t.what)
        BY <1>1, <1>2, <2>2 DEF Distinct, Active, Apart
      <3>2. \A q \in Call \ {r} : Active(q) => Apart(cReq[q].what, t.what)
        BY <1>1, <1>2, <2>2 DEF Distinct, Active
      <3>3. \A i, j \in DOMAIN cTx' : i # j => Apart(cTx'[i].what, cTx'[j].what)
        BY <1>1, <2>5, <3>1 DEF Distinct
      <3>4. \A q, p \in Call : q # p /\ Active(q)' /\ Active(p)' => Apart(cReq'[q].what, cReq'[p].what)
        BY <1>1, <2>6 DEF Distinct, Active
      <3>5. \A q \in Call, i \in DOMAIN cTx' : Active(q)' => Apart(cReq'[q].what, cTx'[i].what)
        BY <1>1, <2>5, <2>6, <3>2 DEF Distinct, Active
      <3> QED
        BY <3>3, <3>4, <3>5 DEF Distinct, Apart
    <2>11. Known'
      BY <1>1, <2>6, <2>8, StillBacked DEF Known
    <2>12. Backed' /\ Claims'
      BY <1>1, <1>2, <2>8, StillBacked
    <2>13. Sends'
      BY <1>1, <1>2, <2>2, <2>5 DEF Sends, Known, Knows
    <2> QED
      BY <1>1, <2>7, <2>9, <2>10, <2>11, <2>12, <2>13 DEF CustodyInv, Custody!CustodyAssumption
  <1> QED
    BY <1>3, <1>4 DEF Custody!Send

\* A transaction meets its fate.
LEMMA StepChain ==
    ASSUME CustodyInv, NEW i \in DOMAIN cTx, Custody!Chain(i)
    PROVE  CustodyInv'
  <1>1. Custody!TypeOK /\ Custody!CustodyAssumption /\ Held /\ Distinct /\ Known /\ Backed /\ Claims /\ Sends
    BY DEF CustodyInv
  <1>2. PICK f \in Custody!Fate : /\ cTx' = [cTx EXCEPT ![i] = Custody!Sent(cTx[i].what, cTx[i].blind, f)]
                                  /\ cTx[i].fate \in {"flight", "landed"}
    BY DEF Custody!Chain
  <1>3. UNCHANGED <<cAccount, cUnspent, cReq, cCache, cClaimed, cFaults>>
    BY DEF Custody!Chain
  <1> DEFINE t == Custody!Sent(cTx[i].what, cTx[i].blind, f)
  <1>4. t \in Custody!Tx /\ t.what = cTx[i].what /\ t.blind = cTx[i].blind
    BY <1>1, <1>2, TxHolds, CustodyRecords
  <1>5. cTx' = [cTx EXCEPT ![i] = t] /\ cTx \in Seq(Custody!Tx) /\ i \in 1..Len(cTx)
    BY <1>1, <1>2 DEF Custody!TypeOK
  <1> HIDE DEF t
  <1>6. /\ cTx' \in Seq(Custody!Tx) /\ Len(cTx') = Len(cTx) /\ DOMAIN cTx' = DOMAIN cTx
        /\ \A j \in DOMAIN cTx : cTx'[j] = IF j = i THEN t ELSE cTx[j]
    BY <1>4, <1>5, ExceptSeq
  <1>7. \A j \in DOMAIN cTx : cTx'[j].what = cTx[j].what /\ cTx'[j].blind = cTx[j].blind
    BY <1>4, <1>6
  <1>8. Custody!TypeOK'
    BY <1>1, <1>3, <1>6 DEF Custody!TypeOK
  <1>9. Grows
    BY <1>2, <1>6, <1>7 DEF Grows
  <1>10. Held' /\ Distinct'
    <2>1. Held'
      BY <1>1, <1>3, <1>6, <1>7 DEF Held, Active, Rightly, Spent
    <2>2. Distinct'
      BY <1>1, <1>3, <1>6, <1>7 DEF Distinct, Active, Apart
    <2> QED
      BY <2>1, <2>2
  <1>11. Known' /\ Backed' /\ Claims'
    BY <1>1, <1>3, <1>9, StillBacked DEF Known
  <1>12. Sends'
    BY <1>1, <1>6, <1>7 DEF Sends
  <1> QED
    BY <1>1, <1>8, <1>10, <1>11, <1>12 DEF CustodyInv, Custody!CustodyAssumption

\* What happens around the requests: the account leaves, an entry expires, the server
\* crashes, nothing.
LEMMA StepAround ==
    ASSUME CustodyInv, Custody!Leave \/ Custody!Expire \/ Custody!Crash \/ UNCHANGED Custody!vars
    PROVE  CustodyInv'
  <1>1. Custody!TypeOK /\ Custody!CustodyAssumption /\ Known /\ Backed /\ Claims
    BY DEF CustodyInv
  <1>2. UNCHANGED <<cTx, cUnspent, cClaimed>> /\ cCache' \subseteq cCache
    BY DEF Custody!Leave, Custody!Expire, Custody!Crash, Custody!vars
  <1>3. Custody!IdleRequest \in Custody!Request /\ Custody!IdleRequest.pc = "idle"
    BY <1>1, CustodyResting
  <1>4. cReq' = cReq \/ cReq' = [q \in Call |-> Custody!IdleRequest]
    BY DEF Custody!Leave, Custody!Expire, Custody!Crash, Custody!vars
  <1>5. /\ cReq' \in [Call -> Custody!Request]
        /\ \A q \in Call : cReq'[q] = cReq[q] \/ cReq'[q].pc = "idle"
    BY <1>1, <1>3, <1>4 DEF Custody!TypeOK
  <1>6. cAccount' \in {"light", "left"} /\ cFaults' \in 0..MaxFaults
    BY <1>1
       DEF Custody!Leave, Custody!Expire, Custody!Crash, Custody!vars, Custody!TypeOK, Custody!CustodyAssumption
  <1>7. Custody!TypeOK'
    BY <1>1, <1>2, <1>5, <1>6 DEF Custody!TypeOK
  <1>8. Grows
    BY <1>2 DEF Grows
  <1>9. Backed' /\ Claims'
    BY <1>1, <1>2, <1>8, StillBacked
  <1>10. \A q \in Call : Knows(cReq[q])'
    BY <1>1, <1>5, <1>8, StillBacked DEF Known
  <1>11. \A q \in Call : cReq'[q].pc = "idle" \/ (cReq[q].pc # "idle" /\ cReq'[q].what = cReq[q].what)
    BY <1>5
  <1> QED
    BY <1>2, <1>7, <1>9, <1>10, <1>11, Quiet

(***************************************************************************)
(* Custody broadcasts: the theorems.                                       *)
(***************************************************************************)

\* It holds at the start.
LEMMA CustodyStarts ==
    ASSUME Custody!CustodyAssumption, Custody!Init
    PROVE  CustodyInv
  <1>1. /\ Custody!IdleRequest \in Custody!Request /\ Custody!IdleRequest.pc = "idle" /\ None \notin Proof
        /\ MaxSent \in Nat /\ MaxFaults \in Nat
    BY CustodyResting DEF Custody!CustodyAssumption
  <1>2. /\ cAccount = "light" /\ cUnspent = Proof /\ cReq = [r \in Call |-> Custody!IdleRequest]
        /\ cTx = <<>> /\ cCache = {} /\ cClaimed = {} /\ cFaults = 0
    BY DEF Custody!Init
  <1>3. Custody!TypeOK
    BY <1>1, <1>2 DEF Custody!TypeOK
  <1>4. \A r \in Call : cReq[r].pc = "idle"
    BY <1>1, <1>2
  <1>5. DOMAIN cTx = {}
    BY <1>2
  <1>6. Held /\ Distinct /\ Known /\ Sends
    BY <1>4, <1>5 DEF Held, Distinct, Active, Known, Knows, Sends
  <1>7. Backed /\ Claims
    BY <1>2 DEF Backed, Claims
  <1> QED
    BY <1>3, <1>6, <1>7 DEF CustodyInv

\* Every step keeps it.
LEMMA CustodyKeeps ==
    CustodyInv /\ [Custody!Next]_Custody!vars => CustodyInv'
  <1>1. SUFFICES ASSUME CustodyInv, [Custody!Next]_Custody!vars
                 PROVE  CustodyInv'
    OBVIOUS
  <1>2. ASSUME NEW r \in Call, Custody!Handle(r)
        PROVE  CustodyInv'
    BY <1>1, <1>2, StepReceive, StepAnswerFromCache, StepLookUp, StepLookUpFails, StepSend
       DEF Custody!Handle
  <1>3. ASSUME NEW i \in DOMAIN cTx, Custody!Chain(i)
        PROVE  CustodyInv'
    BY <1>1, <1>3, StepChain
  <1>4. CASE Custody!Leave \/ Custody!Expire \/ Custody!Crash \/ UNCHANGED Custody!vars
    BY <1>1, <1>4, StepAround
  <1> QED
    BY <1>1, <1>2, <1>3, <1>4 DEF Custody!Next

\* The inductive invariant holds of every behaviour of the route (custody.ts POST /broadcast).
THEOREM CustodyInvariant ==
    ASSUME Custody!CustodyAssumption
    PROVE  Custody!Spec => []CustodyInv
  <1>1. Custody!Init => CustodyInv
    BY CustodyStarts
  <1> QED
    BY <1>1, CustodyKeeps, PTL DEF Custody!Spec

\* The variables of the route keep their types.
THEOREM CustodyTyped ==
    ASSUME Custody!CustodyAssumption
    PROVE  Custody!Spec => []Custody!TypeOK
  <1>1. CustodyInv => Custody!TypeOK
    BY DEF CustodyInv
  <1> QED
    BY <1>1, CustodyInvariant, PTL

\* A transaction with a gated op has one, under a proof that was minted for it and that let
\* nothing else through (custody.ts findGatedOpsInBundle); what HAF had under a key when the
\* request was let through is not sent again unless the lookup failed, and already_landed is
\* answered of what HAF has (idempotency.ts).
THEOREM CustodyHolds ==
    ASSUME Custody!CustodyAssumption
    PROVE  Custody!Spec => []BroadcastOnce
  <1>1. CustodyInv => BroadcastOnce
    <2>1. SUFFICES ASSUME CustodyInv
                   PROVE  BroadcastOnce
      OBVIOUS
    <2>2. Custody!OwnProof
      BY <2>1 DEF CustodyInv, Custody!OwnProof, Held, Rightly, Distinct, Apart
    <2>3. Custody!Dedup
      BY <2>1 DEF CustodyInv, Custody!Dedup, Sends, Claims, Custody!Indexed
    <2> QED
      BY <2>2, <2>3 DEF Custody!SentOnce, BroadcastOnce
  <1> QED
    BY <1>1, CustodyInvariant, PTL

(***************************************************************************)
(* What a handler stands behind: rate limits and signed requests.          *)
(***************************************************************************)

\* An instance has a copy of the standard operators of its own.
LEMMA GateCardinality ==
    /\ \A S : Gate!Cardinality(S) = Cardinality(S)
    /\ \A S : Gate!IsFiniteSet(S) = IsFiniteSet(S)
  BY DEF Gate!Cardinality, Cardinality, Gate!IsFiniteSet, IsFiniteSet

(***************************************************************************)
(* Rate limits and signed requests: the inductive invariant.               *)
(***************************************************************************)

\* Where a signature is claimed and checked, and where a slot has been taken.
Claiming == {"claim", "reply", "check"}
Served == {"handle", "done", "closed"}

\* A claimed header is one; what was accepted is past the check.
Signs ==
  \A r \in Call :
    /\ qReq[r].at \in Claiming => Signed[r] \in Header
    /\ qReq[r].accepted => Signed[r] \in Header /\ qReq[r].at \notin Claiming \cup {"new"}

\* A request that may be accepted yet or was, and one that has claimed a header in Redis.
Contends(r) == qReq[r].at = "check" \/ qReq[r].accepted
Wins(r) == qReq[r].at = "reply" /\ qReq[r].won

\* One request at a time gets as far as the check, and one that claimed a header in Redis
\* beside it, or beside another, finds it in memory.
OneContends ==
  \A q, r \in Call :
    q # r /\ Signed[q] = Signed[r] /\ Signed[r] \in Header \ qExcused =>
      /\ ~(Contends(q) /\ Contends(r))
      /\ (Contends(q) \/ Wins(q)) /\ Wins(r) => Signed[r] \in qHeard

\* A header that was accepted is in memory, or died with it, or is too old to be claimed.
Remembered ==
  \A r \in Call : qReq[r].accepted =>
    \/ Signed[r] \in qHeard \cup qDropped
    \/ Signed[r] \notin qFresh /\ \A q \in Call : Signed[q] = Signed[r] => qReq[q].at \notin Claiming

\* A slot is taken on the way to the handler, and given back when the answer is known.
Seats ==
  \A r \in Call :
    /\ qReq[r].tier # None <=> qReq[r].tier \in {"redis", "memory"}
    /\ qReq[r].tier # None => qReq[r].at \in Served \cup {"dead"}
    /\ qReq[r].at \in Served => qReq[r].tier # None /\ (qReq[r].open => ~qReq[r].deaf)
    /\ qReq[r].era <= qEra
    /\ qReq[r].open => (qReq[r].refunded <=> qReq[r].at \in {"done", "closed"}) \/ qReq[r].at = "dead"

\* A request is in memory once.
OnceEach == \A i, j \in DOMAIN qStamps : i # j => qStamps[i] # qStamps[j]

GateInv ==
  Gate!TypeOK /\ Signs /\ OneContends /\ Remembered
  /\ Seats /\ OnceEach /\ IsFiniteSet(Gate!Holders) /\ Gate!SlotsBalance

\* A timestamp taken out of a list in which each occurs once.
LEMMA Removal ==
    ASSUME NEW S, NEW s \in Seq(S), NEW e,
           \A i, j \in DOMAIN s : i # j => s[i] # s[j]
    PROVE  LET t == Gate!RemoveFirst(s, e) IN
           /\ t \in Seq(S)
           /\ \A i, j \in DOMAIN t : i # j => t[i] # t[j]
           /\ \A i \in DOMAIN t : t[i] # e /\ \E j \in DOMAIN s : t[i] = s[j]
  <1> DEFINE t == Gate!RemoveFirst(s, e)
  <1>1. CASE ~\E i \in 1..Len(s) : s[i] = e
    <2>1. t = s
      BY <1>1 DEF Gate!RemoveFirst
    <2> QED
      BY <1>1, <2>1
  <1>2. CASE \E i \in 1..Len(s) : s[i] = e
    <2> DEFINE I == {i \in 1..Len(s) : s[i] = e}
    <2>1. PICK i \in 1..Len(s) : s[i] = e
      BY <1>2
    <2>2. I = {i}
      BY <2>1
    <2>3. Gate!Min(I) = i
      BY <2>2 DEF Gate!Min
    <2>4. t = SubSeq(s, 1, i - 1) \o SubSeq(s, i + 1, Len(s))
      BY <1>2, <2>2, <2>3 DEF Gate!RemoveFirst, Gate!SelectInSeq, Gate!RemoveAt
    <2> DEFINE u == SubSeq(s, 1, i - 1)
               v == SubSeq(s, i + 1, Len(s))
    <2>5. /\ u \in Seq(S) /\ Len(u) = i - 1 /\ \A k \in 1..Len(u) : u[k] = s[k]
          /\ v \in Seq(S) /\ Len(v) = Len(s) - i /\ \A k \in 1..Len(v) : v[k] = s[i + k]
      BY <2>1
    <2>6. t = u \o v
      BY <2>4
    <2> HIDE DEF u, v, t
    <2> DEFINE from(k) == IF k < i THEN k ELSE k + 1
    <2>7. t \in Seq(S) /\ Len(t) = Len(s) - 1
      <3>1. t \in Seq(S) /\ Len(t) = Len(u) + Len(v)
        BY <2>5, <2>6, ConcatProperties
      <3> QED
        BY <3>1, <2>5, <2>1
    <2>8. DOMAIN t = 1..(Len(s) - 1) /\ DOMAIN s = 1..Len(s) /\ Len(s) \in Nat
      BY <2>7
    <2>9. ASSUME NEW k \in DOMAIN t
          PROVE  from(k) \in DOMAIN s /\ from(k) # i /\ t[k] = s[from(k)]
      <3>1. from(k) \in DOMAIN s /\ from(k) # i
        BY <2>8, <2>1
      <3>2. CASE k < i
        <4>1. k \in 1..Len(u)
          BY <3>2, <2>5, <2>8, <2>1
        <4> QED
          BY <4>1, <3>1, <3>2, <2>5, <2>6
      <3>3. CASE ~(k < i)
        <4>1. k - Len(u) \in 1..Len(v) /\ k = Len(u) + (k - Len(u))
          BY <3>3, <2>5, <2>8, <2>1
        <4>2. t[k] = v[k - Len(u)]
          BY SMTT(30), <4>1, <2>5, <2>6
        <4>3. i + (k - Len(u)) = k + 1
          BY <2>5, <2>8, <2>1
        <4> QED
          BY <4>1, <4>2, <4>3, <3>1, <3>3, <2>5
      <3> QED
        BY <3>2, <3>3
    <2>10. \A k, l \in DOMAIN t : k # l => from(k) # from(l)
      BY <2>8, <2>1
    <2> HIDE DEF from
    <2>11. \A k, l \in DOMAIN t : k # l => t[k] # t[l]
      BY <2>9, <2>10
    <2>12. \A k \in DOMAIN t : t[k] # e /\ \E j \in DOMAIN s : t[k] = s[j]
      BY <2>9, <2>8, <2>1
    <2> QED
      BY <2>7, <2>11, <2>12 DEF t
  <1> QED
    BY <1>1, <1>2

(***************************************************************************)
(* Rate limits and signed requests: the signature.                         *)
(***************************************************************************)

\* What a request is.
LEMMA GateRequestHolds ==
    ASSUME Gate!TypeOK, NEW r \in Call
    PROVE  /\ qReq[r] \in Gate!Request /\ qReq[r].at \in Gate!Stage /\ qReq[r].won \in BOOLEAN
           /\ qReq[r].accepted \in BOOLEAN /\ qReq[r].tier \in {"redis", "memory", None}
           /\ qReq[r].era \in Nat /\ qReq[r].open \in BOOLEAN /\ qReq[r].deaf \in BOOLEAN
           /\ qReq[r].status \in Nat /\ qReq[r].refunded \in BOOLEAN
  BY DEF Gate!TypeOK, Gate!Request

\* A request that goes to another stage.
LEMMA Goes ==
    ASSUME Gate!TypeOK, NEW r \in Call, NEW stage \in Gate!Stage, Gate!To(r, stage)
    PROVE  /\ qReq' \in [Call -> Gate!Request] /\ qReq'[r].at = stage
           /\ qReq'[r].won = qReq[r].won /\ qReq'[r].accepted = qReq[r].accepted
           /\ qReq'[r].tier = qReq[r].tier /\ qReq'[r].era = qReq[r].era
           /\ qReq'[r].open = qReq[r].open /\ qReq'[r].deaf = qReq[r].deaf
           /\ qReq'[r].status = qReq[r].status /\ qReq'[r].refunded = qReq[r].refunded
           /\ \A q \in Call \ {r} : qReq'[q] = qReq[q]
  BY DEF Gate!TypeOK, Gate!Request, Gate!To

\* A step that claims, checks and accepts nothing.
Unclaimed ==
  /\ \A r \in Call : /\ qReq'[r].accepted = qReq[r].accepted /\ qReq'[r].won = qReq[r].won
                     /\ qReq'[r].at \in Claiming \cup {"new"} => qReq'[r].at = qReq[r].at
  /\ UNCHANGED <<qHeard, qDropped, qExcused>>
  /\ qFresh' \subseteq qFresh

\* A step that claims no header keeps what is known of them.
LEMMA UnclaimedKeeps ==
    ASSUME Signs, OneContends, Remembered, Unclaimed
    PROVE  Signs' /\ OneContends' /\ Remembered'
  BY DEF Signs, OneContends, Remembered, Unclaimed, Claiming, Contends, Wins

\* The fallback to memory.
LEMMA FallBackKeeps ==
    ASSUME Gate!GateAssumption, Gate!TypeOK, Signs, OneContends, Remembered, NEW r \in Call,
           qReq[r].at \in {"new", "claim"}, Signed[r] \in Header,
           qReq[r].at = "new" => Signed[r] \in qFresh, Gate!FallBack(r)
    PROVE  Signs' /\ OneContends' /\ Remembered'
  <1> USE DEF Claiming, Contends, Wins
  <1>1. CASE Signed[r] \in qHeard
    <2>1. /\ qReq' = [qReq EXCEPT ![r].at = "refused"]
          /\ UNCHANGED <<qHeard, qExcused, qFresh, qDropped>>
      BY <1>1 DEF Gate!FallBack, Gate!To
    <2> QED
      BY <2>1, UnclaimedKeeps DEF Unclaimed, Gate!TypeOK, Gate!Request
  <1>2. CASE Signed[r] \notin qHeard
    <2> DEFINE s == Signed[r]
    <2>1. Gate!To(r, "check") /\ UNCHANGED <<qFresh, qDropped>>
      BY <1>2 DEF Gate!FallBack
    <2>2. qHeard' = qHeard \cup {s}
      BY <1>2 DEF Gate!FallBack
    <2>3. s \notin qExcused' => s \notin qExcused /\ s \notin qDropped /\ ~Gate!Checking(r)
      BY <1>2 DEF Gate!FallBack
    <2>4. \A t \in Header : t \notin qExcused' => t \notin qExcused
      BY <1>2 DEF Gate!FallBack
    <2>5. /\ qReq'[r].at = "check" /\ qReq'[r].won = qReq[r].won /\ qReq'[r].accepted = qReq[r].accepted
          /\ \A q \in Call \ {r} : qReq'[q] = qReq[q]
      BY <2>1, Goes DEF Gate!Stage
    <2>6. ~qReq[r].accepted
      BY DEF Signs
    <2>7. Signs'
      BY <2>5, <2>6 DEF Signs
    <2>8. s \notin qExcused' => \A q \in Call \ {r} : Signed[q] = s => ~Contends(q)
      <3> SUFFICES ASSUME s \notin qExcused', NEW q \in Call \ {r}, Signed[q] = s, qReq[q].accepted
                   PROVE  FALSE
        BY <2>3 DEF Gate!Checking
      <3> QED
        BY <1>2, <2>3 DEF Remembered
    <2>9. OneContends'
      <3> SUFFICES ASSUME NEW p \in Call, NEW q \in Call, p # q, Signed[p] = Signed[q],
                          Signed[q] \in Header \ qExcused'
                   PROVE  /\ ~(Contends(p) /\ Contends(q))'
                          /\ ((Contends(p) \/ Wins(p)) /\ Wins(q))' => Signed[q] \in qHeard'
        BY DEF OneContends
      <3>1. CASE p = r
        BY <3>1, <2>2, <2>5, <2>8
      <3>2. CASE q = r
        BY <3>2, <2>2, <2>5, <2>8
      <3>3. CASE p # r /\ q # r
        BY <3>3, <2>2, <2>4, <2>5 DEF OneContends
      <3> QED
        BY <3>1, <3>2, <3>3
    <2>10. Remembered'
      <3> SUFFICES ASSUME NEW q \in Call, qReq'[q].accepted
                   PROVE  \/ Signed[q] \in (qHeard \cup qDropped)'
                          \/ Signed[q] \notin qFresh' /\ \A p \in Call : Signed[p] = Signed[q] => qReq'[p].at \notin Claiming
        BY DEF Remembered
      <3>1. qReq[q].accepted
        BY <2>5
      <3>2. CASE Signed[q] = s
        BY <3>2, <2>2
      <3>3. CASE Signed[q] # s
        BY <3>1, <3>3, <2>1, <2>2, <2>5 DEF Remembered
      <3> QED
        BY <3>2, <3>3
    <2> QED
      BY <2>7, <2>9, <2>10
  <1> QED
    BY <1>1, <1>2

\* The claim in Redis.
LEMMA ClaimKeeps ==
    ASSUME Gate!GateAssumption, Gate!TypeOK, Signs, OneContends, Remembered, NEW r \in Call,
           qReq[r].at = "claim", Gate!SetNx(r),
           \/ qReq' = [qReq EXCEPT ![r].at = "reply", ![r].won = Signed[r] \notin qSeen]
           \/ UNCHANGED qReq
    PROVE  Signs' /\ OneContends' /\ Remembered'
  <1> USE DEF Claiming, Contends, Wins
  <1> DEFINE s == Signed[r]
  <1>1. s \in Header /\ ~qReq[r].accepted
    BY DEF Signs
  <1>2. UNCHANGED <<qFresh, qHeard, qDropped>> /\ \A t \in Header : t \notin qExcused' => t \notin qExcused
    BY DEF Gate!SetNx
  <1>3. /\ \A q \in Call \ {r} : qReq'[q] = qReq[q]
        /\ qReq'[r].accepted = qReq[r].accepted
        /\ \/ qReq'[r].at = "reply" /\ (qReq'[r].won => s \notin qSeen)
           \/ qReq'[r] = qReq[r]
    BY DEF Gate!TypeOK, Gate!Request
  <1>4. Signs'
    BY <1>1, <1>3 DEF Signs
  <1>5. Remembered'
    BY <1>1, <1>2, <1>3 DEF Remembered
  <1>6. Wins(r)' /\ s \notin qExcused' /\ s \notin qHeard =>
          \A q \in Call \ {r} : Signed[q] = s => ~Contends(q) /\ ~Wins(q)
    <2> SUFFICES ASSUME Wins(r)', s \notin qExcused', s \notin qHeard, NEW q \in Call \ {r}, Signed[q] = s
                 PROVE  ~Contends(q) /\ ~Wins(q)
      OBVIOUS
    <2>1. s \notin qSeen \cup qHeard
      BY <1>3
    <2>2. s \notin qDropped /\ ~Gate!Checking(r) /\ ~Gate!Winning(r)
      BY <2>1 DEF Gate!SetNx
    <2>3. ~qReq[q].accepted
      BY <2>1, <2>2 DEF Remembered
    <2> QED
      BY <2>2, <2>3 DEF Gate!Checking, Gate!Winning
  <1>7. OneContends'
    <2> SUFFICES ASSUME NEW p \in Call, NEW q \in Call, p # q, Signed[p] = Signed[q],
                        Signed[q] \in Header \ qExcused'
                 PROVE  /\ ~(Contends(p) /\ Contends(q))'
                        /\ ((Contends(p) \/ Wins(p)) /\ Wins(q))' => Signed[q] \in qHeard'
      BY DEF OneContends
    <2>1. CASE p = r
      BY <2>1, <1>1, <1>2, <1>3, <1>6
    <2>2. CASE q = r
      BY <2>2, <1>1, <1>2, <1>3, <1>6
    <2>3. CASE p # r /\ q # r
      BY <2>3, <1>2, <1>3 DEF OneContends
    <2> QED
      BY <2>1, <2>2, <2>3
  <1> QED
    BY <1>4, <1>5, <1>7

\* The steps of a signature.
LEMMA SignatureStep ==
    ASSUME Gate!GateAssumption, Gate!TypeOK, Signs, OneContends, Remembered, NEW r \in Call,
           Gate!Arrive(r) \/ Gate!Claim(r) \/ Gate!ClaimUnheard(r) \/ Gate!ClaimThrows(r) \/ Gate!Replied(r) \/ Gate!Check(r)
    PROVE  Signs' /\ OneContends' /\ Remembered'
  <1> USE DEF Claiming, Contends, Wins
  <1>1. CASE Gate!Arrive(r)
    <2>1. CASE Signed[r] = None /\ Gate!To(r, "limit") /\ UNCHANGED Gate!signatureVars
      BY <1>1, <2>1, UnclaimedKeeps, Goes DEF Unclaimed, Gate!signatureVars, Gate!Stage
    <2>2. CASE Gate!To(r, "refused") /\ UNCHANGED Gate!signatureVars
      BY <2>2, UnclaimedKeeps, Goes DEF Unclaimed, Gate!signatureVars, Gate!Stage
    <2>3. CASE Signed[r] \in qFresh /\ qUp /\ Gate!To(r, "claim") /\ UNCHANGED Gate!signatureVars
      <3>1. /\ qReq'[r].at = "claim" /\ qReq'[r].won = qReq[r].won /\ qReq'[r].accepted = qReq[r].accepted
            /\ \A q \in Call \ {r} : qReq'[q] = qReq[q]
        BY <2>3, Goes DEF Gate!Stage
      <3>2. Signed[r] \in Header
        BY <2>3 DEF Gate!TypeOK
      <3>3. ~qReq[r].accepted
        BY <1>1 DEF Gate!Arrive, Signs
      <3>4. Signs'
        BY <3>1, <3>2, <3>3 DEF Signs
      <3>5. OneContends'
        BY <2>3, <3>1, <3>3 DEF OneContends, Gate!signatureVars
      <3>6. Remembered'
        BY <2>3, <3>1, <3>3 DEF Remembered, Gate!signatureVars
      <3> QED
        BY <3>4, <3>5, <3>6
    <2>4. CASE Signed[r] \in qFresh /\ ~qUp /\ Gate!FallBack(r)
      BY <1>1, <2>4, FallBackKeeps DEF Gate!Arrive, Gate!TypeOK
    <2> QED
      BY <1>1, <2>1, <2>2, <2>3, <2>4 DEF Gate!Arrive
  <1>2. CASE Gate!Claim(r)
    BY <1>2, ClaimKeeps DEF Gate!Claim
  <1>3. CASE Gate!ClaimUnheard(r)
    BY <1>3, ClaimKeeps DEF Gate!ClaimUnheard
  <1>4. CASE Gate!ClaimThrows(r)
    BY <1>4, FallBackKeeps DEF Gate!ClaimThrows, Signs
  <1>5. CASE Gate!Replied(r)
    <2>1. CASE Gate!IsReplay(r)
      <3>1. Gate!To(r, "refused") /\ UNCHANGED Gate!signatureVars
        BY <1>5, <2>1 DEF Gate!Replied
      <3> QED
        BY <3>1, UnclaimedKeeps, Goes DEF Unclaimed, Gate!signatureVars, Gate!Stage
    <2>2. CASE ~Gate!IsReplay(r)
      <3>1. Gate!To(r, "check") /\ UNCHANGED Gate!signatureVars
        BY <1>5, <2>2 DEF Gate!Replied
      <3>2. /\ qReq'[r].at = "check" /\ qReq'[r].won = qReq[r].won /\ qReq'[r].accepted = qReq[r].accepted
            /\ \A q \in Call \ {r} : qReq'[q] = qReq[q]
        BY <3>1, Goes DEF Gate!Stage
      <3>3. Wins(r) /\ Signed[r] \notin qHeard /\ Signed[r] \in Header /\ ~qReq[r].accepted
        BY <1>5, <2>2 DEF Gate!IsReplay, Gate!Replied, Signs
      <3>4. Signs'
        BY <3>2, <3>3 DEF Signs
      <3>5. Signed[r] \notin qExcused => \A q \in Call \ {r} : Signed[q] = Signed[r] => ~Contends(q) /\ ~Wins(q)
        BY <3>3 DEF OneContends
      <3>6. OneContends'
        <4> SUFFICES ASSUME NEW p \in Call, NEW q \in Call, p # q, Signed[p] = Signed[q],
                            Signed[q] \in Header \ qExcused'
                     PROVE  /\ ~(Contends(p) /\ Contends(q))'
                            /\ ((Contends(p) \/ Wins(p)) /\ Wins(q))' => Signed[q] \in qHeard'
          BY DEF OneContends
        <4>1. CASE p = r
          BY <4>1, <3>1, <3>2, <3>5 DEF Gate!signatureVars
        <4>2. CASE q = r
          BY <4>2, <3>1, <3>2, <3>5 DEF Gate!signatureVars
        <4>3. CASE p # r /\ q # r
          BY <4>3, <3>1, <3>2 DEF OneContends, Gate!signatureVars
        <4> QED
          BY <4>1, <4>2, <4>3
      <3>7. Remembered'
        <4> SUFFICES ASSUME NEW q \in Call, qReq'[q].accepted
                     PROVE  \/ Signed[q] \in (qHeard \cup qDropped)'
                            \/ Signed[q] \notin qFresh' /\ \A p \in Call : Signed[p] = Signed[q] => qReq'[p].at \notin Claiming
          BY DEF Remembered
        <4>1. qReq[q].accepted
          BY <3>2
        <4> QED
          BY <4>1, <3>1, <3>2, <3>3 DEF Remembered, Gate!signatureVars
      <3> QED
        BY <3>4, <3>6, <3>7
    <2> QED
      BY <2>1, <2>2
  <1>6. CASE Gate!Check(r)
    <2>1. CASE Gate!To(r, "refused") /\ UNCHANGED Gate!signatureVars
      BY <2>1, UnclaimedKeeps, Goes DEF Unclaimed, Gate!signatureVars, Gate!Stage
    <2>2. CASE /\ qReq' = [qReq EXCEPT ![r].at = "limit", ![r].accepted = TRUE]
               /\ qHeard' = qHeard \cup {Signed[r]} /\ UNCHANGED <<qFresh, qSeen, qDropped, qExcused>>
      <3>1. /\ qReq'[r].at = "limit" /\ qReq'[r].accepted
            /\ \A q \in Call \ {r} : qReq'[q] = qReq[q]
        BY <2>2 DEF Gate!TypeOK, Gate!Request
      <3>2. Signed[r] \in Header /\ Contends(r)
        BY <1>6 DEF Gate!Check, Signs
      <3>3. Signs'
        BY <3>1, <3>2 DEF Signs
      <3>4. OneContends'
        BY ZenonT(40), <2>2, <3>1, <3>2 DEF OneContends
      <3>5. Remembered'
        BY <2>2, <3>1 DEF Remembered
      <3> QED
        BY <3>3, <3>4, <3>5
    <2> QED
      BY <1>6, <2>1, <2>2 DEF Gate!Check
  <1> QED
    BY <1>1, <1>2, <1>3, <1>4, <1>5, <1>6

(***************************************************************************)
(* Rate limits and signed requests: the slots.                             *)
(***************************************************************************)

Slots == Seats /\ OnceEach /\ IsFiniteSet(Gate!Holders) /\ Gate!SlotsBalance

\* The steps that take and give back nothing.
Unseated ==
  /\ \A r \in Call : /\ qReq'[r].tier = qReq[r].tier /\ qReq'[r].era = qReq[r].era
                     /\ qReq'[r].open = qReq[r].open /\ qReq'[r].deaf = qReq[r].deaf
                     /\ qReq'[r].status = qReq[r].status /\ qReq'[r].refunded = qReq[r].refunded
                     /\ \/ qReq'[r].at = qReq[r].at
                        \/ {qReq[r].at, qReq'[r].at} \cap (Served \cup {"dead"}) = {}
  /\ UNCHANGED Gate!windowVars

\* A step that takes and gives back no slot keeps the balance.
LEMMA UnseatedKeeps ==
    ASSUME Gate!TypeOK, Slots, Unseated
    PROVE  Slots'
  <1> USE DEF Served
  <1>1. Seats'
    BY ZenonT(40) DEF Slots, Seats, Unseated, Gate!windowVars
  <1>2. \A r \in Call : qReq[r].tier # None => Gate!GivenBack(r)' = Gate!GivenBack(r) /\ qReq'[r].at = qReq[r].at
    BY ZenonT(40) DEF Slots, Seats, Unseated, Gate!windowVars, Gate!GivenBack
  <1>3. Gate!Holders' = Gate!Holders
    <2>1. \A r \in Call : qReq[r].tier = "redis" => qReq[r].tier # None
      BY DEF Slots, Seats
    <2> QED
      BY <1>2, <2>1 DEF Unseated, Gate!windowVars, Gate!Holders
  <1>4. \A r \in Gate!ToSet(qStamps) : r \in Call /\ qReq[r].tier # None
    BY DEF Gate!TypeOK, Slots, Seats, Gate!SlotsBalance, Gate!ToSet
  <1>5. Gate!ToSet(qStamps') = Gate!ToSet(qStamps)
    BY DEF Unseated, Gate!windowVars
  <1>6. Gate!SlotsBalance'
    <2>1. qCount' = Cardinality(Gate!Holders') + qLeaked' - qLate' /\ qCount' <= qLimiter'.max
      BY GateCardinality, <1>3 DEF Slots, Gate!SlotsBalance, Unseated, Gate!windowVars
    <2>2. \A r \in Gate!ToSet(qStamps)' : (qReq[r].tier = "memory" /\ ~Gate!GivenBack(r))'
      BY <1>2, <1>4, <1>5 DEF Slots, Gate!SlotsBalance, Unseated
    <2> QED
      BY GateCardinality, <2>1, <2>2 DEF Gate!SlotsBalance
  <1>7. OnceEach'
    BY DEF Slots, OnceEach, Unseated, Gate!windowVars
  <1> QED
    BY <1>1, <1>3, <1>6, <1>7 DEF Slots

\* What one request does to the set of those who hold a slot.
LEMMA OneMoves ==
    ASSUME NEW H, NEW J, NEW r, IsFiniteSet(H), H \ {r} = J \ {r}
    PROVE  /\ IsFiniteSet(J) /\ Cardinality(J) \in Nat /\ Cardinality(H) \in Nat
           /\ (r \in H <=> r \in J) => Cardinality(J) = Cardinality(H)
           /\ r \in H /\ r \notin J => Cardinality(J) = Cardinality(H) - 1
           /\ r \notin H /\ r \in J => Cardinality(J) = Cardinality(H) + 1
  <1>1. CASE r \in H <=> r \in J
    <2>1. H = J
      BY <1>1
    <2> QED
      BY <2>1, FS_CardinalityType
  <1>2. CASE r \in H /\ r \notin J
    <2>1. J = H \ {r}
      BY <1>2
    <2> QED
      BY <1>2, <2>1, FS_RemoveElement, FS_CardinalityType
  <1>3. CASE r \notin H /\ r \in J
    <2>1. J = H \cup {r}
      BY <1>3
    <2> QED
      BY <1>3, <2>1, FS_AddElement, FS_CardinalityType
  <1> QED
    BY <1>1, <1>2, <1>3

\* What is held while nobody else moves.
LEMMA OthersHold ==
    ASSUME Gate!TypeOK, NEW r \in Call, \A q \in Call \ {r} : qReq'[q] = qReq[q],
           UNCHANGED <<qLimiter, qEra>>
    PROVE  /\ Gate!Holders \ {r} = Gate!Holders' \ {r}
           /\ \A q \in Call \ {r} : Gate!GivenBack(q)' = Gate!GivenBack(q)
  BY DEF Gate!Holders, Gate!GivenBack

\* A slot is given back when the answer says so, or when the connection is gone before it.
LEMMA RefundKeeps ==
    ASSUME Gate!GateAssumption, Gate!TypeOK, Slots, NEW r \in Call, NEW status \in Nat, NEW ended \in BOOLEAN,
           qReq[r].at = "handle", qReq[r].open, Gate!Refund(r, status, ended),
           \A q \in Call \ {r} : qReq'[q] = qReq[q],
           qReq'[r].tier = qReq[r].tier, qReq'[r].era = qReq[r].era, qReq'[r].at # "dead",
           Gate!GivenBack(r)' <=> Gate!ShouldRefund(status, ended)
    PROVE  /\ OnceEach' /\ IsFiniteSet(Gate!Holders)' /\ Gate!SlotsBalance' /\ UNCHANGED <<qLimiter, qEra>>
           /\ qStamps' \in Seq(Call) /\ qCount' \in Int /\ qLeaked' \in Nat /\ qLate' \in Nat
           /\ qPrimed' \in BOOLEAN /\ qFaults' \in 0..MaxFaults
  <1>1. /\ qReq[r].tier \in {"redis", "memory"} /\ ~qReq[r].deaf /\ ~qReq[r].refunded
        /\ ~Gate!GivenBack(r)
    BY DEF Slots, Seats, Gate!GivenBack, Served
  <1>2. UNCHANGED <<qLimiter, qEra>>
    BY DEF Gate!Refund, Gate!windowVars
  <1>3. /\ Gate!Holders \ {r} = Gate!Holders' \ {r}
        /\ \A q \in Call \ {r} : Gate!GivenBack(q)' = Gate!GivenBack(q)
    BY <1>2, OthersHold
  <1>4. /\ r \in Gate!Holders <=> qReq[r].tier = "redis" /\ qReq[r].era = qEra
        /\ r \in Gate!Holders' <=> qReq[r].tier = "redis" /\ qReq[r].era = qEra /\ ~Gate!ShouldRefund(status, ended)
    BY <1>1, <1>2 DEF Gate!Holders
  <1>5. qCount = Cardinality(Gate!Holders) + qLeaked - qLate /\ qCount <= qLimiter.max
    BY GateCardinality DEF Slots, Gate!SlotsBalance
  <1>6. /\ qCount \in Int /\ qLeaked \in Nat /\ qLate \in Nat /\ qLimiter.max \in Nat
        /\ qStamps \in Seq(Call) /\ qPrimed \in BOOLEAN /\ qFaults \in 0..MaxFaults
    BY DEF Gate!TypeOK, Gate!GateAssumption, Gate!Limiters
  <1>7. IsFiniteSet(Gate!Holders)
    BY DEF Slots
  <1>8. \A q \in Gate!ToSet(qStamps) : q \in Call /\ qReq[q].tier = "memory" /\ ~Gate!GivenBack(q)
    BY DEF Gate!TypeOK, Slots, Gate!SlotsBalance, Gate!ToSet
  <1>9. "redis" # "memory"
    OBVIOUS
  <1>10. CASE ~Gate!ShouldRefund(status, ended)
    <2>1. UNCHANGED <<Gate!windowVars, qFaults>>
      BY <1>10 DEF Gate!Refund
    <2>2. Gate!Holders' = Gate!Holders
      BY <1>3, <1>4, <1>10
    <2>3. \A q \in Gate!ToSet(qStamps) : (qReq[q].tier = "memory" /\ ~Gate!GivenBack(q))'
      BY <1>3, <1>8, <1>10
    <2>4. Gate!SlotsBalance'
      BY GateCardinality, <1>5, <2>1, <2>2, <2>3 DEF Gate!SlotsBalance, Gate!windowVars
    <2> QED
      BY <1>2, <1>6, <1>7, <2>1, <2>2, <2>4 DEF Slots, OnceEach, Gate!windowVars
  <1>11. CASE Gate!ShouldRefund(status, ended) /\ qReq[r].tier = "memory"
    <2>1. /\ qStamps' = Gate!RemoveFirst(qStamps, r)
          /\ UNCHANGED <<qCount, qPrimed, qLeaked, qLate, qFaults>>
      BY <1>1, <1>11 DEF Gate!Refund
    <2>2. Gate!Holders' = Gate!Holders
      BY <1>3, <1>4, <1>9, <1>11
    <2>3. /\ qStamps' \in Seq(Call) /\ OnceEach'
          /\ \A i \in DOMAIN qStamps' : qStamps'[i] # r /\ \E j \in DOMAIN qStamps : qStamps'[i] = qStamps[j]
      BY <1>6, <2>1, Removal DEF Slots, OnceEach
    <2>4. \A q \in Gate!ToSet(qStamps') : q # r /\ q \in Gate!ToSet(qStamps)
      BY <2>3 DEF Gate!ToSet
    <2>5. \A q \in Gate!ToSet(qStamps') : (qReq[q].tier = "memory" /\ ~Gate!GivenBack(q))'
      BY <1>3, <1>8, <2>4
    <2>6. Gate!SlotsBalance'
      BY GateCardinality, <1>2, <1>5, <2>1, <2>2, <2>5 DEF Gate!SlotsBalance
    <2> QED
      BY <1>2, <1>6, <1>7, <2>1, <2>2, <2>3, <2>6
  <1>12. CASE Gate!ShouldRefund(status, ended) /\ qReq[r].tier = "redis"
    <2>1. PICK n \in {0, 1, 2} : Gate!Decr(r, n) /\ UNCHANGED qStamps /\ qFaults' \in 0..MaxFaults
      <3>1. UNCHANGED qStamps
        BY <1>1, <1>9, <1>12 DEF Gate!Refund
      <3>2. \/ Gate!Decr(r, 1) /\ UNCHANGED qFaults
            \/ \E n \in {0, 2} : Gate!Decr(r, n) /\ Gate!Fault
        BY <1>1, <1>9, <1>12 DEF Gate!Refund
      <3>3. Gate!Fault => qFaults' \in 0..MaxFaults
        BY <1>6 DEF Gate!Fault, Gate!GateAssumption
      <3> QED
        BY <1>6, <3>1, <3>2, <3>3
    <2> DEFINE own == qReq[r].era = qEra
    <2>2. /\ qCount' = qCount - n /\ qPrimed' = qPrimed
          /\ qLate' = qLate + (IF own /\ n > 0 THEN n - 1 ELSE n)
          /\ qLeaked' = qLeaked + (IF own /\ n = 0 THEN 1 ELSE 0)
      BY <2>1 DEF Gate!Decr
    <2>3. qCount' \in Int /\ qLeaked' \in Nat /\ qLate' \in Nat
      BY <1>6, <2>2
    <2>4. IsFiniteSet(Gate!Holders') /\ qCount' = Cardinality(Gate!Holders') + qLeaked' - qLate'
      <3>1. /\ IsFiniteSet(Gate!Holders') /\ Cardinality(Gate!Holders') \in Nat /\ Cardinality(Gate!Holders) \in Nat
            /\ own => Cardinality(Gate!Holders') = Cardinality(Gate!Holders) - 1
            /\ ~own => Cardinality(Gate!Holders') = Cardinality(Gate!Holders)
        BY <1>3, <1>4, <1>7, <1>12, OneMoves
      <3> HIDE DEF own
      <3>2. /\ qCount' = qCount - n
            /\ own => qLate' = qLate + (IF n > 0 THEN n - 1 ELSE n) /\ qLeaked' = qLeaked + (IF n = 0 THEN 1 ELSE 0)
            /\ ~own => qLate' = qLate + n /\ qLeaked' = qLeaked
        BY <1>6, <2>2 DEF own
      <3>3. CASE own
        <4>1. CASE n = 0
          <5>1. qCount' = qCount /\ qLate' = qLate /\ qLeaked' = qLeaked + 1
            BY <3>2, <3>3, <4>1, <1>6
          <5> QED
            BY <5>1, <3>1, <3>3, <1>5, <1>6
        <4>2. CASE n # 0
          <5>1. n \in {1, 2} /\ qLate' = qLate + (n - 1) /\ qLeaked' = qLeaked
            BY <2>1, <3>2, <3>3, <4>2, <1>6
          <5> QED
            BY <5>1, <3>1, <3>2, <3>3, <1>5, <1>6
        <4> QED
          BY <4>1, <4>2
      <3>4. CASE ~own
        BY <3>1, <3>2, <3>4, <1>5, <1>6
      <3> QED
        BY <3>3, <3>4
    <2>5. qCount' <= qLimiter.max
      BY <1>5, <1>6, <2>2
    <2>6. \A q \in Gate!ToSet(qStamps') : (qReq[q].tier = "memory" /\ ~Gate!GivenBack(q))'
      BY <1>3, <1>8, <1>9, <1>12, <2>1
    <2>7. Gate!SlotsBalance'
      BY GateCardinality, <1>2, <2>4, <2>5, <2>6 DEF Gate!SlotsBalance
    <2> QED
      BY <1>2, <1>6, <2>1, <2>2, <2>3, <2>4, <2>7 DEF Slots, OnceEach
  <1> QED
    BY <1>1, <1>10, <1>11, <1>12

\* The limiter lets a request through.
LEMMA TakeKeeps ==
    ASSUME Gate!GateAssumption, Gate!TypeOK, Slots, NEW r \in Call, NEW tier \in {"redis", "memory"},
           qReq[r].at = "limit", Gate!Take(r, tier), UNCHANGED <<qLimiter, qEra, qLate>>,
           tier = "redis" => qCount' = qCount + 1 /\ Gate!Passes /\ UNCHANGED <<qLeaked, qStamps>>,
           tier = "memory" => qStamps' = Append(qStamps, r) /\ UNCHANGED <<qCount, qLeaked>>
    PROVE  Slots'
  <1> USE DEF Served
  <1>1. /\ qReq'[r].at = "handle" /\ qReq'[r].tier = tier /\ qReq'[r].era = qEra
        /\ qReq'[r].deaf = ~qReq[r].open /\ qReq'[r].open = qReq[r].open
        /\ qReq'[r].refunded = qReq[r].refunded
        /\ \A q \in Call \ {r} : qReq'[q] = qReq[q]
    BY DEF Gate!Take, Gate!TypeOK, Gate!Request
  <1>2. qReq[r].tier = None /\ None \notin {"redis", "memory"}
    BY DEF Slots, Seats, Gate!GateAssumption
  <1>3. ~Gate!GivenBack(r)'
    BY <1>1, GateRequestHolds DEF Gate!GivenBack
  <1>4. /\ Gate!Holders \ {r} = Gate!Holders' \ {r}
        /\ \A q \in Call \ {r} : Gate!GivenBack(q)' = Gate!GivenBack(q)
    BY <1>1, OthersHold
  <1>5. r \notin Gate!Holders /\ (r \in Gate!Holders' <=> tier = "redis")
    BY <1>1, <1>2, <1>3 DEF Gate!Holders
  <1>6. Seats'
    <2>1. qEra \in Nat
      BY DEF Gate!TypeOK, Gate!GateAssumption
    <2> QED
      BY <1>1, <1>2, <2>1, GateRequestHolds DEF Slots, Seats
  <1>7. /\ IsFiniteSet(Gate!Holders)
        /\ qCount = Cardinality(Gate!Holders) + qLeaked - qLate /\ qCount <= qLimiter.max
        /\ qCount \in Int /\ qLeaked \in Nat /\ qLate \in Nat
        /\ qStamps \in Seq(Call)
    BY GateCardinality DEF Gate!TypeOK, Slots, Gate!SlotsBalance
  <1>8. \A q \in Gate!ToSet(qStamps) : q \in Call \ {r} /\ qReq[q].tier = "memory" /\ ~Gate!GivenBack(q)
    BY <1>2 DEF Gate!TypeOK, Slots, Gate!SlotsBalance, Gate!ToSet
  <1>9. CASE tier = "redis"
    <2>1. IsFiniteSet(Gate!Holders') /\ Cardinality(Gate!Holders') = Cardinality(Gate!Holders) + 1 /\ Cardinality(Gate!Holders) \in Nat
      BY <1>4, <1>5, <1>7, <1>9, OneMoves
    <2>2. qCount' = Cardinality(Gate!Holders') + qLeaked' - qLate' /\ qCount' <= qLimiter'.max
      BY <1>7, <1>9, <2>1 DEF Gate!Passes
    <2>3. \A q \in Gate!ToSet(qStamps)' : (qReq[q].tier = "memory" /\ ~Gate!GivenBack(q))'
      BY <1>1, <1>4, <1>8, <1>9
    <2>4. Gate!SlotsBalance'
      BY GateCardinality, <2>2, <2>3 DEF Gate!SlotsBalance
    <2> QED
      BY <1>6, <1>9, <2>1, <2>4 DEF Slots, OnceEach
  <1>10. CASE tier = "memory"
    <2>1. Gate!Holders' = Gate!Holders
      <3>1. r \notin Gate!Holders' /\ r \notin Gate!Holders
        BY <1>5, <1>10
      <3>2. Gate!Holders \ {r} = Gate!Holders /\ Gate!Holders' \ {r} = Gate!Holders'
        BY <3>1, Zenon
      <3> QED
        BY <1>4, <3>2
    <2>2. qStamps' = Append(qStamps, r) /\ UNCHANGED <<qCount, qLeaked, qLate, qLimiter>>
      BY <1>10
    <2>3. OnceEach'
      <3>1. \A i \in DOMAIN qStamps : qStamps[i] # r
        BY <1>8 DEF Gate!ToSet
      <3> QED
        BY <1>7, <2>2, <3>1 DEF Slots, OnceEach
    <2>4. \A q \in Gate!ToSet(qStamps)' : q = r \/ q \in Gate!ToSet(qStamps)
      BY <1>7, <2>2 DEF Gate!ToSet
    <2>5. \A q \in Gate!ToSet(qStamps)' : (qReq[q].tier = "memory" /\ ~Gate!GivenBack(q))'
      BY <1>1, <1>3, <1>4, <1>8, <1>10, <2>4
    <2>6. Gate!SlotsBalance'
      BY GateCardinality, <1>7, <2>1, <2>2, <2>5 DEF Gate!SlotsBalance
    <2> QED
      BY <1>6, <1>7, <2>1, <2>3, <2>6 DEF Slots
  <1> QED
    BY <1>9, <1>10

\* The answer, and the end of the connection before or after it.
LEMMA AnswerKeeps ==
    ASSUME Gate!GateAssumption, Gate!TypeOK, Slots, NEW r \in Call, NEW status \in Gate!Answers, Gate!Answer(r, status)
    PROVE  Gate!TypeOK' /\ Slots'
  <1> USE DEF Served
  <1>1. /\ qReq'[r].at = "done" /\ qReq'[r].tier = qReq[r].tier /\ qReq'[r].era = qReq[r].era
        /\ qReq'[r].deaf = qReq[r].deaf /\ qReq'[r].open = qReq[r].open /\ qReq'[r].status = status
        /\ qReq'[r].refunded = (qReq[r].open \/ qReq[r].refunded)
        /\ \A q \in Call \ {r} : qReq'[q] = qReq[q]
        /\ qReq' \in [Call -> Gate!Request]
    <2> DEFINE given == qReq[r].open \/ qReq[r].refunded
    <2>1. status \in Nat
      BY
         DEF Gate!Answers, Gate!ConfirmedAnswer, Gate!TimeoutAnswer, Gate!AmbiguousAnswer, Gate!FailedAnswer
    <2>2. given \in BOOLEAN
      OBVIOUS
    <2>3. qReq' = [qReq EXCEPT ![r].at = "done", ![r].status = status, ![r].refunded = given]
      BY DEF Gate!Answer
    <2> HIDE DEF given
    <2>4. /\ qReq'[r].at = "done" /\ qReq'[r].tier = qReq[r].tier /\ qReq'[r].era = qReq[r].era
          /\ qReq'[r].deaf = qReq[r].deaf /\ qReq'[r].open = qReq[r].open /\ qReq'[r].status = status
          /\ qReq'[r].refunded = given
          /\ \A q \in Call \ {r} : qReq'[q] = qReq[q]
          /\ qReq' \in [Call -> Gate!Request]
      <3>1. "done" \in Gate!Stage
        BY DEF Gate!Stage
      <3> DEFINE rec == [qReq[r] EXCEPT !.at = "done", !.status = status, !.refunded = given]
      <3>2. /\ rec \in Gate!Request
            /\ rec.at = "done" /\ rec.tier = qReq[r].tier /\ rec.era = qReq[r].era
            /\ rec.deaf = qReq[r].deaf /\ rec.open = qReq[r].open /\ rec.status = status
            /\ rec.refunded = given
        BY <2>1, <2>2, <3>1, GateRequestHolds DEF Gate!Request
      <3>3. qReq' = [qReq EXCEPT ![r] = rec]
        BY <2>3 DEF Gate!TypeOK
      <3> HIDE DEF rec
      <3> QED
        BY <3>2, <3>3 DEF Gate!TypeOK
    <2> QED
      BY <2>4 DEF given
  <1>2. qReq[r].at = "handle" /\ UNCHANGED <<Gate!signatureVars, qUp>>
    BY DEF Gate!Answer
  <1>3. CASE qReq[r].open
    <2>1. Gate!Refund(r, status, TRUE) /\ status \in Nat
      <3>1. status \in Nat
        BY
           DEF Gate!Answers, Gate!ConfirmedAnswer, Gate!TimeoutAnswer, Gate!AmbiguousAnswer, Gate!FailedAnswer
      <3> QED
        BY <1>3, <3>1 DEF Gate!Answer
    <2>2. ~qReq[r].deaf
      BY <1>2, <1>3 DEF Slots, Seats
    <2>3. Gate!GivenBack(r)' <=> Gate!ShouldRefund(status, TRUE)
      <3>1. qLimiter' = qLimiter
        BY <2>1 DEF Gate!Refund, Gate!windowVars
      <3> QED
        BY <1>1, <1>3, <2>1, <2>2, <3>1 DEF Gate!GivenBack, Gate!ShouldRefund
    <2>4. /\ OnceEach' /\ IsFiniteSet(Gate!Holders)' /\ Gate!SlotsBalance' /\ UNCHANGED <<qLimiter, qEra>>
          /\ qStamps' \in Seq(Call) /\ qCount' \in Int /\ qLeaked' \in Nat /\ qLate' \in Nat
          /\ qPrimed' \in BOOLEAN /\ qFaults' \in 0..MaxFaults
      BY <1>1, <1>2, <1>3, <2>1, <2>3, RefundKeeps
    <2>5. Seats'
      BY ZenonT(40), <1>1, <1>2, <1>3, <2>4 DEF Slots, Seats
    <2>6. Gate!TypeOK'
      BY <1>1, <1>2, <2>4 DEF Gate!TypeOK, Gate!signatureVars
    <2> QED
      BY <2>4, <2>5, <2>6 DEF Slots
  <1>4. CASE ~qReq[r].open
    <2>1. UNCHANGED <<Gate!windowVars, qFaults>>
      BY <1>4 DEF Gate!Answer
    <2>2. /\ Gate!Holders \ {r} = Gate!Holders' \ {r}
          /\ \A q \in Call \ {r} : Gate!GivenBack(q)' = Gate!GivenBack(q)
      BY <1>1, <2>1, OthersHold DEF Gate!windowVars
    <2>3. Gate!GivenBack(r)' = Gate!GivenBack(r)
      BY <1>1, <1>2, <1>4, <2>1 DEF Gate!GivenBack, Gate!windowVars
    <2>4. Gate!Holders' = Gate!Holders
      BY <1>1, <1>2, <2>1, <2>2, <2>3 DEF Gate!Holders, Gate!windowVars
    <2>5. \A q \in Gate!ToSet(qStamps)' : (qReq[q].tier = "memory" /\ ~Gate!GivenBack(q))'
      BY <1>1, <2>1, <2>2, <2>3 DEF Gate!TypeOK, Slots, Gate!SlotsBalance, Gate!ToSet, Gate!windowVars
    <2>6. Gate!SlotsBalance'
      BY <2>1, <2>4, <2>5 DEF Slots, Gate!SlotsBalance, Gate!windowVars
    <2>7. Seats'
      BY <1>1, <1>2, <1>4, <2>1, GateRequestHolds DEF Slots, Seats, Gate!windowVars
    <2>8. Gate!TypeOK'
      BY <1>1, <1>2, <2>1 DEF Gate!TypeOK, Gate!signatureVars, Gate!windowVars
    <2> QED
      BY <2>1, <2>4, <2>6, <2>7, <2>8 DEF Slots, OnceEach, Gate!windowVars
  <1> QED
    BY <1>3, <1>4

\* The client goes away before the answer: the slot is given back once.
LEMMA AbortKeeps ==
    ASSUME Gate!GateAssumption, Gate!TypeOK, Slots, NEW r \in Call, Gate!Abort(r)
    PROVE  Gate!TypeOK' /\ Slots'
  <1> USE DEF Served
  <1>1. /\ qReq'[r].at = qReq[r].at /\ qReq'[r].tier = qReq[r].tier /\ qReq'[r].era = qReq[r].era
        /\ qReq'[r].deaf = qReq[r].deaf /\ ~qReq'[r].open /\ qReq'[r].status = qReq[r].status
        /\ \A q \in Call \ {r} : qReq'[q] = qReq[q]
        /\ qReq' \in [Call -> Gate!Request]
    <2> DEFINE given == qReq[r].at = "handle"
    <2>1. given \in BOOLEAN
      OBVIOUS
    <2>2. qReq' = [qReq EXCEPT ![r].open = FALSE, ![r].refunded = given]
      BY DEF Gate!Abort
    <2> HIDE DEF given
    <2> QED
      BY ZenonT(40), <2>1, <2>2 DEF Gate!TypeOK, Gate!Request
  <1>2. qReq[r].open /\ UNCHANGED <<Gate!signatureVars, qUp>>
    BY DEF Gate!Abort
  <1>3. CASE qReq[r].at = "handle"
    <2>1. Gate!Refund(r, 200, FALSE)
      BY <1>3 DEF Gate!Abort
    <2>2. ~qReq[r].deaf
      BY <1>2, <1>3 DEF Slots, Seats
    <2>3. Gate!GivenBack(r)' <=> Gate!ShouldRefund(200, FALSE)
      <3>1. qLimiter' = qLimiter
        BY <2>1 DEF Gate!Refund, Gate!windowVars
      <3>2. qLimiter \in Gate!Limiters
        BY DEF Gate!TypeOK, Gate!GateAssumption
      <3>3. qLimiter.refundCodes \in SUBSET (201..599)
        BY <3>2 DEF Gate!Limiters
      <3>4. 200 \notin qLimiter.refundCodes
        BY <3>3
      <3> QED
        BY <1>1, <2>2, <3>1, <3>4 DEF Gate!GivenBack, Gate!ShouldRefund
    <2>4. /\ OnceEach' /\ IsFiniteSet(Gate!Holders)' /\ Gate!SlotsBalance' /\ UNCHANGED <<qLimiter, qEra>>
          /\ qStamps' \in Seq(Call) /\ qCount' \in Int /\ qLeaked' \in Nat /\ qLate' \in Nat
          /\ qPrimed' \in BOOLEAN /\ qFaults' \in 0..MaxFaults
      BY ZenonT(40), <1>1, <1>2, <1>3, <2>1, <2>3, RefundKeeps
    <2>5. Seats'
      BY <1>1, <1>2, <1>3, <2>4 DEF Slots, Seats
    <2>6. Gate!TypeOK'
      BY <1>1, <1>2, <2>4 DEF Gate!TypeOK, Gate!signatureVars
    <2> QED
      BY <2>4, <2>5, <2>6 DEF Slots
  <1>4. CASE qReq[r].at # "handle"
    <2>1. UNCHANGED <<Gate!windowVars, qFaults>> /\ qReq[r].at \notin Served \cup {"dead"}
      BY <1>4 DEF Gate!Abort
    <2>2. qReq[r].tier = None /\ None \notin {"redis", "memory"}
      BY <2>1 DEF Slots, Seats, Gate!GateAssumption
    <2>3. /\ Gate!Holders \ {r} = Gate!Holders' \ {r}
          /\ \A q \in Call \ {r} : Gate!GivenBack(q)' = Gate!GivenBack(q)
      BY <1>1, <2>1, OthersHold DEF Gate!windowVars
    <2>4. Gate!Holders' = Gate!Holders
      BY <1>1, <2>2, <2>3 DEF Gate!Holders
    <2>5. \A q \in Gate!ToSet(qStamps)' : (qReq[q].tier = "memory" /\ ~Gate!GivenBack(q))'
      BY <1>1, <2>1, <2>2, <2>3 DEF Gate!TypeOK, Slots, Gate!SlotsBalance, Gate!ToSet, Gate!windowVars
    <2>6. Gate!SlotsBalance'
      BY <2>1, <2>4, <2>5 DEF Slots, Gate!SlotsBalance, Gate!windowVars
    <2>7. Seats'
      BY <1>1, <2>1, <2>2 DEF Slots, Seats, Gate!windowVars
    <2>8. Gate!TypeOK'
      BY <1>1, <1>2, <2>1 DEF Gate!TypeOK, Gate!signatureVars, Gate!windowVars
    <2> QED
      BY <2>1, <2>4, <2>6, <2>7, <2>8 DEF Slots, OnceEach, Gate!windowVars
  <1> QED
    BY <1>3, <1>4

\* The connection closes after the answer: the slot is not given back again.
LEMMA CloseKeeps ==
    ASSUME Gate!GateAssumption, Gate!TypeOK, Slots, NEW r \in Call, Gate!Close(r)
    PROVE  Gate!TypeOK' /\ Slots'
  <1> USE DEF Served
  <1>1. /\ qReq'[r].at = "closed" /\ qReq'[r].tier = qReq[r].tier /\ qReq'[r].era = qReq[r].era
        /\ qReq'[r].deaf = qReq[r].deaf /\ qReq'[r].open = qReq[r].open /\ qReq'[r].status = qReq[r].status
        /\ qReq'[r].refunded = qReq[r].refunded
        /\ \A q \in Call \ {r} : qReq'[q] = qReq[q]
        /\ qReq' \in [Call -> Gate!Request]
    BY Goes DEF Gate!Close, Gate!Stage
  <1>2. qReq[r].open /\ qReq[r].at = "done" /\ UNCHANGED <<Gate!signatureVars, qUp>>
    BY DEF Gate!Close
  <1>3. qReq[r].refunded
    BY <1>2 DEF Slots, Seats
  <1>4. UNCHANGED <<Gate!windowVars, qFaults>>
    BY <1>3 DEF Gate!Close, Gate!Refund
  <1>5. /\ Gate!Holders \ {r} = Gate!Holders' \ {r}
        /\ \A q \in Call \ {r} : Gate!GivenBack(q)' = Gate!GivenBack(q)
    BY <1>1, <1>4, OthersHold DEF Gate!windowVars
  <1>6. Gate!GivenBack(r)' = Gate!GivenBack(r)
    BY <1>1, <1>2, <1>4 DEF Gate!GivenBack, Gate!windowVars
  <1>7. Gate!Holders' = Gate!Holders
    BY <1>1, <1>2, <1>4, <1>5, <1>6 DEF Gate!Holders, Gate!windowVars
  <1>8. \A q \in Gate!ToSet(qStamps)' : (qReq[q].tier = "memory" /\ ~Gate!GivenBack(q))'
    BY <1>1, <1>4, <1>5, <1>6 DEF Gate!TypeOK, Slots, Gate!SlotsBalance, Gate!ToSet, Gate!windowVars
  <1>9. Gate!SlotsBalance'
    BY <1>4, <1>7, <1>8 DEF Slots, Gate!SlotsBalance, Gate!windowVars
  <1>10. Seats'
    BY <1>1, <1>2, <1>4 DEF Slots, Seats, Gate!windowVars
  <1>11. Gate!TypeOK'
    BY <1>1, <1>2, <1>4 DEF Gate!TypeOK, Gate!signatureVars, Gate!windowVars
  <1> QED
    BY <1>4, <1>7, <1>9, <1>10, <1>11 DEF Slots, OnceEach, Gate!windowVars

\* The window lapses, and Redis forgets.
LEMMA AnewKeeps ==
    ASSUME Gate!GateAssumption, Gate!TypeOK, Slots, Gate!Anew, UNCHANGED <<qLimiter, qStamps, qReq>>
    PROVE  Slots' /\ qEra' \in 0..MaxEras /\ qCount' \in Int /\ qPrimed' \in BOOLEAN /\ qLeaked' \in Nat /\ qLate' \in Nat
  <1>1. qEra \in Nat /\ qEra' = qEra + 1 /\ qEra' \in 0..MaxEras
    BY DEF Gate!Anew, Gate!TypeOK, Gate!GateAssumption
  <1>2. \A r \in Call : qReq[r].era \in Nat /\ qReq[r].era # qEra'
    BY <1>1, GateRequestHolds DEF Slots, Seats
  <1>3. Gate!Holders' = {}
    BY <1>2 DEF Gate!Holders
  <1>4. IsFiniteSet(Gate!Holders') /\ Cardinality(Gate!Holders') = 0
    BY <1>3, FS_EmptySet
  <1>5. qCount' = 0 /\ qLeaked' = 0 /\ qLate' = 0 /\ qPrimed' = FALSE
    BY DEF Gate!Anew
  <1>6. qLimiter.max \in Nat \ {0}
    BY DEF Gate!TypeOK, Gate!GateAssumption, Gate!Limiters
  <1>7. \A q \in Gate!ToSet(qStamps)' : (qReq[q].tier = "memory" /\ ~Gate!GivenBack(q))'
    BY DEF Slots, Gate!SlotsBalance, Gate!GivenBack, Gate!ToSet
  <1>8. Gate!SlotsBalance'
    BY GateCardinality, <1>4, <1>5, <1>6, <1>7 DEF Gate!SlotsBalance
  <1>9. Seats'
    BY <1>1, GateRequestHolds DEF Slots, Seats
  <1> QED
    <2>1. OnceEach'
      BY DEF Slots, OnceEach
    <2>2. Slots'
      BY <1>4, <1>8, <1>9, <2>1 DEF Slots
    <2>3. qCount' \in Int /\ qLeaked' \in Nat /\ qLate' \in Nat
      BY <1>5
    <2>4. qPrimed' \in BOOLEAN
      BY <1>5
    <2> QED
      BY <1>1, <2>2, <2>3, <2>4

\* A timestamp grows old.
LEMMA AgeKeeps ==
    ASSUME Gate!TypeOK, Slots, Gate!Age
    PROVE  Gate!TypeOK' /\ Slots'
  <1>1. /\ qStamps \in Seq(Call) /\ qStamps # <<>> /\ qStamps' = Tail(qStamps)
        /\ UNCHANGED <<qLimiter, qCount, qPrimed, qEra, qLeaked, qLate, Gate!signatureVars, qReq, qUp, qFaults>>
    BY DEF Gate!TypeOK, Gate!Age
  <1>2. /\ qStamps' \in Seq(Call) /\ DOMAIN qStamps' = 1..(Len(qStamps) - 1) /\ DOMAIN qStamps = 1..Len(qStamps)
        /\ \A i \in DOMAIN qStamps' : qStamps'[i] = qStamps[i + 1] /\ i + 1 \in DOMAIN qStamps
    BY <1>1
  <1>3. OnceEach'
    <2> SUFFICES ASSUME NEW i \in DOMAIN qStamps', NEW j \in DOMAIN qStamps', i # j
                 PROVE  qStamps'[i] # qStamps'[j]
      BY DEF OnceEach
    <2>1. i + 1 # j + 1
      BY <1>2
    <2> QED
      BY <1>2, <2>1 DEF Slots, OnceEach
  <1>4. Gate!ToSet(qStamps') \subseteq Gate!ToSet(qStamps)
    BY <1>2 DEF Gate!ToSet
  <1>5. Gate!Holders' = Gate!Holders
    BY <1>1 DEF Gate!Holders, Gate!GivenBack
  <1>6. \A q \in Gate!ToSet(qStamps)' : (qReq[q].tier = "memory" /\ ~Gate!GivenBack(q))'
    BY <1>1, <1>4 DEF Slots, Gate!SlotsBalance, Gate!GivenBack
  <1>7. Gate!SlotsBalance'
    BY <1>1, <1>5, <1>6 DEF Slots, Gate!SlotsBalance
  <1>8. Seats'
    BY <1>1 DEF Slots, Seats
  <1>9. Gate!TypeOK'
    BY <1>1, <1>2 DEF Gate!TypeOK, Gate!signatureVars
  <1> QED
    BY <1>3, <1>5, <1>7, <1>8, <1>9 DEF Slots

\* The process dies.
LEMMA RestartKeeps ==
    ASSUME Gate!GateAssumption, Gate!TypeOK, Signs, OneContends, Remembered, Slots, Gate!Restart
    PROVE  Gate!TypeOK' /\ Signs' /\ OneContends' /\ Remembered' /\ Slots'
  <1> USE DEF Served, Claiming
  <1> DEFINE dying == {r \in Call : qReq[r].at \in {"claim", "reply", "check", "limit", "handle"}}
             lost == Gate!Holders \cap dying
  <1>1. /\ qReq' = [r \in Call |-> IF r \in dying THEN [qReq[r] EXCEPT !.at = "dead"] ELSE qReq[r]]
        /\ qLeaked' = qLeaked + Cardinality(lost)
        /\ qHeard' = {} /\ qDropped' = qDropped \cup qHeard /\ qStamps' = <<>>
        /\ UNCHANGED <<qLimiter, qCount, qPrimed, qEra, qLate, qFresh, qSeen, qExcused, qUp>>
        /\ Gate!Fault
    BY GateCardinality DEF Gate!Restart
  <1>2. \A r \in Call :
          /\ r \in dying => qReq'[r].at = "dead"
          /\ r \notin dying => qReq'[r].at = qReq[r].at
          /\ qReq'[r].won = qReq[r].won /\ qReq'[r].accepted = qReq[r].accepted
          /\ qReq'[r].tier = qReq[r].tier /\ qReq'[r].era = qReq[r].era /\ qReq'[r].open = qReq[r].open
          /\ qReq'[r].deaf = qReq[r].deaf /\ qReq'[r].status = qReq[r].status
          /\ qReq'[r].refunded = qReq[r].refunded
    BY <1>1 DEF Gate!TypeOK, Gate!Request
  <1>3. qReq' \in [Call -> Gate!Request]
    BY ZenonT(40), <1>1 DEF Gate!TypeOK, Gate!Request, Gate!Stage
  <1>4. Gate!Holders' = Gate!Holders \ dying
    BY <1>1, <1>2 DEF Gate!Holders, Gate!GivenBack
  <1>5. IsFiniteSet(Gate!Holders)
    BY DEF Slots
  <1>6. /\ IsFiniteSet(Gate!Holders') /\ IsFiniteSet(lost)
        /\ Cardinality(lost) \in Nat /\ Cardinality(Gate!Holders) \in Nat
        /\ Cardinality(Gate!Holders') = Cardinality(Gate!Holders) - Cardinality(lost)
    <2>1. IsFiniteSet(lost)
      BY <1>5, FS_Subset
    <2>2. IsFiniteSet(Gate!Holders \ dying) /\ Cardinality(Gate!Holders \ dying) = Cardinality(Gate!Holders) - Cardinality(lost)
      BY <1>5, FS_Difference
    <2> QED
      BY <1>4, <1>5, <2>1, <2>2, FS_CardinalityType
  <1> HIDE DEF dying, lost
  <1>7. /\ qCount = Cardinality(Gate!Holders) + qLeaked - qLate /\ qCount <= qLimiter.max
        /\ qCount \in Int /\ qLeaked \in Nat /\ qLate \in Nat
    BY GateCardinality DEF Gate!TypeOK, Slots, Gate!SlotsBalance
  <1>8. Gate!SlotsBalance'
    <2>1. qCount' = Cardinality(Gate!Holders') + qLeaked' - qLate'
      BY <1>1, <1>6, <1>7
    <2>2. Gate!ToSet(qStamps') = {}
      BY <1>1 DEF Gate!ToSet
    <2> QED
      BY GateCardinality, <1>1, <1>7, <2>1, <2>2 DEF Gate!SlotsBalance
  <1>9. Seats'
    <2> SUFFICES ASSUME NEW r \in Call
                 PROVE  /\ qReq'[r].tier # None <=> qReq'[r].tier \in {"redis", "memory"}
                        /\ qReq'[r].tier # None => qReq'[r].at \in Served \cup {"dead"}
                        /\ qReq'[r].at \in Served => qReq'[r].tier # None /\ (qReq'[r].open => ~qReq'[r].deaf)
                        /\ qReq'[r].era <= qEra'
                        /\ qReq'[r].open => (qReq'[r].refunded <=> qReq'[r].at \in {"done", "closed"}) \/ qReq'[r].at = "dead"
      BY DEF Seats
    <2> QED
      BY <1>1, <1>2 DEF Slots, Seats
  <1>10. OnceEach'
    BY <1>1 DEF OnceEach
  <1>11. Signs'
    BY <1>2 DEF Signs
  <1>12. OneContends'
    <2>1. \A r \in Call : ~Wins(r)' /\ (Contends(r)' => Contends(r))
      BY <1>2 DEF Wins, Contends, dying
    <2> QED
      BY <1>1, <2>1 DEF OneContends
  <1>13. Remembered'
    BY <1>1, <1>2 DEF Remembered, dying
  <1>14. Gate!TypeOK'
    <2>1. qFaults' \in 0..MaxFaults
      BY <1>1 DEF Gate!TypeOK, Gate!Fault, Gate!GateAssumption
    <2> QED
      BY <1>1, <1>3, <1>6, <1>7, <2>1 DEF Gate!TypeOK
  <1> QED
    BY <1>6, <1>8, <1>9, <1>10, <1>11, <1>12, <1>13, <1>14 DEF Slots

(***************************************************************************)
(* Rate limits and signed requests: the steps.                             *)
(***************************************************************************)

\* The types of what the signature steps move.
LEMMA SignatureTypes ==
    ASSUME Gate!GateAssumption, Gate!TypeOK, Signs, NEW r \in Call,
           Gate!Arrive(r) \/ Gate!Claim(r) \/ Gate!ClaimUnheard(r) \/ Gate!ClaimThrows(r) \/ Gate!Replied(r) \/ Gate!Check(r)
    PROVE  Gate!TypeOK' /\ Unseated
  <1> USE DEF Claiming, Served
  <1>1. qReq[r].at \in {"new", "claim", "reply", "check"}
    BY DEF Gate!Arrive, Gate!Claim, Gate!ClaimUnheard, Gate!ClaimThrows, Gate!Replied, Gate!Check
  <1>2. UNCHANGED Gate!windowVars /\ qUp' \in BOOLEAN /\ qFaults' \in 0..MaxFaults
    <2>1. Gate!Fault => qFaults' \in 0..MaxFaults
      BY DEF Gate!Fault, Gate!TypeOK, Gate!GateAssumption
    <2> QED
      BY <2>1
         DEF Gate!Arrive, Gate!Claim, Gate!ClaimUnheard, Gate!ClaimThrows, Gate!Replied, Gate!Check, Gate!TypeOK
  <1>3. /\ qReq' \in [Call -> Gate!Request]
        /\ \A q \in Call \ {r} : qReq'[q] = qReq[q]
        /\ qReq'[r].tier = qReq[r].tier /\ qReq'[r].era = qReq[r].era
        /\ qReq'[r].open = qReq[r].open /\ qReq'[r].deaf = qReq[r].deaf
        /\ qReq'[r].status = qReq[r].status /\ qReq'[r].refunded = qReq[r].refunded
        /\ \/ qReq'[r].at = qReq[r].at \/ qReq'[r].at \in {"claim", "reply", "check", "limit", "refused"}
    <2>1. CASE \E stage \in {"claim", "check", "limit", "refused"} : Gate!To(r, stage)
      BY <2>1, Goes DEF Gate!Stage
    <2>2. CASE UNCHANGED qReq
      BY <2>2 DEF Gate!TypeOK
    <2>3. CASE Gate!Claim(r)
      <3> DEFINE won == Signed[r] \notin qSeen
      <3>1. won \in BOOLEAN
        OBVIOUS
      <3>2. qReq' = [qReq EXCEPT ![r].at = "reply", ![r].won = won]
        BY <2>3 DEF Gate!Claim
      <3> HIDE DEF won
      <3> QED
        BY ZenonT(40), <3>1, <3>2 DEF Gate!TypeOK, Gate!Request, Gate!Stage
    <2>4. CASE qReq' = [qReq EXCEPT ![r].at = "limit", ![r].accepted = TRUE]
      BY ZenonT(40), <2>4 DEF Gate!TypeOK, Gate!Request, Gate!Stage
    <2>5. Gate!FallBack(r) => \E stage \in {"check", "refused"} : Gate!To(r, stage)
      BY DEF Gate!FallBack
    <2> QED
      BY <2>1, <2>2, <2>3, <2>4, <2>5
         DEF Gate!Arrive, Gate!ClaimUnheard, Gate!ClaimThrows, Gate!Replied, Gate!Check
  <1>4. qReq[r].at \in Claiming => Signed[r] \in Header
    BY DEF Signs
  <1>5. /\ qFresh' \subseteq Header /\ qSeen' \subseteq Header /\ qHeard' \subseteq Header
        /\ qDropped' \subseteq Header /\ qExcused' \subseteq Header
    <2>1. CASE UNCHANGED Gate!signatureVars
      BY <2>1 DEF Gate!signatureVars, Gate!TypeOK
    <2>2. ASSUME Gate!FallBack(r), Signed[r] \in Header
          PROVE  /\ qFresh' \subseteq Header /\ qSeen' \subseteq Header /\ qHeard' \subseteq Header
                 /\ qDropped' \subseteq Header /\ qExcused' \subseteq Header
      BY <2>2 DEF Gate!FallBack, Gate!TypeOK
    <2>3. ASSUME Gate!SetNx(r), Signed[r] \in Header
          PROVE  /\ qFresh' \subseteq Header /\ qSeen' \subseteq Header /\ qHeard' \subseteq Header
                 /\ qDropped' \subseteq Header /\ qExcused' \subseteq Header
      BY <2>3 DEF Gate!SetNx, Gate!TypeOK
    <2>4. CASE Gate!Arrive(r)
      BY <2>4, <2>1, <2>2 DEF Gate!Arrive, Gate!TypeOK
    <2>5. CASE Gate!Claim(r) \/ Gate!ClaimUnheard(r)
      BY <2>5, <2>3, <1>4 DEF Gate!Claim, Gate!ClaimUnheard
    <2>6. CASE Gate!ClaimThrows(r)
      BY <2>6, <2>2, <1>4 DEF Gate!ClaimThrows
    <2>7. CASE Gate!Replied(r)
      BY <2>7, <2>1 DEF Gate!Replied
    <2>8. CASE Gate!Check(r)
      BY <2>8, <2>1, <1>4 DEF Gate!Check, Gate!TypeOK
    <2> QED
      BY <2>4, <2>5, <2>6, <2>7, <2>8
  <1>6. Gate!TypeOK'
    BY <1>2, <1>3, <1>5 DEF Gate!TypeOK, Gate!windowVars
  <1>7. Unseated
    BY <1>1, <1>2, <1>3 DEF Unseated
  <1> QED
    BY <1>6, <1>7

\* Every step of a request.
LEMMA RequestStep ==
    ASSUME Gate!GateAssumption, GateInv, NEW r \in Call,
           \/ Gate!Arrive(r) \/ Gate!Claim(r) \/ Gate!ClaimUnheard(r) \/ Gate!ClaimThrows(r) \/ Gate!Replied(r) \/ Gate!Check(r)
           \/ Gate!TakeInRedis(r) \/ Gate!TakeUnheard(r) \/ Gate!TakeInMemory(r)
           \/ \E status \in Gate!Answers : Gate!Answer(r, status)
           \/ Gate!Close(r) \/ Gate!Abort(r)
    PROVE  GateInv'
  <1> USE DEF Served, Claiming
  <1>1. Gate!TypeOK /\ Signs /\ OneContends /\ Remembered /\ Slots
    BY DEF GateInv, Slots
  <1>2. SUFFICES Gate!TypeOK' /\ Signs' /\ OneContends' /\ Remembered' /\ Slots'
    BY DEF GateInv, Slots
  <1>3. Gate!Fault => qFaults' \in 0..MaxFaults
    BY <1>1 DEF Gate!Fault, Gate!TypeOK, Gate!GateAssumption
  <1>4. CASE Gate!Arrive(r) \/ Gate!Claim(r) \/ Gate!ClaimUnheard(r) \/ Gate!ClaimThrows(r) \/ Gate!Replied(r) \/ Gate!Check(r)
    BY <1>1, <1>4, SignatureStep, SignatureTypes, UnseatedKeeps
  <1>5. ASSUME NEW stage \in {"refused"}, Gate!To(r, stage), qReq[r].at = "limit",
               UNCHANGED <<Gate!signatureVars, Gate!windowVars, qUp>>, qFaults' \in 0..MaxFaults
        PROVE  Gate!TypeOK' /\ Signs' /\ OneContends' /\ Remembered' /\ Slots'
    <2>1. /\ qReq' \in [Call -> Gate!Request] /\ qReq'[r].at = "refused"
          /\ qReq'[r].won = qReq[r].won /\ qReq'[r].accepted = qReq[r].accepted
          /\ qReq'[r].tier = qReq[r].tier /\ qReq'[r].era = qReq[r].era
          /\ qReq'[r].open = qReq[r].open /\ qReq'[r].deaf = qReq[r].deaf
          /\ qReq'[r].status = qReq[r].status /\ qReq'[r].refunded = qReq[r].refunded
          /\ \A q \in Call \ {r} : qReq'[q] = qReq[q]
      BY <1>1, <1>5, Goes DEF Gate!Stage
    <2>2. Gate!TypeOK'
      BY <1>1, <1>5, <2>1 DEF Gate!TypeOK, Gate!signatureVars, Gate!windowVars
    <2>3. Unclaimed
      BY <1>5, <2>1 DEF Unclaimed, Gate!signatureVars
    <2>4. Unseated
      BY <1>5, <2>1 DEF Unseated
    <2> QED
      BY <1>1, <2>2, <2>3, <2>4, UnclaimedKeeps, UnseatedKeeps
  <1>6. ASSUME NEW tier \in {"redis", "memory"}, qReq[r].at = "limit", Gate!Take(r, tier),
               UNCHANGED <<Gate!signatureVars, qUp>>
        PROVE  qReq' \in [Call -> Gate!Request] /\ Signs' /\ OneContends' /\ Remembered'
    <2> DEFINE deaf == ~qReq[r].open
    <2>1. deaf \in BOOLEAN /\ qEra \in Nat
      BY <1>1 DEF Gate!TypeOK, Gate!GateAssumption
    <2>2. qReq' = [qReq EXCEPT ![r].at = "handle", ![r].tier = tier, ![r].era = qEra, ![r].deaf = deaf]
      BY <1>6 DEF Gate!Take
    <2> HIDE DEF deaf
    <2>3. qReq' \in [Call -> Gate!Request]
      <3>1. "handle" \in Gate!Stage
        BY DEF Gate!Stage
      <3> DEFINE rec == [qReq[r] EXCEPT !.at = "handle", !.tier = tier, !.era = qEra, !.deaf = deaf]
      <3>2. rec \in Gate!Request
        BY <1>1, <2>1, <3>1, GateRequestHolds DEF Gate!Request
      <3>3. qReq' = [qReq EXCEPT ![r] = rec]
        BY <1>1, <2>2 DEF Gate!TypeOK
      <3> HIDE DEF rec
      <3> QED
        BY <1>1, <3>2, <3>3 DEF Gate!TypeOK
    <2>4. /\ qReq'[r].at = "handle" /\ qReq'[r].won = qReq[r].won /\ qReq'[r].accepted = qReq[r].accepted
          /\ \A q \in Call \ {r} : qReq'[q] = qReq[q]
      BY <1>1, <2>2 DEF Gate!TypeOK, Gate!Request
    <2>5. Unclaimed
      BY <1>6, <2>4 DEF Unclaimed, Gate!signatureVars
    <2> QED
      BY <1>1, <2>3, <2>5, UnclaimedKeeps
  <1>7. CASE Gate!TakeInRedis(r)
    <2>1. CASE Gate!Passes
      <3>1. /\ qReq[r].at = "limit" /\ Gate!Take(r, "redis") /\ qCount' = qCount + 1 /\ qPrimed' = TRUE
            /\ UNCHANGED <<Gate!signatureVars, qLimiter, qStamps, qEra, qLeaked, qLate, qUp, qFaults>>
        BY <1>7, <2>1 DEF Gate!TakeInRedis
      <3>2. Slots'
        BY <1>1, <2>1, <3>1, TakeKeeps
      <3>3. qReq' \in [Call -> Gate!Request] /\ Signs' /\ OneContends' /\ Remembered'
        BY <1>6, <3>1
      <3>4. Gate!TypeOK'
        BY <1>1, <3>1, <3>3 DEF Gate!TypeOK, Gate!signatureVars
      <3> QED
        BY <3>2, <3>3, <3>4
    <2>2. CASE ~Gate!Passes
      <3>1. /\ qReq[r].at = "limit" /\ Gate!To(r, "refused")
            /\ UNCHANGED <<Gate!signatureVars, Gate!windowVars, qUp, qFaults>>
        BY <1>7, <2>2 DEF Gate!TakeInRedis, Gate!windowVars
      <3> QED
        BY <1>1, <1>5, <3>1 DEF Gate!TypeOK
    <2> QED
      BY <2>1, <2>2
  <1>8. CASE Gate!TakeUnheard(r)
    <2>1. /\ Gate!Passes /\ qCount' = qCount + 1 /\ qPrimed' = TRUE /\ qLeaked' = qLeaked + 1 /\ Gate!Fault
          /\ UNCHANGED <<Gate!signatureVars, qLimiter, qStamps, qEra, qLate, qReq, qUp>>
      BY <1>8 DEF Gate!TakeUnheard
    <2>2. Unclaimed
      BY <2>1 DEF Unclaimed, Gate!signatureVars
    <2>3. Gate!Holders' = Gate!Holders
      BY <2>1 DEF Gate!Holders, Gate!GivenBack
    <2>4. \A q \in Gate!ToSet(qStamps)' : (qReq[q].tier = "memory" /\ ~Gate!GivenBack(q))'
      BY <1>1, <2>1 DEF Slots, Gate!SlotsBalance, Gate!GivenBack
    <2>5. qCount' = Cardinality(Gate!Holders') + qLeaked' - qLate' /\ qCount' <= qLimiter'.max
      <3>1. Cardinality(Gate!Holders) \in Nat
        BY <1>1, FS_CardinalityType DEF Slots
      <3>2. qCount \in Int /\ qLeaked \in Nat /\ qLate \in Nat
        BY <1>1 DEF Gate!TypeOK
      <3> QED
        BY GateCardinality, <1>1, <2>1, <2>3, <3>1, <3>2 DEF Slots, Gate!SlotsBalance, Gate!Passes
    <2>6. Slots'
      <3>1. Seats' /\ OnceEach'
        BY <1>1, <2>1 DEF Slots, Seats, OnceEach
      <3> QED
        BY GateCardinality, <1>1, <2>3, <2>4, <2>5, <3>1 DEF Slots, Gate!SlotsBalance
    <2>7. Gate!TypeOK'
      BY <1>1, <1>3, <2>1 DEF Gate!TypeOK, Gate!signatureVars
    <2> QED
      BY <1>1, <2>2, <2>6, <2>7, UnclaimedKeeps
  <1>9. CASE Gate!TakeInMemory(r)
    <2>1. qFaults' \in 0..MaxFaults
      BY <1>1, <1>3, <1>9 DEF Gate!TakeInMemory, Gate!TypeOK
    <2>2. CASE Len(qStamps) < qLimiter.max
      <3>1. /\ qReq[r].at = "limit" /\ Gate!Take(r, "memory") /\ qStamps' = Append(qStamps, r)
            /\ UNCHANGED <<Gate!signatureVars, qLimiter, qCount, qPrimed, qEra, qLeaked, qLate, qUp>>
        BY <1>9, <2>2 DEF Gate!TakeInMemory
      <3>2. Slots'
        BY <1>1, <3>1, TakeKeeps
      <3>3. qReq' \in [Call -> Gate!Request] /\ Signs' /\ OneContends' /\ Remembered'
        BY <1>6, <3>1
      <3>4. qStamps' \in Seq(Call)
        BY <1>1, <3>1 DEF Gate!TypeOK
      <3>5. Gate!TypeOK'
        BY <1>1, <2>1, <3>1, <3>3, <3>4 DEF Gate!TypeOK, Gate!signatureVars
      <3> QED
        BY <3>2, <3>3, <3>5
    <2>3. CASE ~(Len(qStamps) < qLimiter.max)
      <3>1. /\ qReq[r].at = "limit" /\ Gate!To(r, "refused")
            /\ UNCHANGED <<Gate!signatureVars, Gate!windowVars, qUp>>
        BY <1>9, <2>3 DEF Gate!TakeInMemory, Gate!windowVars
      <3> QED
        BY <1>5, <2>1, <3>1
    <2> QED
      BY <2>2, <2>3
  <1>10. ASSUME UNCHANGED <<Gate!signatureVars>>,
                \A q \in Call \ {r} : qReq'[q] = qReq[q],
                qReq'[r].won = qReq[r].won, qReq'[r].accepted = qReq[r].accepted,
                qReq'[r].at = qReq[r].at \/ qReq'[r].at \in {"done", "closed"}
         PROVE  Signs' /\ OneContends' /\ Remembered'
    BY <1>1, <1>10, UnclaimedKeeps DEF Unclaimed, Gate!signatureVars
  <1>11. CASE \E status \in Gate!Answers : Gate!Answer(r, status)
    <2>1. PICK status \in Gate!Answers : Gate!Answer(r, status)
      BY <1>11
    <2>2. Gate!TypeOK' /\ Slots'
      BY <1>1, <2>1, AnswerKeeps
    <2>3. /\ qReq'[r].at = "done" /\ qReq'[r].won = qReq[r].won /\ qReq'[r].accepted = qReq[r].accepted
          /\ \A q \in Call \ {r} : qReq'[q] = qReq[q]
          /\ UNCHANGED Gate!signatureVars
      BY <1>1, <2>1 DEF Gate!Answer, Gate!TypeOK, Gate!Request
    <2> QED
      BY <1>10, <2>2, <2>3
  <1>12. CASE Gate!Close(r)
    <2>1. /\ qReq'[r].at = "closed" /\ qReq'[r].won = qReq[r].won /\ qReq'[r].accepted = qReq[r].accepted
          /\ \A q \in Call \ {r} : qReq'[q] = qReq[q]
          /\ UNCHANGED Gate!signatureVars
      BY <1>1, <1>12, Goes DEF Gate!Close, Gate!Stage
    <2> QED
      BY <1>1, <1>10, <1>12, <2>1, CloseKeeps
  <1>13. CASE Gate!Abort(r)
    <2>1. /\ qReq'[r].at = qReq[r].at /\ qReq'[r].won = qReq[r].won /\ qReq'[r].accepted = qReq[r].accepted
          /\ \A q \in Call \ {r} : qReq'[q] = qReq[q]
          /\ UNCHANGED Gate!signatureVars
      BY <1>1, <1>13 DEF Gate!Abort, Gate!TypeOK, Gate!Request
    <2> QED
      BY <1>1, <1>10, <1>13, <2>1, AbortKeeps
  <1> QED
    BY <1>4, <1>7, <1>8, <1>9, <1>11, <1>12, <1>13

\* Every step of the rest.
LEMMA WorldStep ==
    ASSUME Gate!GateAssumption, GateInv,
           \/ \E s \in Header : Gate!Expire(s) \/ Gate!Forget(s)
           \/ Gate!Lapse \/ Gate!Age \/ Gate!Down \/ Gate!Back \/ Gate!Emptied \/ Gate!Restart
    PROVE  GateInv'
  <1> USE DEF Served, Claiming
  <1>1. Gate!TypeOK /\ Signs /\ OneContends /\ Remembered /\ Slots
    BY DEF GateInv, Slots
  <1>2. SUFFICES Gate!TypeOK' /\ Signs' /\ OneContends' /\ Remembered' /\ Slots'
    BY DEF GateInv, Slots
  <1>3. Gate!Fault => qFaults' \in 0..MaxFaults
    BY <1>1 DEF Gate!Fault, Gate!TypeOK, Gate!GateAssumption
  <1>4. CASE \E s \in Header : Gate!Expire(s)
    <2>1. PICK s \in Header : Gate!Expire(s)
      BY <1>4
    <2>2. Unclaimed /\ Unseated
      BY <2>1 DEF Gate!Expire, Unclaimed, Unseated
    <2>3. Gate!TypeOK'
      BY <1>1, <2>1 DEF Gate!Expire, Gate!TypeOK, Gate!windowVars
    <2> QED
      BY <1>1, <2>2, <2>3, UnclaimedKeeps, UnseatedKeeps
  <1>5. CASE \E s \in Header : Gate!Forget(s)
    <2>1. PICK s \in Header : Gate!Forget(s)
      BY <1>5
    <2>2. /\ s \notin qFresh /\ \A r \in Call : Signed[r] = s => qReq[r].at \notin Claiming
          /\ qSeen' = qSeen \ {s} /\ qHeard' = qHeard \ {s}
          /\ UNCHANGED <<Gate!windowVars, qFresh, qDropped, qExcused, qReq, qUp, qFaults>>
      BY <2>1 DEF Gate!Forget
    <2>3. Unseated
      BY <2>2 DEF Unseated
    <2>4. Gate!TypeOK'
      BY <1>1, <2>2 DEF Gate!TypeOK, Gate!windowVars
    <2>5. Signs'
      BY <1>1, <2>2 DEF Signs
    <2>6. OneContends'
      BY <1>1, <2>2 DEF OneContends, Contends, Wins
    <2>7. Remembered'
      BY <1>1, <2>2 DEF Remembered
    <2> QED
      BY <1>1, <2>3, <2>4, <2>5, <2>6, <2>7, UnseatedKeeps
  <1>6. CASE Gate!Lapse
    <2>1. Gate!Anew /\ UNCHANGED <<qLimiter, qStamps, Gate!signatureVars, qReq, qUp, qFaults>>
      BY <1>6 DEF Gate!Lapse
    <2>2. Slots' /\ qEra' \in 0..MaxEras /\ qCount' \in Int /\ qPrimed' \in BOOLEAN /\ qLeaked' \in Nat /\ qLate' \in Nat
      BY <1>1, <2>1, AnewKeeps
    <2>3. Unclaimed
      BY <2>1 DEF Unclaimed, Gate!signatureVars
    <2>4. Gate!TypeOK'
      BY <1>1, <2>1, <2>2 DEF Gate!TypeOK, Gate!signatureVars
    <2> QED
      BY <1>1, <2>2, <2>3, <2>4, UnclaimedKeeps
  <1>7. CASE Gate!Age
    <2>1. Unclaimed
      BY <1>7 DEF Gate!Age, Unclaimed, Gate!signatureVars
    <2> QED
      BY <1>1, <1>7, <2>1, AgeKeeps, UnclaimedKeeps
  <1>8. CASE Gate!Down \/ Gate!Back
    <2>1. UNCHANGED <<Gate!windowVars, Gate!signatureVars, qReq>> /\ qUp' \in BOOLEAN /\ qFaults' \in 0..MaxFaults
      BY <1>1, <1>3, <1>8 DEF Gate!Down, Gate!Back, Gate!TypeOK
    <2>2. Unclaimed /\ Unseated
      BY <2>1 DEF Unclaimed, Unseated, Gate!signatureVars
    <2>3. Gate!TypeOK'
      BY <1>1, <2>1 DEF Gate!TypeOK, Gate!windowVars, Gate!signatureVars
    <2> QED
      BY <1>1, <2>2, <2>3, UnclaimedKeeps, UnseatedKeeps
  <1>9. CASE Gate!Emptied
    <2>1. /\ Gate!Anew /\ qSeen' = {} /\ qFaults' \in 0..MaxFaults
          /\ UNCHANGED <<qLimiter, qStamps, qFresh, qHeard, qDropped, qExcused, qReq, qUp>>
      BY <1>3, <1>9 DEF Gate!Emptied
    <2>2. Slots' /\ qEra' \in 0..MaxEras /\ qCount' \in Int /\ qPrimed' \in BOOLEAN /\ qLeaked' \in Nat /\ qLate' \in Nat
      BY <1>1, <2>1, AnewKeeps
    <2>3. Unclaimed
      BY <2>1 DEF Unclaimed
    <2>4. Gate!TypeOK'
      BY <1>1, <2>1, <2>2 DEF Gate!TypeOK
    <2> QED
      BY <1>1, <2>2, <2>3, <2>4, UnclaimedKeeps
  <1>10. CASE Gate!Restart
    BY <1>1, <1>10, RestartKeeps
  <1> QED
    BY <1>4, <1>5, <1>6, <1>7, <1>8, <1>9, <1>10

\* The initial states satisfy the invariant.
LEMMA GateStarts ==
    ASSUME Gate!GateAssumption
    PROVE  Gate!Init => GateInv
  <1> SUFFICES ASSUME Gate!Init PROVE GateInv
    OBVIOUS
  <1>1. Gate!TypeOK
    <2>1. qReq \in [Call -> Gate!Request]
      BY DEF Gate!Init, Gate!Request, Gate!Stage
    <2>2. qLimiter \in Limiter /\ qUp \in BOOLEAN /\ qPrimed \in BOOLEAN
      BY DEF Gate!Init
    <2>3. qCount \in Int /\ qEra \in 0..MaxEras /\ qLeaked \in Nat /\ qLate \in Nat /\ qFaults \in 0..MaxFaults
      BY DEF Gate!Init, Gate!GateAssumption
    <2>4. qStamps \in Seq(Call)
      BY DEF Gate!Init
    <2>5. /\ qFresh \subseteq Header /\ qSeen \subseteq Header /\ qHeard \subseteq Header
          /\ qDropped \subseteq Header /\ qExcused \subseteq Header
      BY DEF Gate!Init
    <2> QED
      BY <2>1, <2>2, <2>3, <2>4, <2>5 DEF Gate!TypeOK
  <1>2. \A r \in Call : /\ qReq[r].at = "new" /\ qReq[r].tier = None /\ ~qReq[r].accepted
                        /\ qReq[r].era = 0 /\ qReq[r].open /\ ~qReq[r].refunded
    BY DEF Gate!Init
  <1>3. None \notin {"redis", "memory"}
    BY DEF Gate!GateAssumption
  <1>4. Signs /\ OneContends /\ Remembered
    BY <1>2 DEF Signs, OneContends, Remembered, Contends, Wins, Claiming
  <1>5. qEra = 0 /\ qStamps = <<>>
    BY DEF Gate!Init
  <1>6. Seats
    BY <1>2, <1>3, <1>5 DEF Seats, Served
  <1>7. Gate!Holders = {}
    BY <1>2, <1>3 DEF Gate!Holders
  <1>8. IsFiniteSet(Gate!Holders) /\ Cardinality(Gate!Holders) = 0
    BY <1>7, FS_EmptySet
  <1>9. OnceEach /\ Gate!ToSet(qStamps) = {}
    BY <1>5 DEF OnceEach, Gate!ToSet
  <1>10. qLimiter.max \in Nat \ {0}
    BY <1>1 DEF Gate!TypeOK, Gate!GateAssumption, Gate!Limiters
  <1>11. Gate!SlotsBalance
    BY GateCardinality, <1>8, <1>9, <1>10 DEF Gate!Init, Gate!SlotsBalance
  <1> QED
    BY <1>1, <1>4, <1>6, <1>8, <1>9, <1>11 DEF GateInv

\* Two requests with one header do not both pass.
LEMMA OnePassed ==
    ASSUME Gate!GateAssumption, GateInv
    PROVE  Gate!AcceptedOnce
  <1> SUFFICES ASSUME NEW s \in Header \ qExcused
               PROVE  Cardinality({r \in Call : Signed[r] = s /\ qReq[r].accepted}) <= 1
    BY GateCardinality DEF Gate!AcceptedOnce
  <1> DEFINE passed == {r \in Call : Signed[r] = s /\ qReq[r].accepted}
  <1>1. \A q, r \in passed : q = r
    BY DEF GateInv, OneContends, Contends
  <1>2. CASE passed = {}
    BY <1>2, FS_EmptySet
  <1>3. CASE passed # {}
    <2>1. PICK r \in passed : passed = {r}
      BY <1>1, <1>3
    <2>2. Cardinality({r}) = 1
      BY FS_Singleton
    <2> QED
      BY GateCardinality, <2>1, <2>2
  <1> QED
    BY <1>2, <1>3

\* The inductive invariant holds of every behaviour of the limiter and the signature check.
THEOREM GateInvariant ==
    ASSUME Gate!GateAssumption
    PROVE  Gate!Spec => []GateInv
  <1>1. Gate!Init => GateInv
    BY GateStarts
  <1>2. GateInv /\ [Gate!Next]_Gate!vars => GateInv'
    <2> SUFFICES ASSUME GateInv, [Gate!Next]_Gate!vars PROVE GateInv'
      OBVIOUS
    <2>1. CASE UNCHANGED Gate!vars
      BY SMTT(30), <2>1
         DEF Gate!vars, GateInv, Gate!TypeOK, Signs, OneContends, Contends, Wins, Remembered, Seats,
                  OnceEach, Gate!Holders, Gate!GivenBack, Gate!SlotsBalance
    <2>2. CASE Gate!Next
      BY <2>2, RequestStep, WorldStep DEF Gate!Next
    <2> QED
      BY <2>1, <2>2
  <1> QED
    BY <1>1, <1>2, PTL DEF Gate!Spec

\* The variables of the limiter, of the nonces and of the requests keep their types.
THEOREM GateTyped ==
    ASSUME Gate!GateAssumption
    PROVE  Gate!Spec => []Gate!TypeOK
  <1>1. GateInv => Gate!TypeOK
    BY DEF GateInv
  <1> QED
    BY <1>1, GateInvariant, PTL

\* A signature header lets one request through the check (verifyHiveSignature.ts), but for one that neither
\* the database nor the process could refuse; and every slot of a limiter (rateLimit.ts) is
\* held by a request that has not had it back, but for those that an abort, a lost reply or a
\* restart leaked, or gave back twice.
THEOREM GateHolds ==
    ASSUME Gate!GateAssumption
    PROVE  Gate!Spec => []RequestsHold
  <1>1. GateInv => RequestsHold
    BY OnePassed DEF GateInv, RequestsHold
  <1> QED
    BY <1>1, GateInvariant, PTL

(***************************************************************************)
(* The admin roster.                                                       *)
(***************************************************************************)

\* An instance has a copy of the standard operators of its own.
LEMMA RosterCardinality ==
    /\ \A S : Roster!Cardinality(S) = Cardinality(S)
    /\ \A S : Roster!IsFiniteSet(S) = IsFiniteSet(S)
  BY DEF Roster!Cardinality, Cardinality, Roster!IsFiniteSet, IsFiniteSet

(***************************************************************************)
(* The admin roster: least and greatest members of sets of numbers.        *)
(***************************************************************************)

\* A non-empty set of numbers has a least member.
LEMMA LeastExists ==
    ASSUME NEW T \in SUBSET Nat, T # {}
    PROVE  \E x \in T : \A y \in T : x <= y
  <1> DEFINE R == OpToRel(<, Nat)
  <1>1. IsWellFoundedOn(R, Nat)
    BY NatLessThanWellFounded
  <1>2. \A x, y \in Nat : x < y => <<x, y>> \in R
    BY DEF OpToRel
  <1> HIDE DEF R
  <1>3. PICK x \in T : \A y \in T : ~(<<y, x>> \in R)
    BY <1>1, WFMin
  <1>4. \A y \in T : ~(y < x)
    BY <1>2, <1>3
  <1> QED
    BY <1>3, <1>4

\* It is what Min picks.
LEMMA MinHolds ==
    ASSUME NEW T \in SUBSET Nat, T # {}
    PROVE  Roster!Min(T) \in T /\ \A y \in T : Roster!Min(T) <= y
  BY LeastExists DEF Roster!Min

\* A non-empty bounded set of numbers has a greatest member, which Max picks.
LEMMA MaxHolds ==
    ASSUME NEW n \in Nat, NEW T \in SUBSET (0..n), T # {}
    PROVE  Roster!Max(T) \in T /\ \A y \in T : y <= Roster!Max(T)
  <1> DEFINE U == {n - y : y \in T}
  <1>1. U \in SUBSET Nat
    OBVIOUS
  <1>2. U # {}
    OBVIOUS
  <1>3. PICK u \in U : \A v \in U : u <= v
    BY <1>1, <1>2, LeastExists
  <1>4. PICK x \in T : u = n - x
    OBVIOUS
  <1>5. \A y \in T : y <= x
    <2> SUFFICES ASSUME NEW y \in T PROVE y <= x
      OBVIOUS
    <2>1. u <= n - y
      BY <1>3
    <2> QED
      BY <1>4, <2>1
  <1>6. \E z \in T : \A y \in T : z >= y
    BY <1>4, <1>5
  <1> QED
    BY <1>6 DEF Roster!Max

(***************************************************************************)
(* The admin roster: the inductive invariant.                              *)
(***************************************************************************)

\* A grant names a level.
Levels == \A i \in DOMAIN mChain : mChain[i].act = "grant" => mChain[i].level \in Roster!Granted

\* What the routes ask of an op, by the view of its target it was made under.
Fits(o) ==
  LET held == Roster!Held(o.seen, o.who) IN
  /\ o.seen <= mHaf /\ o.who # Root
  /\ o.act = "grant" => o.level \in Roster!Granted
  /\ o.by # Root =>
       /\ o.cap \in Roster!Granted
       /\ o.act = "grant" => o.level = "admin" /\ held # "super_admin"
       /\ o.act = "revoke" => o.cap = "super_admin" /\ held = "admin"
       /\ o.act = "sanction" => held = None \/ Roster!Rank(held) < Roster!Rank(o.cap)

Made ==
  /\ \A o \in mFlight : Fits(o)
  /\ \A r \in Call : mReq[r].pc = "sending" => Roster!Op(r) \in Roster!Ops /\ Fits(Roster!Op(r))

\* Who was admitted has the level the route needs, and only root is root.
Allowed ==
  \A r \in Call : mReq[r].pc # "idle" =>
    /\ mReq[r].act \in Acts /\ mReq[r].me \in Account /\ mReq[r].cap \in Roster!Level
    /\ Roster!LevelMeets(mReq[r].cap, Roster!Needed(mReq[r].act)) /\ (mReq[r].cap = "root" => mReq[r].me = Root)

\* The cache is as old as its life at the most, and HAF shows nothing older that it lacks.
Aged ==
  mCache # None =>
    /\ mNow <= mCache.until /\ mCache.until <= mNow + Ttl
    /\ \A i \in (mCache.read + 1)..mHaf : mCache.until <= mSince[i] + Ttl

RosterInv == Roster!TypeOK /\ Levels /\ Made /\ Allowed /\ Aged /\ Roster!ReachHolds /\ Roster!LapseBounded

(***************************************************************************)
(* The admin roster: the levels.                                           *)
(***************************************************************************)

\* The ops about an account's level among the first n, and the last of them.
About(n, a) == {0} \cup {i \in 1..n : mChain[i].act \in {"grant", "revoke"} /\ mChain[i].who = a}

\* The last op about an account decides what it holds.
LEMMA LastOp ==
    ASSUME Roster!TypeOK, NEW n \in 0..Len(mChain), NEW a
    PROVE  /\ Roster!Max(About(n, a)) \in About(n, a) /\ About(n, a) \subseteq 0..n
           /\ \A i \in About(n, a) : i <= Roster!Max(About(n, a))
           /\ Roster!ActiveAdmin(n, a) = IF Roster!Max(About(n, a)) > 0 /\ mChain[Roster!Max(About(n, a))].act = "grant"
                                  THEN mChain[Roster!Max(About(n, a))].level ELSE None
  <1>1. Len(mChain) \in Nat /\ n \in Nat
    BY DEF Roster!TypeOK
  <1>2. About(n, a) \subseteq 0..n /\ 0 \in About(n, a)
    BY <1>1 DEF About
  <1>3. Roster!ActiveAdmin(n, a) = IF Roster!Max(About(n, a)) > 0 /\ mChain[Roster!Max(About(n, a))].act = "grant"
                            THEN mChain[Roster!Max(About(n, a))].level ELSE None
    BY DEF Roster!ActiveAdmin, About
  <1> QED
    BY <1>1, <1>2, <1>3, MaxHolds

\* A level of the chain is one that is granted.
LEMMA LevelsGranted ==
    ASSUME Roster!TypeOK, Levels, NEW n \in 0..Len(mChain), NEW a
    PROVE  Roster!ActiveAdmin(n, a) \in Roster!Granted \cup {None}
  <1> DEFINE last == Roster!Max(About(n, a))
  <1>1. last \in 0..n /\ Len(mChain) \in Nat /\ DOMAIN mChain = 1..Len(mChain)
    BY LastOp DEF Roster!TypeOK
  <1>2. Roster!ActiveAdmin(n, a) = IF last > 0 /\ mChain[last].act = "grant" THEN mChain[last].level ELSE None
    BY LastOp
  <1> HIDE DEF last
  <1>3. CASE last > 0 /\ mChain[last].act = "grant"
    <2>1. last \in DOMAIN mChain
      BY <1>1, <1>3
    <2> QED
      BY <1>2, <1>3, <2>1 DEF Levels
  <1> QED
    BY <1>2, <1>3

\* Without a grant in between, an account has the level it had, or none.
LEMMA LevelStays ==
    ASSUME Roster!TypeOK, NEW m \in 0..Len(mChain), NEW n \in 0..m, NEW a,
           \A i \in (n + 1)..m : ~(mChain[i].act = "grant" /\ mChain[i].who = a),
           Roster!ActiveAdmin(m, a) # None
    PROVE  Roster!ActiveAdmin(n, a) = Roster!ActiveAdmin(m, a)
  <1> DEFINE last == Roster!Max(About(m, a))
  <1>1. /\ Len(mChain) \in Nat /\ m \in Nat /\ n \in 0..Len(mChain)
        /\ last \in About(m, a) /\ last \in 0..m /\ \A i \in About(m, a) : i <= last
        /\ Roster!ActiveAdmin(m, a) = IF last > 0 /\ mChain[last].act = "grant" THEN mChain[last].level ELSE None
    BY LastOp DEF Roster!TypeOK
  <1> HIDE DEF last
  <1>2. last > 0 /\ mChain[last].act = "grant" /\ mChain[last].who = a
    BY <1>1 DEF About
  <1>3. last <= n
    BY <1>1, <1>2
  <1>4. last \in About(n, a) /\ About(n, a) \subseteq About(m, a)
    BY <1>1, <1>2, <1>3 DEF About
  <1>5. /\ Roster!Max(About(n, a)) \in About(n, a) /\ About(n, a) \subseteq 0..n
        /\ \A i \in About(n, a) : i <= Roster!Max(About(n, a))
        /\ Roster!ActiveAdmin(n, a) = IF Roster!Max(About(n, a)) > 0 /\ mChain[Roster!Max(About(n, a))].act = "grant"
                               THEN mChain[Roster!Max(About(n, a))].level ELSE None
    BY <1>1, LastOp
  <1>6. Roster!Max(About(n, a)) = last
    <2>1. Roster!Max(About(n, a)) <= last
      BY <1>1, <1>4, <1>5
    <2>2. last <= Roster!Max(About(n, a))
      BY <1>4, <1>5
    <2>3. Roster!Max(About(n, a)) \in Nat
      BY <1>1, <1>5
    <2> QED
      BY <1>1, <2>1, <2>2, <2>3
  <1> QED
    BY <1>1, <1>5, <1>6

\* What the chain said before an op it says after it.
LEMMA PastStays ==
    ASSUME Roster!TypeOK, NEW o \in Roster!Ops, mChain' = Append(mChain, o)
    PROVE  /\ mChain' \in Seq(Roster!Ops) /\ Len(mChain') = Len(mChain) + 1 /\ mChain'[Len(mChain) + 1] = o
           /\ \A i \in 1..Len(mChain) : mChain'[i] = mChain[i]
           /\ \A n \in 0..Len(mChain), a \in Account : Roster!Held(n, a)' = Roster!Held(n, a)
  <1>1. /\ mChain' \in Seq(Roster!Ops) /\ Len(mChain') = Len(mChain) + 1 /\ mChain'[Len(mChain) + 1] = o
        /\ \A i \in 1..Len(mChain) : mChain'[i] = mChain[i]
    BY DEF Roster!TypeOK
  <1>2. ASSUME NEW n \in 0..Len(mChain), NEW a
        PROVE  Roster!ActiveAdmin(n, a)' = Roster!ActiveAdmin(n, a)
    <2>1. Len(mChain) \in Nat
      BY DEF Roster!TypeOK
    <2>2. About(n, a)' = About(n, a)
      BY <1>1, <2>1 DEF About
    <2>3. /\ Roster!Max(About(n, a)) \in 0..n
          /\ Roster!ActiveAdmin(n, a) = IF Roster!Max(About(n, a)) > 0 /\ mChain[Roster!Max(About(n, a))].act = "grant"
                                 THEN mChain[Roster!Max(About(n, a))].level ELSE None
      BY LastOp
    <2>4. Roster!ActiveAdmin(n, a)' = IF Roster!Max(About(n, a)) > 0 /\ mChain'[Roster!Max(About(n, a))].act = "grant"
                               THEN mChain'[Roster!Max(About(n, a))].level ELSE None
      BY <2>2 DEF Roster!ActiveAdmin, About
    <2>5. Roster!Max(About(n, a)) > 0 => mChain'[Roster!Max(About(n, a))] = mChain[Roster!Max(About(n, a))]
      BY <1>1, <2>1, <2>3
    <2> QED
      BY <2>3, <2>4, <2>5
  <1>3. \A n \in 0..Len(mChain), a \in Account : Roster!Held(n, a)' = Roster!Held(n, a)
    BY <1>2 DEF Roster!Held, Roster!AdminLevel
  <1> QED
    BY <1>1, <1>3

\* The ranks.
LEMMA Ranks ==
    ASSUME Roster!RosterAssumption
    PROVE  /\ Roster!Rank("root") = 3 /\ Roster!Rank("super_admin") = 2 /\ Roster!Rank("admin") = 1
           /\ \A act \in {"grant", "revoke"} : \A cap \in Roster!Level : Roster!LevelMeets(cap, Roster!Needed(act)) => cap \in {"super_admin", "root"}
           /\ \A held, cap \in Roster!Level : ~Roster!LevelMeets(held, cap) => Roster!Rank(held) < Roster!Rank(cap)
  BY DEF Roster!RosterAssumption, Roster!Rank, Roster!LevelMeets, Roster!Needed, Roster!Level

(***************************************************************************)
(* The admin roster: the chain grows by an op that fits.                   *)
(***************************************************************************)

\* An op that fits the chain fits it still when another is appended.
LEMMA FitsStays ==
    ASSUME Roster!TypeOK, NEW o \in Roster!Ops, o.seen <= mHaf, NEW p \in Roster!Ops, mChain' = Append(mChain, p), UNCHANGED mHaf
    PROVE  Fits(o)' <=> Fits(o)
  <1>1. o.seen \in 0..Len(mChain) /\ o.who \in Account
    BY DEF Roster!TypeOK, Roster!Ops
  <1>2. Roster!Held(o.seen, o.who)' = Roster!Held(o.seen, o.who)
    BY <1>1, PastStays
  <1> QED
    BY <1>2 DEF Fits

\* An op that fits keeps the levels and the reach when it is appended.
LEMMA Lands ==
    ASSUME Roster!RosterAssumption, Roster!TypeOK, Levels, Roster!ReachHolds, NEW o \in Roster!Ops, Fits(o),
           mChain' = Append(mChain, o)
    PROVE  Levels' /\ Roster!ReachHolds'
  <1>0. PICK n \in Nat : n = Len(mChain)
    BY DEF Roster!TypeOK
  <1>1. /\ mChain' \in Seq(Roster!Ops) /\ Len(mChain') = n + 1 /\ mChain'[n + 1] = o /\ n \in Nat
        /\ \A i \in 1..n : mChain'[i] = mChain[i]
        /\ \A k \in 0..n, a \in Account : Roster!Held(k, a)' = Roster!Held(k, a)
    BY <1>0, PastStays DEF Roster!TypeOK
  <1>2. Levels'
    <2>1. DOMAIN mChain = 1..n /\ DOMAIN mChain' = 1..(n + 1)
      BY <1>0, <1>1 DEF Roster!TypeOK
    <2> QED
      BY <1>0, <1>1, <2>1 DEF Levels, Fits
  <1>3. o.who \in Account /\ o.seen \in 0..n /\ o.cap \in Roster!Level
    BY <1>0 DEF Fits, Roster!TypeOK, Roster!Ops
  <1>4. ASSUME NEW held, held = Roster!Held(n, o.who), held # None, o.by # Root,
               o.act = "grant" => o.level # held,
               \A i \in 0..n : ~(~Roster!Shown(o, i) /\ mChain[i].act = "grant" /\ mChain[i].who = o.who)
        PROVE  Roster!Rank(held) < Roster!Rank(o.cap) \/ (o.act = "grant" /\ held = "admin")
    <2>1. held = Roster!ActiveAdmin(n, o.who) /\ Roster!Held(o.seen, o.who) = Roster!ActiveAdmin(o.seen, o.who)
      BY <1>4 DEF Roster!Held, Roster!AdminLevel, Fits
    <2>2. \A i \in (o.seen + 1)..n : ~(mChain[i].act = "grant" /\ mChain[i].who = o.who)
      BY <1>1, <1>3, <1>4 DEF Roster!Shown
    <2>3. held = Roster!Held(o.seen, o.who)
      BY <1>0, <1>1, <1>3, <1>4, <2>1, <2>2, LevelStays
    <2>4. held \in Roster!Granted
      BY <1>0, <1>1, <1>4, <2>1, LevelsGranted
    <2>5. o.act \in {"grant", "revoke", "sanction"}
      BY DEF Roster!Ops
    <2> QED
      BY <1>4, <2>3, <2>4, <2>5, Ranks DEF Fits, Roster!Granted
  <1>5. Roster!ReachHolds'
    <2> SUFFICES ASSUME NEW i \in (Len(FirstOps) + 1)..Len(mChain'), NEW p, p = mChain'[i]
                 PROVE  Roster!InReach(i, p)'
      BY DEF Roster!ReachHolds
    <2>1. Len(FirstOps) \in Nat /\ i \in 1..(n + 1)
      BY <1>1 DEF Roster!RosterAssumption
    <2>2. CASE i = n + 1
      <3>1. p = o /\ i - 1 = n
        BY <1>1, <2>2
      <3>4. Roster!Held(n, o.who)' = Roster!Held(n, o.who)
        BY <1>1, <1>3
      <3>2. o.act = "grant" /\ o.level = "super_admin" => o.by = Root
        BY DEF Fits
      <3>3. \A k \in 0..n : ~Roster!Shown(o, k) => mChain'[k] = mChain[k]
        <4>1. \A k \in 0..n : ~Roster!Shown(o, k) => k \in 1..n
          BY <1>1, <1>3 DEF Roster!Shown
        <4> QED
          BY <1>1, <4>1
      <3> QED
        BY <1>4, <3>4, <3>1, <3>2, <3>3 DEF Fits, Roster!InReach, Roster!Shown
    <2>3. CASE i \in 1..n
      <3>1. p = mChain[i] /\ p \in Roster!Ops /\ i - 1 \in 0..n /\ i \in (Len(FirstOps) + 1)..n
        BY <1>0, <1>1, <2>1, <2>3 DEF Roster!TypeOK
      <3>2. p.who \in Account /\ p.seen \in Nat
        BY <3>1 DEF Roster!Ops
      <3>3. Roster!Held(i - 1, p.who)' = Roster!Held(i - 1, p.who)
        BY <1>1, <3>1, <3>2
      <3>4. \A k \in 0..(i - 1) : ~Roster!Shown(p, k) => mChain'[k] = mChain[k]
        <4>1. \A k \in 0..(i - 1) : ~Roster!Shown(p, k) => k \in 1..n
          BY <1>1, <3>1, <3>2 DEF Roster!Shown
        <4> QED
          BY <1>1, <4>1
      <3>5. Roster!InReach(i, p)
        BY <1>0, <3>1 DEF Roster!ReachHolds
      <3> QED
        BY <3>1, <3>3, <3>4, <3>5 DEF Roster!InReach, Roster!Shown
    <2> QED
      BY <2>1, <2>2, <2>3
  <1> QED
    BY <1>2, <1>5

(***************************************************************************)
(* The admin roster: what a step leaves as it was.                         *)
(***************************************************************************)

\* The record of a request that ends is that of one that never began.
LEMMA RequestEnds ==
    ASSUME Roster!TypeOK, NEW r \in Call, Roster!Ends(r)
    PROVE  /\ mReq' \in [Call -> Roster!Request] /\ mReq'[r] = Roster!Resting
           /\ \A q \in Call : q # r => mReq'[q] = mReq[q]
  <1>1. Roster!Resting \in Roster!Request
    BY DEF Roster!Resting, Roster!Request
  <1> QED
    BY <1>1 DEF Roster!Ends, Roster!TypeOK

\* Requests that end, or that stay, leave what the others carry allowed.
LEMMA AllowedStays ==
    ASSUME Allowed, \A q \in Call : mReq'[q].pc # "idle" => mReq'[q] = mReq[q]
    PROVE  Allowed'
  BY DEF Allowed

\* What is in flight and what is being sent fits as long as it did.
LEMMA MadeStays ==
    ASSUME Roster!TypeOK, Made,
           \A o \in Roster!Ops : o.seen <= mHaf /\ Fits(o) => Fits(o)',
           \A o \in mFlight' : o \in mFlight \/ (o \in Roster!Ops /\ Fits(o)),
           \A q \in Call : mReq'[q].pc = "sending" => mReq'[q] = mReq[q]
    PROVE  Made'
  <1>1. \A o : Fits(o) => o.seen <= mHaf
    BY DEF Fits
  <1>2. ASSUME NEW o \in mFlight' PROVE Fits(o)'
    BY <1>1, <1>2 DEF Roster!TypeOK, Made
  <1>3. ASSUME NEW q \in Call, mReq'[q].pc = "sending"
        PROVE  Roster!Op(q)' \in Roster!Ops /\ Fits(Roster!Op(q))'
    <2>1. mReq'[q] = mReq[q]
      BY <1>3
    <2>2. Roster!Op(q)' = Roster!Op(q)
      BY <2>1 DEF Roster!Op
    <2>3. PICK p \in Roster!Ops : p = Roster!Op(q) /\ Fits(p)
      BY <1>3, <2>1 DEF Made
    <2>4. Fits(p)'
      BY <1>1, <2>3
    <2> QED
      BY <2>1, <2>2, <2>3, <2>4
  <1> QED
    BY <1>2, <1>3 DEF Made

\* HAF indexing more of the same chain keeps an op fitting.
LEMMA FitsSame ==
    ASSUME Roster!TypeOK, Roster!TypeOK', UNCHANGED mChain, mHaf <= mHaf', NEW o \in Roster!Ops, Fits(o)
    PROVE  Fits(o)'
  <1>1. Roster!Held(o.seen, o.who)' = Roster!Held(o.seen, o.who)
    BY DEF Roster!Held, Roster!AdminLevel, Roster!ActiveAdmin
  <1>2. o.seen \in Nat /\ mHaf \in Nat /\ mHaf' \in Nat
    BY DEF Roster!Ops, Roster!TypeOK
  <1> QED
    BY <1>1, <1>2 DEF Fits

\* The reach is a matter of the chain alone.
LEMMA ReachStays ==
    ASSUME Roster!ReachHolds, Levels, UNCHANGED mChain
    PROVE  Roster!ReachHolds' /\ Levels'
  BY
     DEF Roster!ReachHolds, Levels, Roster!InReach, Roster!Shown, Roster!Held, Roster!AdminLevel, Roster!ActiveAdmin

\* The roster that is read is one of the chain's, no older than the cache may be.
LEMMA RosterRead ==
    ASSUME Roster!RosterAssumption, Roster!TypeOK, Aged, NEW roster \in {Roster!Fill, mCache} \ {None}, Roster!Roster(roster), mCache' = roster,
           UNCHANGED <<mNow, mHaf, mSince>>
    PROVE  /\ roster \in [read : 0..mHaf, until : Nat] /\ Aged'
           /\ mNow <= roster.until /\ \A i \in (roster.read + 1)..mHaf : roster.until <= mSince[i] + Ttl
  <1>1. mNow \in Nat /\ mHaf \in Nat /\ Ttl \in Nat
    BY DEF Roster!TypeOK, Roster!RosterAssumption
  <1>2. CASE mCache # None
    <2>1. roster = mCache
      BY <1>2 DEF Roster!Roster
    <2> QED
      BY <1>1, <1>2, <2>1 DEF Roster!TypeOK, Aged
  <1>3. CASE mCache = None
    <2>1. roster = [read |-> mHaf, until |-> mNow + Ttl]
      BY <1>3 DEF Roster!Roster, Roster!Fill
    <2>2. roster \in [read : 0..mHaf, until : Nat] /\ roster.read = mHaf /\ roster.until = mNow + Ttl
      BY <1>1, <2>1
    <2>3. \A i : i \notin (roster.read + 1)..mHaf
      BY <1>1, <2>2
    <2> QED
      BY <1>1, <2>2, <2>3 DEF Aged
  <1> QED
    BY <1>2, <1>3

(***************************************************************************)
(* The admin roster: one lemma for each action.                            *)
(***************************************************************************)

\* Who is admitted lost the level, if at all, after the roster was read, and
\* the cache had not ended.
LEMMA TakenInTime ==
    ASSUME Roster!RosterAssumption, Roster!TypeOK, NEW a \in Account, NEW act, NEW read \in 0..mHaf, NEW until \in Nat,
           Roster!LevelMeets(Roster!Held(read, a), Roster!Needed(act)), mNow <= until,
           \A i \in (read + 1)..mHaf : until <= mSince[i] + Ttl
    PROVE  ~(Roster!TakenFor(a, act) > Ttl)
  <1> DEFINE gone(n) == ~Roster!LevelMeets(Roster!AdminLevel([read |-> n], a), Roster!Needed(act))
             first == {n \in 0..mHaf : \A k \in n..mHaf : gone(k)}
  <1>1. Roster!TakenFor(a, act) = IF first = {} \/ Roster!Min(first) = 0 THEN 0 ELSE mNow - mSince[Roster!Min(first)]
    BY DEF Roster!TakenFor
  <1>2. Ttl \in Nat /\ mHaf \in Nat /\ mNow \in Nat /\ \A i \in 1..mHaf : mSince[i] \in Nat
    BY DEF Roster!TypeOK, Roster!RosterAssumption
  <1>3. ~gone(read)
    BY DEF Roster!Held
  <1>4. CASE first = {} \/ Roster!Min(first) = 0
    BY <1>1, <1>2, <1>4
  <1>5. CASE first # {} /\ Roster!Min(first) # 0
    <2>0. first \in SUBSET Nat /\ first # {}
      BY <1>2, <1>5
    <2>1. PICK m \in first : m = Roster!Min(first)
      <3> HIDE DEF first
      <3> QED
        BY <2>0, MinHolds
    <2>2. m \in 0..mHaf /\ \A k \in m..mHaf : gone(k)
      BY <2>1
    <2> HIDE DEF first, gone
    <2>3. read < m /\ m # 0
      BY <1>2, <1>3, <1>5, <2>1, <2>2
    <2>4. m \in (read + 1)..mHaf /\ m \in 1..mHaf
      BY <1>2, <2>2, <2>3
    <2>5. until <= mSince[m] + Ttl /\ mSince[m] \in Nat
      BY <1>2, <2>4
    <2> QED
      BY <1>1, <1>2, <1>5, <2>1, <2>5
  <1> QED
    BY <1>4, <1>5

\* A view of the roster gives an account a level, and root to Root alone.
LEMMA HeldLevel ==
    ASSUME Roster!RosterAssumption, Roster!TypeOK, Levels, NEW n \in 0..mHaf, NEW a
    PROVE  Roster!Held(n, a) \in Roster!Level \cup {None} /\ (Roster!Held(n, a) = "root" => a = Root)
  <1>1. n \in 0..Len(mChain)
    BY DEF Roster!TypeOK
  <1> QED
    BY <1>1, LevelsGranted
       DEF Roster!RosterAssumption, Roster!Held, Roster!AdminLevel, Roster!Level, Roster!Granted

\* requireAdminLevel admits a request by the roster it reads.
LEMMA AdmitStep ==
    ASSUME Roster!RosterAssumption, RosterInv, NEW r \in Call, NEW act \in Acts, NEW a \in Account, Roster!Admit(r, act, a)
    PROVE  RosterInv'
  <1>1. PICK roster \in {Roster!Fill, mCache} \ {None} :
          /\ Roster!Roster(roster) /\ mCache' = roster
          /\ Roster!LevelMeets(Roster!AdminLevel(roster, a), Roster!Needed(act))
          /\ mReq' = [mReq EXCEPT ![r] = [Roster!Resting EXCEPT !.pc = "admitted", !.act = act, !.me = a,
                                                    !.cap = Roster!AdminLevel(roster, a)]]
          /\ mStale' = (mStale \/ Roster!TakenFor(a, act) > Ttl)
    BY DEF Roster!Admit
  <1>2. /\ roster \in [read : 0..mHaf, until : Nat] /\ Aged'
        /\ mNow <= roster.until /\ \A i \in (roster.read + 1)..mHaf : roster.until <= mSince[i] + Ttl
    BY <1>1, RosterRead DEF RosterInv, Roster!Admit, Roster!Chain
  <1>3. Roster!AdminLevel(roster, a) = Roster!Held(roster.read, a) /\ roster.read \in 0..mHaf /\ roster.until \in Nat
    BY <1>2 DEF Roster!Held, Roster!AdminLevel
  <1>4. PICK cap \in Roster!Level : /\ cap = Roster!AdminLevel(roster, a) /\ (cap = "root" => a = Root)
                                    /\ Roster!LevelMeets(cap, Roster!Needed(act))
    BY <1>1, <1>3, HeldLevel DEF RosterInv, Roster!LevelMeets, Roster!RosterAssumption, Roster!Level
  <1>5. ~(Roster!TakenFor(a, act) > Ttl)
    BY <1>1, <1>2, <1>3, TakenInTime DEF RosterInv
  <1>6. Roster!LapseBounded'
    BY <1>1, <1>5 DEF RosterInv, Roster!LapseBounded
  <1>7. /\ mReq' \in [Call -> Roster!Request] /\ \A q \in Call : q # r => mReq'[q] = mReq[q]
        /\ mReq'[r] = [pc |-> "admitted", act |-> act, me |-> a, level |-> None, cap |-> cap, to |-> None]
    BY <1>1, <1>4 DEF RosterInv, Roster!TypeOK, Roster!Request, Roster!Resting
  <1>8. Roster!TypeOK'
    BY <1>1, <1>2, <1>6, <1>7
       DEF RosterInv, Roster!TypeOK, Roster!Admit, Roster!Chain, Roster!LapseBounded
  <1>9. Allowed'
    BY <1>4, <1>7 DEF RosterInv, Allowed
  <1>10. Made'
    <2>1. \A o \in Roster!Ops : o.seen <= mHaf /\ Fits(o) => Fits(o)'
      BY <1>8, FitsSame DEF RosterInv, Roster!TypeOK, Roster!Admit, Roster!Chain
    <2> QED
      BY <1>7, <2>1, MadeStays DEF RosterInv, Roster!Admit, Roster!Chain
  <1> QED
    BY <1>2, <1>6, <1>8, <1>9, <1>10, ReachStays DEF RosterInv, Roster!Admit, Roster!Chain

\* What a view of nothing shows of an account: that it is root, or no level.
LEMMA HeldOfNothing ==
    ASSUME Roster!TypeOK, NEW a
    PROVE  Roster!Held(0, a) = IF a = Root THEN "root" ELSE None
  <1>1. 0 \in 0..Len(mChain)
    BY DEF Roster!TypeOK
  <1>2. Roster!Max(About(0, a)) = 0 /\ Roster!ActiveAdmin(0, a) = IF Roster!Max(About(0, a)) > 0 /\ mChain[Roster!Max(About(0, a))].act = "grant"
                                                          THEN mChain[Roster!Max(About(0, a))].level ELSE None
    BY <1>1, LastOp DEF About
  <1> QED
    BY <1>2 DEF Roster!Held, Roster!AdminLevel

\* The guards of the routes are those an op fits by.
LEMMA GuardsFit ==
    ASSUME Roster!RosterAssumption, Roster!TypeOK, Levels, Allowed, NEW r \in Call, mReq[r].pc = "admitted",
           NEW a \in Account, NEW level \in Roster!Granted \cup {None}, NEW seen \in 0..mHaf, NEW held, held = Roster!Held(seen, a),
           \/ mReq[r].act = "grant" /\ level # None /\ Roster!MayGrant(r, a, level, held)
           \/ mReq[r].act = "revoke" /\ level = held /\ Roster!MayRevoke(r, a, held)
           \/ mReq[r].act = "sanction" /\ level = None /\ Roster!MaySanction(r, a, held),
           NEW o, o = [act |-> mReq[r].act, by |-> mReq[r].me, cap |-> mReq[r].cap, who |-> a,
                       level |-> level, seen |-> seen]
    PROVE  o \in Roster!Ops /\ Fits(o)
  <1>1. /\ mReq[r].act \in Acts /\ mReq[r].me \in Account /\ mReq[r].cap \in Roster!Level
        /\ Roster!LevelMeets(mReq[r].cap, Roster!Needed(mReq[r].act)) /\ (mReq[r].cap = "root" => mReq[r].me = Root)
    BY DEF Allowed
  <1>2. seen \in 0..MaxOps
    BY RosterCardinality, FS_CardinalityType DEF Roster!RosterAssumption, Roster!TypeOK
  <1>3. o \in Roster!Ops
    BY <1>1, <1>2 DEF Roster!RosterAssumption, Roster!Ops
  <1>4. /\ o.act = mReq[r].act /\ o.by = mReq[r].me /\ o.cap = mReq[r].cap /\ o.who = a /\ o.level = level
        /\ o.seen = seen
    OBVIOUS
  <1>5. a # Root
    BY DEF Roster!MayGrant, Roster!MayRevoke, Roster!MaySanction
  <1>6. held \in Roster!Granted \cup {None}
    <2>1. Roster!Held(seen, a) = Roster!ActiveAdmin(seen, a) /\ seen \in 0..Len(mChain)
      BY <1>5 DEF Roster!Held, Roster!AdminLevel, Roster!TypeOK
    <2> QED
      BY <2>1, LevelsGranted
  <1>7. o.act = "grant" => o.level \in Roster!Granted
    BY <1>4
  <1>8. ASSUME o.by # Root
        PROVE  /\ o.cap \in Roster!Granted
               /\ o.act = "grant" => o.level = "admin" /\ held # "super_admin"
               /\ o.act = "revoke" => o.cap = "super_admin" /\ held = "admin"
               /\ o.act = "sanction" => held = None \/ Roster!Rank(held) < Roster!Rank(o.cap)
    <2>1. o.cap \in Roster!Granted /\ o.cap # "root"
      BY <1>1, <1>4, <1>8 DEF Roster!Level, Roster!Granted
    <2>2. o.act \in {"grant", "revoke"} => o.cap = "super_admin"
      BY <1>1, <1>4, <2>1, Ranks DEF Roster!Granted
    <2>3. o.act = "grant" => o.level = "admin" /\ held # "super_admin"
      BY <1>4, <2>1 DEF Roster!MayGrant, Roster!Granted
    <2>4. o.act = "revoke" => held = "admin"
      BY <1>4, <1>6, <2>1 DEF Roster!MayRevoke, Roster!Granted
    <2>5. o.act = "sanction" => held = None \/ Roster!Rank(held) < Roster!Rank(o.cap)
      BY <1>1, <1>4, <1>6, Ranks DEF Roster!MaySanction, Roster!Granted, Roster!Level
    <2> QED
      BY <2>1, <2>2, <2>3, <2>4, <2>5
  <1>9. o.seen <= mHaf
    BY <1>4 DEF Roster!TypeOK
  <1> QED
    BY <1>3, <1>4, <1>5, <1>7, <1>8, <1>9 DEF Fits

\* The fresh proof is taken, and the route judges the target (admin.ts).
LEMMA JudgeStep ==
    ASSUME Roster!RosterAssumption, RosterInv, NEW r \in Call, NEW a \in Account, NEW level \in Roster!Granted \cup {None},
           Roster!Judge(r, a, level)
    PROVE  RosterInv'
  <1>1. PICK roster \in {Roster!Fill, mCache} \ {None}, blind \in BOOLEAN :
          LET held == IF blind THEN IF a = Root THEN "root" ELSE None ELSE Roster!AdminLevel(roster, a) IN
          /\ IF blind THEN mCache = None /\ Roster!Fault /\ UNCHANGED mCache
             ELSE Roster!Roster(roster) /\ mCache' = roster /\ UNCHANGED mFaults
          /\ \/ mReq[r].act = "grant" /\ level # None /\ Roster!MayGrant(r, a, level, held)
             \/ mReq[r].act = "revoke" /\ level = held /\ Roster!MayRevoke(r, a, held)
             \/ mReq[r].act = "sanction" /\ level = None /\ Roster!MaySanction(r, a, held)
          /\ mReq' = [mReq EXCEPT ![r].pc = "sending", ![r].level = level,
                      ![r].to = [who |-> a, seen |-> IF blind THEN 0 ELSE roster.read]]
    BY DEF Roster!Judge
  <1>2. /\ Aged' /\ mCache' \in [read : 0..mHaf, until : Nat] \cup {None}
        /\ ~blind => roster.read \in 0..mHaf
    <2>1. CASE blind
      BY <1>1, <2>1 DEF RosterInv, Roster!TypeOK, Aged, Roster!Judge, Roster!Chain
    <2>2. CASE ~blind
      BY <1>1, <2>2, RosterRead DEF RosterInv, Roster!Judge, Roster!Chain
    <2> QED
      BY <2>1, <2>2
  <1>3. PICK seen \in 0..mHaf : seen = IF blind THEN 0 ELSE roster.read
    BY <1>2 DEF RosterInv, Roster!TypeOK
  <1>4. PICK held : held = (IF blind THEN IF a = Root THEN "root" ELSE None ELSE Roster!AdminLevel(roster, a))
    OBVIOUS
  <1>5. held = Roster!Held(seen, a)
    <2>1. CASE blind
      BY <1>3, <1>4, <2>1, HeldOfNothing DEF RosterInv
    <2>2. CASE ~blind
      BY <1>3, <1>4, <2>2 DEF Roster!Held, Roster!AdminLevel
    <2> QED
      BY <2>1, <2>2
  <1>6. \/ mReq[r].act = "grant" /\ level # None /\ Roster!MayGrant(r, a, level, held)
        \/ mReq[r].act = "revoke" /\ level = held /\ Roster!MayRevoke(r, a, held)
        \/ mReq[r].act = "sanction" /\ level = None /\ Roster!MaySanction(r, a, held)
    BY <1>1, <1>4
  <1>7. mReq[r].pc = "admitted" /\ UNCHANGED <<mNow, Roster!Chain, mStale>>
    BY DEF Roster!Judge
  <1>8. PICK o : o = [act |-> mReq[r].act, by |-> mReq[r].me, cap |-> mReq[r].cap, who |-> a,
                      level |-> level, seen |-> seen]
    OBVIOUS
  <1>9. o \in Roster!Ops /\ Fits(o)
    BY <1>5, <1>6, <1>7, <1>8, GuardsFit DEF RosterInv
  <1>10. mReq[r] \in Roster!Request /\ [who |-> a, seen |-> seen] \in [who : Account, seen : 0..MaxOps]
    BY <1>8, <1>9 DEF RosterInv, Roster!TypeOK, Roster!Ops
  <1>11. /\ mReq' \in [Call -> Roster!Request] /\ \A q \in Call : q # r => mReq'[q] = mReq[q]
         /\ mReq'[r] = [mReq[r] EXCEPT !.pc = "sending", !.level = level, !.to = [who |-> a, seen |-> seen]]
    BY <1>1, <1>3, <1>10 DEF RosterInv, Roster!TypeOK, Roster!Request
  <1>12. /\ mReq'[r].act = mReq[r].act /\ mReq'[r].me = mReq[r].me /\ mReq'[r].cap = mReq[r].cap
         /\ mReq'[r].pc = "sending" /\ mReq'[r].level = level /\ mReq'[r].to = [who |-> a, seen |-> seen]
    BY <1>10, <1>11 DEF Roster!Request
  <1>13. mFaults' \in 0..MaxRosterFaults
    BY <1>1 DEF Roster!Fault, RosterInv, Roster!TypeOK, Roster!RosterAssumption
  <1>14. Roster!TypeOK'
    BY <1>2, <1>7, <1>11, <1>13 DEF RosterInv, Roster!TypeOK, Roster!Chain
  <1>15. Allowed'
    BY <1>7, <1>11, <1>12 DEF RosterInv, Allowed
  <1>16. \A p \in Roster!Ops : Fits(p) => Fits(p)'
    BY <1>7, <1>14, FitsSame DEF RosterInv, Roster!TypeOK, Roster!Chain
  <1>17. Made'
    <2>1. ASSUME NEW q \in Call, mReq'[q].pc = "sending"
          PROVE  Roster!Op(q)' \in Roster!Ops /\ Fits(Roster!Op(q))'
      <3>1. CASE q = r
        <4>1. Roster!Op(q)' = o
          BY <1>8, <1>12, <3>1 DEF Roster!Op
        <4>2. Fits(o)'
          BY <1>9, <1>16
        <4> QED
          BY <1>9, <4>1, <4>2
      <3>2. CASE q # r
        <4>1. mReq'[q] = mReq[q]
          BY <1>11, <3>2
        <4>2. Roster!Op(q)' = Roster!Op(q)
          BY <4>1 DEF Roster!Op
        <4>3. PICK p \in Roster!Ops : p = Roster!Op(q) /\ Fits(p)
          BY <2>1, <4>1 DEF RosterInv, Made
        <4> QED
          BY <1>16, <4>1, <4>2, <4>3
      <3> QED
        BY <3>1, <3>2
    <2>2. \A p \in mFlight' : Fits(p)'
      BY <1>7, <1>16 DEF RosterInv, Roster!TypeOK, Made, Roster!Chain
    <2> QED
      BY <2>1, <2>2 DEF Made
  <1> QED
    BY <1>2, <1>7, <1>14, <1>15, <1>17, ReachStays DEF RosterInv, Roster!LapseBounded, Roster!Chain

\* An op that fits is appended, whoever sent it.
LEMMA AppendStep ==
    ASSUME Roster!RosterAssumption, RosterInv, NEW o \in Roster!Ops, Fits(o), mChain' = Append(mChain, o),
           mFlight' \subseteq mFlight, IsFiniteSet(mFlight'), Len(mChain) + 1 + Cardinality(mFlight') <= MaxOps,
           UNCHANGED <<mNow, mHaf, mSince, mStale>>, mCache' \in {mCache, None}, mFaults' \in 0..MaxRosterFaults,
           mReq' \in [Call -> Roster!Request],
           \A q \in Call : mReq'[q].pc # "idle" => mReq'[q] = mReq[q]
    PROVE  RosterInv'
  <1>1. Len(mChain') = Len(mChain) + 1 /\ mChain' \in Seq(Roster!Ops)
    BY PastStays DEF RosterInv
  <1>2. Roster!TypeOK'
    BY RosterCardinality, <1>1, FS_CardinalityType DEF RosterInv, Roster!TypeOK
  <1>3. Levels' /\ Roster!ReachHolds'
    BY Lands DEF RosterInv
  <1>4. \A p \in Roster!Ops : p.seen <= mHaf /\ Fits(p) => Fits(p)'
    BY FitsStays DEF RosterInv
  <1>5. Made'
    BY <1>4, MadeStays DEF RosterInv
  <1>6. Allowed'
    BY AllowedStays DEF RosterInv
  <1>7. Aged' /\ Roster!LapseBounded'
    BY DEF RosterInv, Aged, Roster!LapseBounded
  <1> QED
    BY <1>2, <1>3, <1>5, <1>6, <1>7 DEF RosterInv

\* A step that leaves the chain alone and starts no op.
LEMMA QuietStep ==
    ASSUME Roster!RosterAssumption, RosterInv, Roster!TypeOK', Aged', UNCHANGED <<mChain, mStale>>, mHaf <= mHaf',
           \A o \in mFlight' : o \in mFlight \/ (o \in Roster!Ops /\ Fits(o)),
           \A q \in Call : mReq'[q].pc # "idle" => mReq'[q] = mReq[q]
    PROVE  RosterInv'
  <1>1. \A o \in Roster!Ops : o.seen <= mHaf /\ Fits(o) => Fits(o)'
    BY FitsSame DEF RosterInv
  <1>2. Made'
    BY <1>1, MadeStays DEF RosterInv
  <1>3. Allowed' /\ Roster!ReachHolds' /\ Levels' /\ Roster!LapseBounded'
    BY AllowedStays, ReachStays DEF RosterInv, Roster!LapseBounded
  <1> QED
    BY <1>2, <1>3 DEF RosterInv

\* The op is broadcast, and lands or is in flight.
LEMMA BroadcastStep ==
    ASSUME Roster!RosterAssumption, RosterInv, NEW r \in Call, Roster!Broadcast(r)
    PROVE  RosterInv'
  <1>1. PICK o \in Roster!Ops : o = Roster!Op(r) /\ Fits(o)
    BY DEF RosterInv, Made, Roster!Broadcast
  <1>2. /\ mReq' \in [Call -> Roster!Request]
        /\ \A q \in Call : mReq'[q].pc # "idle" => mReq'[q] = mReq[q]
    BY RequestEnds DEF RosterInv, Roster!Broadcast, Roster!Resting
  <1>3. /\ UNCHANGED <<mNow, mHaf, mSince, mStale>> /\ mCache' \in {mCache, None} /\ mFaults' \in 0..MaxRosterFaults
        /\ Len(mChain) + Cardinality(mFlight) < MaxOps
    BY RosterCardinality
       DEF Roster!Broadcast, Roster!Fault, RosterInv, Roster!TypeOK, Roster!RosterAssumption
  <1>4. Len(mChain) \in Nat /\ Cardinality(mFlight) \in Nat /\ IsFiniteSet(mFlight) /\ MaxOps \in Nat
    BY RosterCardinality, FS_CardinalityType DEF RosterInv, Roster!TypeOK, Roster!RosterAssumption
  <1>5. CASE mChain' = Append(mChain, o) /\ UNCHANGED mFlight
    BY <1>1, <1>2, <1>3, <1>4, <1>5, AppendStep
  <1>6. CASE mFlight' = mFlight \cup {o} /\ UNCHANGED mChain
    <2>1. IsFiniteSet(mFlight') /\ Cardinality(mFlight') <= Cardinality(mFlight) + 1 /\ Cardinality(mFlight') \in Nat
      <3>1. /\ IsFiniteSet(mFlight \cup {o})
            /\ Cardinality(mFlight \cup {o}) = IF o \in mFlight THEN Cardinality(mFlight) ELSE Cardinality(mFlight) + 1
        BY <1>4, FS_AddElement
      <3> QED
        BY <1>4, <1>6, <3>1
    <2>2. Roster!TypeOK'
      BY RosterCardinality, <1>2, <1>3, <1>4, <1>6, <2>1 DEF RosterInv, Roster!TypeOK
    <2>3. Aged'
      BY <1>3 DEF RosterInv, Aged
    <2>4. mHaf <= mHaf'
      BY <1>3 DEF RosterInv, Roster!TypeOK
    <2> QED
      BY <1>1, <1>2, <1>3, <1>6, <2>2, <2>3, <2>4, QuietStep
  <1> QED
    BY <1>1, <1>5, <1>6 DEF Roster!Broadcast

\* An op that was in flight lands.
LEMMA LandsLateStep ==
    ASSUME Roster!RosterAssumption, RosterInv, NEW o \in mFlight, Roster!LandsLate(o)
    PROVE  RosterInv'
  <1>1. o \in Roster!Ops /\ Fits(o)
    BY DEF RosterInv, Roster!TypeOK, Made
  <1>2. IsFiniteSet(mFlight') /\ Cardinality(mFlight') = Cardinality(mFlight) - 1
    BY RosterCardinality, FS_RemoveElement DEF RosterInv, Roster!TypeOK, Roster!LandsLate
  <1>3. Len(mChain) + 1 + Cardinality(mFlight') <= MaxOps
    BY RosterCardinality, <1>2, FS_CardinalityType DEF RosterInv, Roster!TypeOK, Roster!RosterAssumption
  <1> QED
    BY <1>1, <1>2, <1>3, AppendStep DEF Roster!LandsLate, RosterInv, Roster!TypeOK

\* A request is refused or fails.
LEMMA RosterEndStep ==
    ASSUME Roster!RosterAssumption, RosterInv, NEW r \in Call, Roster!Refused(r) \/ Roster!Fails(r)
    PROVE  RosterInv'
  <1>1. Roster!Ends(r) /\ UNCHANGED <<mNow, mChain, mFlight, mHaf, mSince, mCache, mStale>> /\ mFaults' \in 0..MaxRosterFaults
    BY
       DEF Roster!Refused, Roster!Fails, Roster!Chain, Roster!Fault, RosterInv, Roster!TypeOK, Roster!RosterAssumption
  <1>2. /\ mReq' \in [Call -> Roster!Request]
        /\ \A q \in Call : mReq'[q].pc # "idle" => mReq'[q] = mReq[q]
    BY <1>1, RequestEnds DEF RosterInv, Roster!Resting
  <1>3. Roster!TypeOK' /\ Aged' /\ mHaf <= mHaf'
    BY <1>1, <1>2 DEF RosterInv, Roster!TypeOK, Aged
  <1> QED
    BY <1>1, <1>2, <1>3, QuietStep

\* HAF indexes the next op.
LEMMA IndexStep ==
    ASSUME Roster!RosterAssumption, RosterInv, Roster!Index
    PROVE  RosterInv'
  <1>1. /\ mHaf' = mHaf + 1 /\ mHaf \in Nat /\ mHaf' \in 0..Len(mChain) /\ mNow \in 0..MaxRosterNow
        /\ mSince' \in Seq(0..MaxRosterNow) /\ Len(mSince') = mHaf' /\ mSince'[mHaf'] = mNow
        /\ \A i \in 1..mHaf : mSince'[i] = mSince[i]
    BY DEF Roster!Index, RosterInv, Roster!TypeOK
  <1>2. Roster!TypeOK'
    BY <1>1 DEF Roster!Index, RosterInv, Roster!TypeOK
  <1>3. Aged'
    <2>1. ASSUME mCache # None
          PROVE  \A i \in (mCache.read + 1)..mHaf' : mCache.until <= mSince'[i] + Ttl
      <3>1. mCache.read \in Nat
        BY <2>1 DEF RosterInv, Roster!TypeOK
      <3> SUFFICES ASSUME NEW i \in (mCache.read + 1)..mHaf' PROVE mCache.until <= mSince'[i] + Ttl
        OBVIOUS
      <3>2. i = mHaf' \/ (i \in (mCache.read + 1)..mHaf /\ i \in 1..mHaf)
        <4>1. PICK read \in Nat : read = mCache.read
          BY <3>1
        <4>2. i \in (read + 1)..(mHaf + 1) /\ mHaf \in Nat /\ mHaf' = mHaf + 1
          BY <1>1, <4>1
        <4>3. i = mHaf' \/ (i \in (read + 1)..mHaf /\ i \in 1..mHaf)
          BY <4>1, <4>2
        <4> QED
          BY <4>1, <4>3
      <3> QED
        BY <1>1, <2>1, <3>2 DEF RosterInv, Aged
    <2> QED
      BY <2>1 DEF Roster!Index, RosterInv, Aged
  <1> QED
    BY <1>1, <1>2, <1>3, QuietStep DEF Roster!Index

\* Time passes, and the cached roster ages.
LEMMA TickStep ==
    ASSUME Roster!RosterAssumption, RosterInv, Roster!Tick
    PROVE  RosterInv'
  <1>1. /\ mNow' = mNow + 1 /\ mNow \in Nat /\ mNow' \in 0..MaxRosterNow /\ UNCHANGED <<mChain, mFlight, mHaf, mSince, mReq, mFaults, mStale>>
        /\ mCache' = IF mCache # None /\ mNow' >= mCache.until THEN None ELSE mCache
    <2>1. mNow \in 0..MaxRosterNow /\ MaxRosterNow \in Nat
      BY DEF RosterInv, Roster!TypeOK, Roster!RosterAssumption
    <2>2. /\ mNow < MaxRosterNow /\ mNow' = mNow + 1 /\ UNCHANGED <<mChain, mFlight, mHaf, mSince, mReq, mFaults, mStale>>
          /\ mCache' = IF mCache # None /\ mNow' >= mCache.until THEN None ELSE mCache
      BY DEF Roster!Tick, Roster!Chain
    <2> QED
      BY <2>1, <2>2
  <1>2. Roster!TypeOK' /\ mHaf <= mHaf'
    BY <1>1 DEF RosterInv, Roster!TypeOK
  <1>3. ASSUME mCache' # None
        PROVE  /\ mNow' <= mCache'.until /\ mCache'.until <= mNow' + Ttl
               /\ \A i \in (mCache'.read + 1)..mHaf' : mCache'.until <= mSince'[i] + Ttl
    <2>1. mCache' = mCache /\ mCache # None /\ ~(mNow' >= mCache.until)
      BY <1>1, <1>3
    <2>2. mCache.until \in Nat /\ Ttl \in Nat
      BY <2>1 DEF RosterInv, Roster!TypeOK, Roster!RosterAssumption
    <2> QED
      BY <1>1, <2>1, <2>2 DEF RosterInv, Aged
  <1>4. Aged'
    BY <1>3 DEF Aged
  <1> QED
    BY <1>1, <1>2, <1>4, QuietStep

(***************************************************************************)
(* The admin roster: the theorems.                                         *)
(***************************************************************************)

\* The initial states satisfy the invariant.
LEMMA RosterStarts ==
    ASSUME Roster!RosterAssumption, Roster!Init
    PROVE  RosterInv
  <1>1. Len(FirstOps) \in Nat /\ DOMAIN FirstOps = 1..Len(FirstOps)
    BY DEF Roster!RosterAssumption
  <1>2. Roster!TypeOK
    <2>1. IsFiniteSet(mFlight) /\ Cardinality(mFlight) = 0
      BY FS_EmptySet DEF Roster!Init
    <2>2. \A r \in Call : mReq[r] \in Roster!Request
      BY DEF Roster!Init, Roster!Resting, Roster!Request
    <2>3. mSince \in Seq(0..MaxRosterNow) /\ Len(mSince) = mHaf
      BY <1>1 DEF Roster!Init, Roster!RosterAssumption
    <2> QED
      <3>1. mChain \in Seq(Roster!Ops) /\ Len(mChain) + Cardinality(mFlight) <= MaxOps /\ mHaf \in 0..Len(mChain)
        BY <1>1, <2>1 DEF Roster!Init, Roster!RosterAssumption
      <3>2. mReq \in [Call -> Roster!Request] /\ mFlight \subseteq Roster!Ops
        BY <2>2 DEF Roster!Init
      <3>3. mNow \in 0..MaxRosterNow /\ mFaults \in 0..MaxRosterFaults
        <4>1. mNow = 0 /\ mFaults = 0 /\ MaxRosterNow \in Nat /\ MaxRosterFaults \in Nat
          BY DEF Roster!Init, Roster!RosterAssumption
        <4> QED
          BY <4>1
      <3>4. mStale \in BOOLEAN /\ mCache = None
        BY DEF Roster!Init
      <3> QED
        BY RosterCardinality, <2>1, <2>3, <3>1, <3>2, <3>3, <3>4 DEF Roster!TypeOK
  <1>3. Levels
    BY DEF Roster!Init, Levels, Roster!RosterAssumption, Roster!ToSet
  <1>4. Made /\ Allowed
    BY DEF Roster!Init, Made, Allowed, Roster!Resting
  <1>5. Roster!ReachHolds
    BY <1>1 DEF Roster!Init, Roster!ReachHolds
  <1> QED
    BY <1>2, <1>3, <1>4, <1>5 DEF Roster!Init, RosterInv, Aged, Roster!LapseBounded

\* The inductive invariant holds of every behaviour of the roster and its administrators.
THEOREM RosterInvariant ==
    ASSUME Roster!RosterAssumption
    PROVE  Roster!Spec => []RosterInv
  <1>1. Roster!Init => RosterInv
    BY RosterStarts
  <1>2. RosterInv /\ [Roster!Next]_Roster!vars => RosterInv'
    <2> SUFFICES ASSUME RosterInv, [Roster!Next]_Roster!vars PROVE RosterInv'
      OBVIOUS
    <2>1. CASE \E r \in Call : Roster!Step(r)
      <3> SUFFICES ASSUME NEW r \in Call, Roster!Step(r) PROVE RosterInv'
        BY <2>1
      <3>1. CASE \E act \in Acts, a \in Account : Roster!Admit(r, act, a)
        BY <3>1, AdmitStep
      <3>2. CASE Roster!Refused(r) \/ Roster!Fails(r)
        BY <3>2, RosterEndStep
      <3>3. CASE Roster!Broadcast(r)
        BY <3>3, BroadcastStep
      <3>4. CASE \E a \in Account, level \in Roster!Granted \cup {None} : Roster!Judge(r, a, level)
        BY <3>4, JudgeStep
      <3> QED
        BY <3>1, <3>2, <3>3, <3>4 DEF Roster!Step
    <2>2. CASE \E o \in mFlight : Roster!LandsLate(o)
      BY <2>2, LandsLateStep
    <2>3. CASE Roster!Index
      BY <2>3, IndexStep
    <2>4. CASE Roster!Tick
      BY <2>4, TickStep
    <2>5. CASE UNCHANGED Roster!vars
      <3>1. Roster!TypeOK' /\ Aged' /\ mHaf <= mHaf'
        BY <2>5 DEF Roster!vars, RosterInv, Roster!TypeOK, Aged
      <3> QED
        BY <2>5, <3>1, QuietStep DEF Roster!vars
    <2> QED
      BY <2>1, <2>2, <2>3, <2>4, <2>5 DEF Roster!Next
  <1> QED
    BY <1>1, <1>2, PTL DEF Roster!Spec

\* The roster, the ops and the requests of the administrators keep their types.
THEOREM RosterTyped ==
    ASSUME Roster!RosterAssumption
    PROVE  Roster!Spec => []Roster!TypeOK
  <1>1. RosterInv => Roster!TypeOK
    BY DEF RosterInv
  <1> QED
    BY <1>1, RosterInvariant, PTL

\* No administrator reaches above the own level (admin.ts, admin-roster.ts) but on a
\* view of the roster in which the level was not known yet; and a level that was taken away
\* admits nobody beyond the life of the cached roster, but for what was under way then.
THEOREM RosterHolds ==
    ASSUME Roster!RosterAssumption
    PROVE  Roster!Spec => []RosterSound
  <1>1. RosterInv => RosterSound
    BY DEF RosterInv, RosterSound
  <1> QED
    BY <1>1, RosterInvariant, PTL

(***************************************************************************)
(* Accreditation by email.                                                 *)
(***************************************************************************)

\* An instance has a copy of the standard operators of its own.
LEMMA EmailCardinality ==
    /\ \A S : Email!Cardinality(S) = Cardinality(S)
    /\ \A S : Email!IsFiniteSet(S) = IsFiniteSet(S)
  BY DEF Email!Cardinality, Cardinality, Email!IsFiniteSet, IsFiniteSet

(***************************************************************************)
(* Accreditation by email: the inductive invariant.                        *)
(***************************************************************************)

Flooring == {r \in Call : eReq[r].pc = "flooring"}

\* A counter that was dropped is below the broadcasts in flight by their number at most, and
\* each failure takes one more.
CountAbove ==
  /\ eCount - Cardinality(Email!Broadcasting) >= -(Cardinality(Call) + eFaults)
  /\ eSpare <= eFaults /\ eQueued <= eFaults

\* HAF forgets no op, and a lookup that was answered saw those it had.
Informed ==
  \A r \in Call : /\ eReq[r].knew => Email!Landed
                  /\ eReq[r].pc = "claiming" /\ eReq[r].knew => eReq[r].blind

\* The counter of an unspent token counts the broadcasts in flight at least.
Counted ==
  eToken # {} /\ eFaults = 0 => /\ Cardinality(Email!Broadcasting) <= eCount /\ Cardinality(Email!Broadcasting) <= MailCap
                                /\ Flooring = {}

EmailInv == Email!TypeOK /\ CountAbove /\ Informed /\ Counted /\ Email!TokenAccreditsOnce

(***************************************************************************)
(* Accreditation by email: what a step does to the sets of requests.       *)
(***************************************************************************)

\* One request moves, the others stay.
Moves(r, new) == new \in Email!Request /\ eReq' = [eReq EXCEPT ![r] = new]

\* The sets of requests are finite.
LEMMA Sizes ==
    ASSUME Email!EmailAssumption
    PROVE  /\ IsFiniteSet(Flooring) /\ Cardinality(Flooring) \in Nat 
           /\ IsFiniteSet(Email!Broadcasting) /\ Cardinality(Email!Broadcasting) \in Nat
           /\ Cardinality(Email!Broadcasting') \in Nat /\ Cardinality(Email!Broadcasting') <= Cardinality(Call)
           /\ Cardinality(Call) \in Nat
  <1>1. /\ Flooring \subseteq Call /\ Email!Broadcasting \subseteq Call
        /\ Flooring' \subseteq Call /\ Email!Broadcasting' \subseteq Call
    BY DEF Flooring, Email!Broadcasting
  <1> QED
    BY EmailCardinality, <1>1, FS_Subset, FS_CardinalityType DEF Email!EmailAssumption

\* A request that moves joins or leaves the sets of requests.
LEMMA SetsMove ==
    ASSUME Email!EmailAssumption, Email!TypeOK, NEW r \in Call, NEW new \in Email!Request, Moves(r, new)
    PROVE  /\ eReq' \in [Call -> Email!Request] /\ eReq'[r] = new /\ \A q \in Call : q # r => eReq'[q] = eReq[q]
           /\ new.pc = "flooring" => Flooring' = Flooring \cup {r}
           /\ new.pc # "flooring" => Flooring' = Flooring \ {r}
           /\ new.pc = "broadcasting" => Email!Broadcasting' = Email!Broadcasting \cup {r}
           /\ new.pc # "broadcasting" => Email!Broadcasting' = Email!Broadcasting \ {r}
  <1>1. eReq' \in [Call -> Email!Request] /\ eReq'[r] = new /\ \A q \in Call : q # r => eReq'[q] = eReq[q]
    BY DEF Moves, Email!TypeOK
  <1> QED
    BY <1>1 DEF Flooring, Email!Broadcasting

\* Their sizes change by that one request.
LEMMA SizesMove ==
    ASSUME Email!EmailAssumption, Email!TypeOK, NEW r \in Call, NEW new \in Email!Request, Moves(r, new)
    PROVE  /\ Cardinality(Flooring') =
                Cardinality(Flooring) + (IF new.pc = "flooring" THEN 1 ELSE 0) - (IF r \in Flooring THEN 1 ELSE 0)
           /\ Cardinality(Email!Broadcasting') =
                Cardinality(Email!Broadcasting) + (IF new.pc = "broadcasting" THEN 1 ELSE 0)
                  - (IF r \in Email!Broadcasting THEN 1 ELSE 0)
  <1>1. /\ IsFiniteSet(Flooring) /\ Cardinality(Flooring) \in Nat
        /\ IsFiniteSet(Email!Broadcasting) /\ Cardinality(Email!Broadcasting) \in Nat
    BY Sizes
  <1>2. ASSUME NEW S, IsFiniteSet(S), Cardinality(S) \in Nat
        PROVE  /\ Cardinality(S \cup {r}) = Cardinality(S) + 1 - (IF r \in S THEN 1 ELSE 0)
               /\ Cardinality(S \ {r}) = Cardinality(S) - (IF r \in S THEN 1 ELSE 0)
    <2>1. Cardinality(S \cup {r}) = IF r \in S THEN Cardinality(S) ELSE Cardinality(S) + 1
      BY <1>2, FS_AddElement
    <2>2. Cardinality(S \ {r}) = IF r \in S THEN Cardinality(S) - 1 ELSE Cardinality(S)
      BY <1>2, FS_RemoveElement
    <2> QED
      BY <1>2, <2>1, <2>2
  <1>3. /\ Cardinality(Flooring \cup {r}) = Cardinality(Flooring) + 1 - (IF r \in Flooring THEN 1 ELSE 0)
        /\ Cardinality(Flooring \ {r}) = Cardinality(Flooring) - (IF r \in Flooring THEN 1 ELSE 0)
        /\ Cardinality(Email!Broadcasting \cup {r}) = Cardinality(Email!Broadcasting) + 1 - (IF r \in Email!Broadcasting THEN 1 ELSE 0)
        /\ Cardinality(Email!Broadcasting \ {r}) = Cardinality(Email!Broadcasting) - (IF r \in Email!Broadcasting THEN 1 ELSE 0)
    BY <1>1, <1>2
  <1>4. /\ Flooring' = IF new.pc = "flooring" THEN Flooring \cup {r} ELSE Flooring \ {r}
        /\ Email!Broadcasting' = IF new.pc = "broadcasting" THEN Email!Broadcasting \cup {r} ELSE Email!Broadcasting \ {r}
    BY SetsMove
  <1> QED
    BY <1>1, <1>3, <1>4

(***************************************************************************)
(* Accreditation by email: the parts, when one request moves.              *)
(***************************************************************************)

\* HAF forgets nothing: the ops that were indexed are.
Kept == Email!Landed => Email!Landed'

\* The moved request knows what HAF has, and is informed.
InformedAs(new) == (new.knew => Email!Landed') /\ (new.pc = "claiming" /\ new.knew => new.blind)

\* A request that moves informed leaves all informed.
LEMMA InformedMoves ==
    ASSUME Email!EmailAssumption, Email!TypeOK, Informed, NEW r \in Call, NEW new \in Email!Request, Moves(r, new), Kept, InformedAs(new)
    PROVE  Informed'
  <1>1. eReq'[r] = new /\ \A q \in Call : q # r => eReq'[q] = eReq[q]
    BY SetsMove
  <1> QED
    BY <1>1 DEF Informed, Kept, InformedAs

\* The counters, whatever the handler does to them.
LEMMA CountMoves ==
    ASSUME Email!EmailAssumption, EmailInv, NEW r \in Call, NEW new \in Email!Request, Moves(r, new),
           eFaults' \in 0..MaxFaults, eSpare' \in Nat, eQueued' \in Nat, eCount' \in Int,
           eCount' <= MaxSent,
           eFaults' = eFaults \/ eFaults' = eFaults + 1,
           eSpare' <= eSpare \/ (eSpare' = eSpare + 1 /\ eFaults' = eFaults + 1),
           eQueued' <= eQueued \/ (eQueued' = eQueued + 1 /\ eFaults' = eFaults + 1),
           \/ eCount' >= 0
           \/ eCount' >= eCount /\ new.pc # "broadcasting"
           \/ eCount' >= eCount /\ eFaults' = eFaults + 1
           \/ eCount' = eCount + 1
           \/ eCount' = eCount - 1 /\ r \in Email!Broadcasting /\ new.pc # "broadcasting"
    PROVE  CountAbove' /\ eCount' \in -(Cardinality(Call) + MaxFaults)..MaxSent /\ eSpare' \in 0..MaxFaults
           /\ eQueued' \in 0..MaxFaults
  <1>1. /\ Cardinality(Email!Broadcasting) \in Nat /\ Cardinality(Email!Broadcasting') \in Nat
        /\ Cardinality(Email!Broadcasting') <= Cardinality(Call) /\ Cardinality(Call) \in Nat
    BY Sizes
  <1>2. Cardinality(Email!Broadcasting') =
          Cardinality(Email!Broadcasting) + (IF new.pc = "broadcasting" THEN 1 ELSE 0) - (IF r \in Email!Broadcasting THEN 1 ELSE 0)
    BY SizesMove DEF EmailInv
  <1>3. eFaults \in Nat /\ eCount \in Int /\ eSpare \in Nat /\ eQueued \in Nat /\ MaxFaults \in Nat /\ MaxSent \in Nat
    BY <1>1 DEF EmailInv, Email!TypeOK, Email!EmailAssumption
  <1>4. eCount - Cardinality(Email!Broadcasting) >= -(Cardinality(Call) + eFaults) /\ eSpare <= eFaults /\ eQueued <= eFaults
    BY DEF EmailInv, CountAbove
  <1>5. eCount' - Cardinality(Email!Broadcasting') >= -(Cardinality(Call) + eFaults')
    BY <1>1, <1>2, <1>3, <1>4
  <1>6. eSpare' <= eFaults' /\ eQueued' <= eFaults'
    BY <1>3, <1>4
  <1> QED
    BY <1>1, <1>3, <1>5, <1>6 DEF CountAbove

\* While the token is unspent and nothing fails.
LEMMA CountedMoves ==
    ASSUME Email!EmailAssumption, EmailInv, NEW r \in Call, NEW new \in Email!Request, Moves(r, new),
           eCount \in Int, eCount' \in Int,
           eToken' \subseteq eToken, eFaults' \in Nat, eFaults' >= eFaults,
           eFaults' = 0 /\ eToken' # {} =>
             /\ new.pc = "flooring" => eCount' < 0
             /\ \/ new.pc = "broadcasting" /\ eCount' = eCount + 1 /\ eCount' <= MailCap
                \/ eCount' >= eCount /\ new.pc # "broadcasting"
                \/ r \in Email!Broadcasting /\ eCount' = eCount - 1 /\ new.pc # "broadcasting"
    PROVE  Counted'
  <1> SUFFICES ASSUME eToken' # {}, eFaults' = 0
               PROVE  /\ Cardinality(Email!Broadcasting') <= eCount' /\ Cardinality(Email!Broadcasting') <= MailCap /\ Flooring' = {}
    BY DEF Counted
  <1>1. eFaults \in Nat /\ MailCap \in Nat
    BY DEF EmailInv, Email!TypeOK, Email!EmailAssumption
  <1>2. Cardinality(Email!Broadcasting) <= eCount /\ Cardinality(Email!Broadcasting) <= MailCap /\ Flooring = {}
    BY <1>1 DEF EmailInv, Counted
  <1>3. Cardinality(Email!Broadcasting) \in Nat /\ Cardinality(Email!Broadcasting') \in Nat /\ IsFiniteSet(Email!Broadcasting)
    BY Sizes
  <1>4. Cardinality(Email!Broadcasting') =
          Cardinality(Email!Broadcasting) + (IF new.pc = "broadcasting" THEN 1 ELSE 0) - (IF r \in Email!Broadcasting THEN 1 ELSE 0)
    BY SizesMove DEF EmailInv
  <1>5. Cardinality(Email!Broadcasting') <= eCount' /\ Cardinality(Email!Broadcasting') <= MailCap
    BY <1>1, <1>2, <1>3, <1>4
  <1>6. new.pc # "flooring"
    BY <1>3, <1>5
  <1>7. Flooring' = Flooring \ {r}
    BY <1>6, SetsMove DEF EmailInv
  <1> QED
    BY <1>2, <1>5, <1>7

(***************************************************************************)
(* Accreditation by email: ways a token ends.                              *)
(***************************************************************************)

\* Whatever ends a token takes copies of it away, and counters, and is a failure or takes all;
\* what was counted in memory stays or goes.
LEMMA TokenEnds ==
    ASSUME Email!EmailAssumption, EmailInv, Email!DeleteToken \/ Email!RecordCompletion
    PROVE  /\ eToken' \subseteq eToken /\ eCount' \in {0, eCount} /\ eSpare' \in {0, eSpare}
           /\ eFaults' \in 0..MaxFaults /\ eFaults' \in {eFaults, eFaults + 1}
           /\ eFaults' = 0 => eToken' = {}
           /\ Email!RecordCompletion => eDone' \subseteq Email!Tier
  <1>1. eFaults \in Nat /\ MaxFaults \in Nat
    BY DEF EmailInv, Email!TypeOK, Email!EmailAssumption
  <1>2. Email!Tier = {"redis", "memory"} /\ eDone \subseteq Email!Tier
    BY DEF Email!Tier, EmailInv, Email!TypeOK
  <1> QED
    <2>1. eFaults \in 0..MaxFaults
      BY DEF EmailInv, Email!TypeOK
    <2>2. CASE eToken' = {} /\ Email!DropCounter /\ Email!NoFault /\ (eDone' = Email!Tier \/ ~Email!RecordCompletion)
      BY <1>2, <2>1, <2>2 DEF Email!DropCounter, Email!NoFault
    <2>3. CASE eToken' = eToken \ {"memory"} /\ eSpare' = 0 /\ UNCHANGED eCount /\ Email!Fault
               /\ (eDone' = eDone \cup {"memory"} \/ ~Email!RecordCompletion)
      <3>1. eDone' \subseteq Email!Tier \/ ~Email!RecordCompletion
        BY <1>2, <2>3
      <3>2. eFaults' \in 0..MaxFaults /\ eFaults' = eFaults + 1
        BY <1>1, <2>1, <2>3 DEF Email!Fault
      <3> QED
        BY <1>1, <2>3, <3>1, <3>2
    <2>4. CASE eToken' \in {{}, eToken, eToken \ {"redis"}} /\ UNCHANGED <<eCount, eSpare>> /\ Email!Fault
               /\ ~Email!RecordCompletion
      <3>1. eFaults' \in 0..MaxFaults /\ eFaults' = eFaults + 1
        BY <1>1, <2>1, <2>4 DEF Email!Fault
      <3> QED
        BY <1>1, <2>4, <3>1
    <2>5. CASE Email!RecordCompletion
      BY <2>2, <2>3, <2>5 DEF Email!RecordCompletion
    <2>6. CASE Email!DeleteToken /\ ~Email!RecordCompletion
      BY <2>2, <2>3, <2>4, <2>6 DEF Email!DeleteToken
    <2> QED
      BY <2>5, <2>6

\* A step of a request that sends nothing and takes no count but its own.
LEMMA EmailReqStep ==
    ASSUME Email!EmailAssumption, EmailInv, NEW r \in Call, NEW new \in Email!Request, Moves(r, new), InformedAs(new),
           new.pc # "broadcasting",
           eToken' \subseteq eToken, eDone' \subseteq Email!Tier, UNCHANGED <<eOps, eStanding>>,
           eCount' \in Int, eCount' <= MaxSent, eSpare' \in Nat, eQueued' \in Nat,
           eFaults' \in 0..MaxFaults, eFaults' \in {eFaults, eFaults + 1},
           eSpare' <= eSpare \/ (eSpare' = eSpare + 1 /\ eFaults' = eFaults + 1),
           eQueued' <= eQueued \/ (eQueued' = eQueued + 1 /\ eFaults' = eFaults + 1),
           eCount' >= 0 \/ eCount' >= eCount \/ (eCount' = eCount - 1 /\ r \in Email!Broadcasting),
           eFaults' = 0 /\ eToken' # {} =>
             /\ new.pc = "flooring" => eCount' < 0
             /\ eCount' >= eCount \/ (r \in Email!Broadcasting /\ eCount' = eCount - 1)
    PROVE  EmailInv'
  <1>1. eReq' \in [Call -> Email!Request]
    BY SetsMove DEF EmailInv
  <1>2. CountAbove' /\ eCount' \in -(Cardinality(Call) + MaxFaults)..MaxSent /\ eSpare' \in 0..MaxFaults
        /\ eQueued' \in 0..MaxFaults
    BY CountMoves
  <1>3. eFaults \in Nat /\ eCount \in Int
    BY Sizes DEF EmailInv, Email!TypeOK, Email!EmailAssumption
  <1>4. Counted'
    BY <1>3, CountedMoves
  <1>5. Kept
    BY DEF Kept, Email!Landed
  <1>6. Informed'
    BY <1>5, InformedMoves DEF EmailInv
  <1>7. Email!TokenAccreditsOnce'
    BY DEF EmailInv, Email!TokenAccreditsOnce
  <1>8. Email!TypeOK'
    BY EmailCardinality, <1>1, <1>2 DEF EmailInv, Email!TypeOK
  <1> QED
    BY <1>2, <1>4, <1>6, <1>7, <1>8 DEF EmailInv

\* The records a handler writes.
LEMMA EmailRecords ==
    ASSUME Email!EmailAssumption, EmailInv, NEW r \in Call
    PROVE  /\ Email!IdleRequest \in Email!Request /\ Email!IdleRequest.pc = "idle" /\ ~Email!IdleRequest.knew
           /\ Email!Ends(r) => Moves(r, Email!IdleRequest)
           /\ \A pc \in {"looking", "claiming", "broadcasting", "flooring"} :
                Email!Goes(r, pc) => \E new \in Email!Request : /\ Moves(r, new) /\ new.pc = pc
                                                                /\ new.knew = eReq[r].knew /\ new.blind = eReq[r].blind
  <1>1. Email!IdleRequest \in Email!Request /\ Email!IdleRequest.pc = "idle" /\ ~Email!IdleRequest.knew
    BY DEF Email!IdleRequest, Email!Request, Email!EmailAssumption
  <1>2. Email!Ends(r) => Moves(r, Email!IdleRequest)
    BY <1>1 DEF Email!Ends, Moves
  <1>3. eReq[r] \in Email!Request
    BY DEF EmailInv, Email!TypeOK
  <1>4. ASSUME NEW pc \in {"looking", "claiming", "broadcasting", "flooring"}, Email!Goes(r, pc)
        PROVE  \E new \in Email!Request : /\ Moves(r, new) /\ new.pc = pc
                                          /\ new.knew = eReq[r].knew /\ new.blind = eReq[r].blind
    <2>1. PICK new : new = [eReq[r] EXCEPT !.pc = pc]
      OBVIOUS
    <2>2. new \in Email!Request /\ new.pc = pc /\ new.knew = eReq[r].knew /\ new.blind = eReq[r].blind
      BY <1>3, <2>1 DEF Email!Request
    <2>3. Moves(r, new)
      BY <1>4, <2>1, <2>2 DEF Email!Goes, Moves
    <2> QED
      BY <2>2, <2>3
  <1> QED
    BY <1>1, <1>2, <1>4

\* The op is known to have landed, or the account to be accredited: the request ends, and the token.
LEMMA EmailEndStep ==
    ASSUME Email!EmailAssumption, EmailInv, NEW r \in Call, Email!Ends(r),
           Email!DeleteToken \/ Email!RecordCompletion, eDone' = eDone \/ Email!RecordCompletion, UNCHANGED <<eQueued, eOps, eStanding>>
    PROVE  EmailInv'
  <1>1. /\ Email!IdleRequest \in Email!Request /\ Email!IdleRequest.pc = "idle" /\ ~Email!IdleRequest.knew /\ Moves(r, Email!IdleRequest)
    BY EmailRecords
  <1>2. /\ eToken' \subseteq eToken /\ eCount' \in {0, eCount} /\ eSpare' \in {0, eSpare}
        /\ eFaults' \in 0..MaxFaults /\ eFaults' \in {eFaults, eFaults + 1}
        /\ eFaults' = 0 => eToken' = {}
        /\ eDone' \subseteq Email!Tier
    BY TokenEnds DEF EmailInv, Email!TypeOK
  <1>3. /\ eCount \in Int /\ eCount <= MaxSent /\ MaxSent \in Nat /\ eSpare \in Nat /\ eQueued \in Nat
    BY Sizes DEF EmailInv, Email!TypeOK, Email!EmailAssumption
  <1>4. InformedAs(Email!IdleRequest)
    BY <1>1 DEF InformedAs
  <1>5. eCount' \in Int /\ eCount' <= MaxSent /\ (eCount' >= 0 \/ eCount' >= eCount)
    BY <1>2, <1>3
  <1>6. eSpare' \in Nat /\ eSpare' <= eSpare /\ eQueued' \in Nat /\ eQueued' <= eQueued
    BY <1>2, <1>3
  <1>7. Email!IdleRequest.pc # "broadcasting" /\ Email!IdleRequest.pc # "flooring"
    BY <1>1
  <1>8. eFaults' = 0 /\ eToken' # {} => eCount' >= eCount \/ (r \in Email!Broadcasting /\ eCount' = eCount - 1)
    BY <1>2
  <1> QED
    <2>1. UNCHANGED <<eOps, eStanding>>
      OBVIOUS
    <2>2. /\ eSpare' <= eSpare \/ (eSpare' = eSpare + 1 /\ eFaults' = eFaults + 1)
          /\ eQueued' <= eQueued \/ (eQueued' = eQueued + 1 /\ eFaults' = eFaults + 1)
          /\ eCount' >= 0 \/ eCount' >= eCount \/ (eCount' = eCount - 1 /\ r \in Email!Broadcasting)
      BY <1>5, <1>6
    <2> QED
      BY <1>1, <1>2, <1>4, <1>5, <1>6, <1>7, <1>8, <2>1, <2>2, EmailReqStep

(***************************************************************************)
(* Accreditation by email: one lemma for each action.                      *)
(***************************************************************************)

\* The ranges of the counters, in a step too.
LEMMA Numbers ==
    ASSUME Email!EmailAssumption, EmailInv
    PROVE  /\ eCount \in Int /\ eCount <= MaxSent /\ MaxSent \in Nat /\ eSpare \in Nat /\ eQueued \in Nat
           /\ eFaults \in 0..MaxFaults /\ MaxFaults \in Nat /\ MailCap \in Nat
           /\ eToken' = eToken => eToken' \subseteq eToken
           /\ eDone' = eDone => eDone' \subseteq Email!Tier
           /\ Email!NoFault => eFaults' \in 0..MaxFaults /\ eFaults' = eFaults
           /\ Email!Fault => eFaults' \in 0..MaxFaults /\ eFaults' = eFaults + 1 /\ eFaults' # 0
  BY Sizes DEF EmailInv, Email!TypeOK, Email!EmailAssumption, Email!Fault, Email!NoFault

\* A token that is there goes on.
LEMMA PresentStep ==
    ASSUME Email!EmailAssumption, EmailInv, NEW r \in Call, Email!Present(r)
    PROVE  EmailInv'
  <1>1. PICK b \in BOOLEAN : b = Email!Landed
    BY DEF Email!Landed
  <1>2. PICK new : new = [Email!IdleRequest EXCEPT !.pc = "gating", !.knew = b]
    OBVIOUS
  <1>3. new \in Email!Request /\ new.pc = "gating" /\ new.knew = b
    BY <1>2, EmailRecords DEF Email!Request
  <1>4. Moves(r, new)
    BY <1>1, <1>2, <1>3 DEF Email!Present, Moves
  <1>5. InformedAs(new)
    BY <1>1, <1>3 DEF InformedAs, Email!Landed, Email!Present
  <1>6. UNCHANGED <<eToken, eCount, eSpare, eQueued, eDone, eOps, eStanding, eFaults>>
    BY DEF Email!Present
  <1> QED
    BY <1>3, <1>4, <1>5, <1>6, Numbers, EmailReqStep

\* A request that goes on to ask HAF, or to claim.
LEMMA GoesStep ==
    ASSUME Email!EmailAssumption, EmailInv, NEW r \in Call, NEW new \in Email!Request, Moves(r, new), InformedAs(new),
           new.pc \in {"looking", "claiming", "idle"},
           UNCHANGED <<eToken, eCount, eSpare, eQueued, eDone, eOps, eStanding>>, Email!NoFault \/ Email!Fault
    PROVE  EmailInv'
  <1>1. new.pc # "broadcasting" /\ new.pc # "flooring"
    OBVIOUS
  <1> QED
    BY <1>1, Numbers, EmailReqStep

\* An idle request is informed.
LEMMA IdleInformed ==
    ASSUME Email!EmailAssumption, EmailInv, NEW r \in Call
    PROVE  Email!IdleRequest \in Email!Request /\ Email!IdleRequest.pc = "idle" /\ InformedAs(Email!IdleRequest) /\ (Email!Ends(r) => Moves(r, Email!IdleRequest))
  BY EmailRecords DEF InformedAs

\* The account is accredited, sanctioned, or goes on.
LEMMA GateStep ==
    ASSUME Email!EmailAssumption, EmailInv, NEW r \in Call, Email!Gate(r)
    PROVE  EmailInv'
  <1>1. CASE Email!RecordCompletion /\ Email!Ends(r)
    BY <1>1, EmailEndStep DEF Email!Gate
  <1>2. CASE Email!Goes(r, "looking") /\ UNCHANGED <<eToken, eCount, eSpare, eDone, eFaults>>
    <2>1. PICK new \in Email!Request : /\ Moves(r, new) /\ new.pc = "looking"
                                       /\ new.knew = eReq[r].knew /\ new.blind = eReq[r].blind
      BY <1>2, EmailRecords
    <2>2. InformedAs(new)
      BY <2>1 DEF InformedAs, EmailInv, Informed, Email!Gate, Email!Landed
    <2> QED
      BY <1>2, <2>1, <2>2, GoesStep DEF Email!Gate, Email!NoFault
  <1>3. CASE Email!Ends(r) /\ UNCHANGED <<eToken, eCount, eSpare, eDone, eFaults>>
    BY <1>3, IdleInformed, GoesStep DEF Email!Gate, Email!NoFault
  <1> QED
    BY <1>1, <1>2, <1>3 DEF Email!Gate

\* The op is known to be on the chain, and the token ends.
LEMMA EmailConfirmedStep ==
    ASSUME Email!EmailAssumption, EmailInv, NEW r \in Call, Email!Confirmed(r)
    PROVE  EmailInv'
  BY EmailEndStep DEF Email!Confirmed

\* HAF is asked for the op of the token.
LEMMA LookUpStep ==
    ASSUME Email!EmailAssumption, EmailInv, NEW r \in Call, Email!LookUp(r)
    PROVE  EmailInv'
  <1>1. CASE Email!Confirmed(r)
    BY <1>1, EmailConfirmedStep
  <1>2. CASE ~Email!LandedBefore /\ Email!Goes(r, "claiming")
             /\ UNCHANGED <<eToken, eCount, eSpare, eQueued, eDone, eOps, eStanding, eFaults>>
    <2>1. PICK new \in Email!Request : /\ Moves(r, new) /\ new.pc = "claiming"
                                       /\ new.knew = eReq[r].knew /\ new.blind = eReq[r].blind
      BY <1>2, EmailRecords
    <2>2. ~eReq[r].knew
      BY <1>2 DEF Email!LandedBefore, EmailInv, Informed
    <2>3. InformedAs(new)
      BY <2>1, <2>2 DEF InformedAs
    <2> QED
      BY <1>2, <2>1, <2>3, GoesStep DEF Email!NoFault
  <1>3. CASE /\ Email!Fault /\ eReq' = [eReq EXCEPT ![r].pc = "claiming", ![r].blind = TRUE]
             /\ UNCHANGED <<eToken, eCount, eSpare, eQueued, eDone, eOps, eStanding>>
    <2>1. PICK new : new = [eReq[r] EXCEPT !.pc = "claiming", !.blind = TRUE]
      OBVIOUS
    <2>2. eReq[r] \in Email!Request
      BY DEF EmailInv, Email!TypeOK
    <2>3. new \in Email!Request /\ new.pc = "claiming" /\ new.knew = eReq[r].knew /\ new.blind = TRUE
      BY <2>1, <2>2 DEF Email!Request
    <2>4. Moves(r, new)
      BY <1>3, <2>1, <2>3 DEF Moves
    <2>5. InformedAs(new)
      BY <1>3, <2>3 DEF InformedAs, EmailInv, Informed, Email!Landed
    <2> QED
      BY <1>3, <2>3, <2>4, <2>5, GoesStep
  <1> QED
    BY <1>1, <1>2, <1>3 DEF Email!LookUp

\* A claim within the cap: the op is sent for a request that was informed.
LEMMA SendStep ==
    ASSUME Email!EmailAssumption, EmailInv, NEW r \in Call, eReq[r].pc = "claiming", Len(eOps) < MaxSent,
           eOps' = Append(eOps, [fate |-> "flight", knew |-> eReq[r].knew, blind |-> eReq[r].blind]),
           eReq' = [eReq EXCEPT ![r].pc = "broadcasting", ![r].op = Len(eOps) + 1],
           UNCHANGED <<eToken, eQueued, eDone, eStanding>>,
           \/ eCount' = eCount + 1 /\ eCount' <= MailCap /\ UNCHANGED eSpare /\ Email!NoFault
           \/ eSpare' = eSpare + 1 /\ UNCHANGED eCount /\ Email!Fault,
           eCount < MaxSent
    PROVE  EmailInv'
  <1>1. PICK o : o = [fate |-> "flight", knew |-> eReq[r].knew, blind |-> eReq[r].blind]
    OBVIOUS
  <1>2. PICK new : new = [eReq[r] EXCEPT !.pc = "broadcasting", !.op = Len(eOps) + 1]
    OBVIOUS
  <1>3. eReq[r] \in Email!Request /\ eOps \in Seq(Email!OpRec) /\ Len(eOps) + 1 \in 0..MaxSent
    BY DEF EmailInv, Email!TypeOK, Email!EmailAssumption
  <1>4. /\ new \in Email!Request /\ new.pc = "broadcasting" /\ new.knew = eReq[r].knew
    BY <1>2, <1>3 DEF Email!Request
  <1>5. o \in Email!OpRec /\ o.knew = eReq[r].knew /\ o.blind = eReq[r].blind
    <2>1. "flight" \in Email!Fate /\ eReq[r].knew \in BOOLEAN /\ eReq[r].blind \in BOOLEAN
      BY <1>3 DEF Email!Request, Email!Fate
    <2> QED
      BY <1>1, <2>1 DEF Email!OpRec
  <1>6. Moves(r, new)
    BY <1>2, <1>4 DEF Moves
  <1>7. /\ eOps' \in Seq(Email!OpRec) /\ Len(eOps') = Len(eOps) + 1 /\ eOps'[Len(eOps) + 1] = o
        /\ \A i \in 1..Len(eOps) : eOps'[i] = eOps[i]
        /\ DOMAIN eOps = 1..Len(eOps) /\ DOMAIN eOps' = 1..Len(eOps')
    BY <1>1, <1>3, <1>5
  <1>8. Kept
    <2> SUFFICES ASSUME NEW i \in DOMAIN eOps, eOps[i].fate = "indexed" PROVE Email!Landed'
      BY DEF Kept, Email!Landed
    <2>1. i \in 1..Len(eOps) /\ i \in DOMAIN eOps'
      BY <1>3, <1>7
    <2>2. eOps'[i].fate = "indexed"
      BY <1>7, <2>1
    <2> QED
      BY <2>1, <2>2 DEF Email!Landed
  <1>9. InformedAs(new)
    BY <1>4, <1>8 DEF InformedAs, EmailInv, Informed, Kept
  <1>10. Email!TokenAccreditsOnce'
    <2>1. o.knew => o.blind
      BY <1>5 DEF EmailInv, Informed
    <2> SUFFICES ASSUME NEW i \in DOMAIN eOps' PROVE eOps'[i].knew => eOps'[i].blind
      BY DEF Email!TokenAccreditsOnce
    <2>2. i \in 1..Len(eOps) \/ i = Len(eOps) + 1
      BY <1>3, <1>7
    <2>3. CASE i \in 1..Len(eOps)
      BY <1>7, <2>3 DEF EmailInv, Email!TokenAccreditsOnce
    <2> QED
      BY <1>7, <2>1, <2>2, <2>3
  <1>11. /\ eCount \in Int /\ eCount <= MaxSent /\ MaxSent \in Nat /\ eSpare \in Nat /\ eQueued \in Nat
         /\ eFaults \in 0..MaxFaults /\ MaxFaults \in Nat
         /\ Email!NoFault => eFaults' \in 0..MaxFaults /\ eFaults' = eFaults
         /\ Email!Fault => eFaults' \in 0..MaxFaults /\ eFaults' = eFaults + 1 /\ eFaults' # 0
    BY Numbers
  <1>12. /\ eFaults' \in 0..MaxFaults /\ eCount' \in Int /\ eCount' <= MaxSent /\ eSpare' \in Nat
         /\ eSpare' <= eSpare \/ (eSpare' = eSpare + 1 /\ eFaults' = eFaults + 1)
         /\ eCount' = eCount + 1 \/ (eCount' >= eCount /\ eFaults' = eFaults + 1)
         /\ eFaults' = eFaults \/ eFaults' = eFaults + 1
         /\ eFaults' = 0 => eCount' = eCount + 1 /\ eCount' <= MailCap
    BY <1>11
  <1>13. CountAbove' /\ eCount' \in -(Cardinality(Call) + MaxFaults)..MaxSent /\ eSpare' \in 0..MaxFaults
         /\ eQueued' \in 0..MaxFaults
    BY <1>4, <1>6, <1>11, <1>12, CountMoves
  <1>14. Counted'
    <2>1. eToken' \subseteq eToken /\ eFaults' \in Nat /\ eFaults' >= eFaults /\ new.pc # "flooring"
      BY <1>4, <1>11, <1>12
    <2> QED
      BY <1>4, <1>6, <1>11, <1>12, <2>1, CountedMoves
  <1>15. Email!TypeOK'
    <2>1. eReq' \in [Call -> Email!Request]
      BY <1>4, <1>6, SetsMove DEF EmailInv
    <2> QED
      BY EmailCardinality, <1>3, <1>7, <1>12, <1>13, <2>1 DEF EmailInv, Email!TypeOK
  <1>16. Informed'
    BY <1>4, <1>6, <1>8, <1>9, InformedMoves DEF EmailInv
  <1> QED
    BY <1>10, <1>13, <1>14, <1>15, <1>16 DEF EmailInv

\* A broadcast is counted, and goes out below the cap.
LEMMA ClaimStep ==
    ASSUME Email!EmailAssumption, EmailInv, NEW r \in Call, Email!Claim(r)
    PROVE  EmailInv'
  <1>1. /\ eReq[r].pc = "claiming" /\ eCount < MaxSent /\ UNCHANGED <<eToken, eQueued, eDone, eStanding>>
    BY DEF Email!Claim
  <1>2. /\ eCount \in Int /\ eCount <= MaxSent /\ MaxSent \in Nat /\ eSpare \in Nat /\ eQueued \in Nat
        /\ eFaults \in 0..MaxFaults /\ MaxFaults \in Nat
        /\ eToken' \subseteq eToken /\ eDone' \subseteq Email!Tier
        /\ Email!NoFault => eFaults' \in 0..MaxFaults /\ eFaults' = eFaults
        /\ Email!Fault => eFaults' \in 0..MaxFaults /\ eFaults' = eFaults + 1 /\ eFaults' # 0
    BY <1>1, Numbers
  <1>3. /\ Email!IdleRequest \in Email!Request /\ Email!IdleRequest.pc # "broadcasting" /\ Email!IdleRequest.pc # "flooring"
        /\ InformedAs(Email!IdleRequest) /\ (Email!Ends(r) => Moves(r, Email!IdleRequest))
    BY IdleInformed
  <1>4. ASSUME Email!Ends(r), UNCHANGED eOps, eCount' \in {eCount, eCount + 1}, eSpare' \in {eSpare, eSpare + 1},
               \/ UNCHANGED eSpare /\ Email!NoFault
               \/ Email!Fault
        PROVE  EmailInv'
    <2>1. /\ eCount' \in Int /\ eCount' <= MaxSent /\ eCount' >= eCount /\ eSpare' \in Nat /\ eQueued' \in Nat
          /\ eSpare' <= eSpare \/ (eSpare' = eSpare + 1 /\ eFaults' = eFaults + 1)
          /\ eQueued' <= eQueued
          /\ eFaults' \in 0..MaxFaults /\ eFaults' \in {eFaults, eFaults + 1}
      BY <1>1, <1>2, <1>4
    <2> QED
      BY <1>1, <1>2, <1>3, <1>4, <2>1, EmailReqStep
  <1>5. CASE eCount' = eCount + 1 /\ Email!Claimed(r, eCount') /\ UNCHANGED eSpare /\ Email!NoFault
    <2>1. CASE eCount' <= MailCap /\ Len(eOps) < MaxSent
      BY <1>1, <1>5, <2>1, SendStep DEF Email!Claimed
    <2>2. CASE ~(eCount' <= MailCap /\ Len(eOps) < MaxSent)
      BY <1>4, <1>5, <2>2 DEF Email!Claimed
    <2> QED
      BY <2>1, <2>2
  <1>6. CASE eSpare' = eSpare + 1 /\ Email!Claimed(r, eSpare') /\ UNCHANGED eCount /\ Email!Fault
    <2>1. CASE eSpare' <= MailCap /\ Len(eOps) < MaxSent
      BY <1>1, <1>6, <2>1, SendStep DEF Email!Claimed
    <2>2. CASE ~(eSpare' <= MailCap /\ Len(eOps) < MaxSent)
      BY <1>4, <1>6, <2>2 DEF Email!Claimed
    <2> QED
      BY <2>1, <2>2
  <1>7. CASE eCount' \in {eCount, eCount + 1} /\ Email!Ends(r) /\ UNCHANGED <<eSpare, eOps>> /\ Email!Fault
    BY <1>4, <1>7
  <1> QED
    BY <1>5, <1>6, <1>7 DEF Email!Claim

\* The broadcast times out, and the token stays.
LEMMA TimesOutStep ==
    ASSUME Email!EmailAssumption, EmailInv, NEW r \in Call, Email!TimesOut(r)
    PROVE  EmailInv'
  <1>1. /\ eReq[r].pc = "broadcasting" /\ Email!Decrement(r) /\ UNCHANGED <<eToken, eSpare, eDone, eOps, eStanding>>
    BY DEF Email!TimesOut
  <1>2. /\ eCount \in Int /\ eCount <= MaxSent /\ MaxSent \in Nat /\ eSpare \in Nat /\ eQueued \in Nat
        /\ eFaults \in 0..MaxFaults /\ MaxFaults \in Nat
        /\ eToken' \subseteq eToken /\ eDone' \subseteq Email!Tier
        /\ Email!NoFault => eFaults' \in 0..MaxFaults /\ eFaults' = eFaults
        /\ Email!Fault => eFaults' \in 0..MaxFaults /\ eFaults' = eFaults + 1 /\ eFaults' # 0
    BY <1>1, Numbers
  <1>3. r \in Email!Broadcasting
    BY <1>1 DEF Email!Broadcasting
  <1>4. ASSUME NEW new \in Email!Request, Moves(r, new), InformedAs(new), new.pc # "broadcasting",
               new.pc = "flooring" => eCount' < 0 /\ Email!NoFault,
               eCount' \in {eCount, eCount - 1}, eQueued' \in {eQueued, eQueued + 1},
               \/ UNCHANGED eQueued /\ Email!NoFault /\ eCount' = eCount - 1
               \/ Email!Fault
        PROVE  EmailInv'
    <2>1. /\ eCount' \in Int /\ eCount' <= MaxSent /\ eSpare' \in Nat /\ eQueued' \in Nat
          /\ eSpare' <= eSpare
          /\ eQueued' <= eQueued \/ (eQueued' = eQueued + 1 /\ eFaults' = eFaults + 1)
          /\ eFaults' \in 0..MaxFaults /\ eFaults' \in {eFaults, eFaults + 1}
          /\ eCount' >= eCount \/ (eCount' = eCount - 1 /\ r \in Email!Broadcasting)
      BY <1>1, <1>2, <1>3, <1>4
    <2> QED
      BY <1>1, <1>2, <1>3, <1>4, <2>1, EmailReqStep
  <1>5. CASE Email!Ends(r)
    <2>1. /\ eCount' \in {eCount, eCount - 1} /\ eQueued' \in {eQueued, eQueued + 1}
          /\ \/ UNCHANGED eQueued /\ Email!NoFault /\ eCount' = eCount - 1
             \/ Email!Fault
      BY <1>1 DEF Email!Decrement
    <2>2. Email!IdleRequest \in Email!Request /\ Email!IdleRequest.pc = "idle" /\ InformedAs(Email!IdleRequest) /\ Moves(r, Email!IdleRequest)
      BY <1>5, IdleInformed
    <2>3. Email!IdleRequest.pc # "broadcasting" /\ Email!IdleRequest.pc # "flooring"
      BY <2>2
    <2> QED
      BY <1>4, <2>1, <2>2, <2>3
  <1>6. CASE eCount' = eCount - 1 /\ UNCHANGED eQueued /\ Email!NoFault /\ eCount' < 0 /\ Email!Goes(r, "flooring")
    <2>1. PICK new \in Email!Request : /\ Moves(r, new) /\ new.pc = "flooring"
                                       /\ new.knew = eReq[r].knew /\ new.blind = eReq[r].blind
      BY <1>6, EmailRecords
    <2>2. InformedAs(new)
      BY <1>1, <2>1 DEF InformedAs, EmailInv, Informed, Email!Landed
    <2>3. new.pc # "broadcasting"
      BY <2>1
    <2> QED
      BY <1>4, <1>6, <2>1, <2>2, <2>3
  <1> QED
    BY <1>1, <1>5, <1>6 DEF Email!Decrement

\* A counter found below zero is set to zero.
LEMMA FloorStep ==
    ASSUME Email!EmailAssumption, EmailInv, NEW r \in Call, Email!Floor(r)
    PROVE  EmailInv'
  <1>1. /\ eReq[r].pc = "flooring" /\ eCount' = 0 /\ Email!Ends(r)
        /\ UNCHANGED <<eToken, eSpare, eQueued, eDone, eOps, eStanding, eFaults>>
    BY DEF Email!Floor
  <1>2. /\ eCount \in Int /\ eCount <= MaxSent /\ MaxSent \in Nat /\ eSpare \in Nat /\ eQueued \in Nat
        /\ eFaults \in 0..MaxFaults /\ MaxFaults \in Nat
        /\ eToken' \subseteq eToken /\ eDone' \subseteq Email!Tier
    BY <1>1, Numbers
  <1>3. /\ Email!IdleRequest \in Email!Request /\ Email!IdleRequest.pc # "broadcasting"
        /\ InformedAs(Email!IdleRequest) /\ Moves(r, Email!IdleRequest)
    BY <1>1, IdleInformed
  <1>4. ~(eFaults' = 0 /\ eToken' # {})
    BY <1>1 DEF EmailInv, Counted, Flooring
  <1>5. /\ eCount' \in Int /\ eCount' <= MaxSent /\ eCount' >= 0 /\ eSpare' \in Nat /\ eQueued' \in Nat
        /\ eSpare' <= eSpare /\ eQueued' <= eQueued /\ eFaults' \in 0..MaxFaults /\ eFaults' \in {eFaults, eFaults + 1}
    BY <1>1, <1>2
  <1> QED
    BY <1>1, <1>2, <1>3, <1>4, <1>5, EmailReqStep

\* The node refuses the broadcast, and the token is deleted.
LEMMA EmailFailsStep ==
    ASSUME Email!EmailAssumption, EmailInv, NEW r \in Call, Email!Fails(r)
    PROVE  EmailInv'
  BY EmailEndStep DEF Email!Fails

\* A step that moves no request.
LEMMA EmailAroundStep ==
    ASSUME Email!EmailAssumption, EmailInv,
           \/ UNCHANGED eReq
           \/ eReq' = [q \in Call |-> Email!IdleRequest] /\ eFaults' # 0 /\ UNCHANGED eCount,
           eOps' \in Seq(Email!OpRec), Len(eOps') <= MaxSent, Kept, Email!TokenAccreditsOnce',
           eStanding' \in {"plain", "revoked", "sanctioned"}, eDone' \subseteq Email!Tier, eToken' \subseteq eToken,
           eCount' \in Int, eCount' <= MaxSent, eSpare' \in Nat, eSpare' <= eSpare, eQueued' \in Nat, eQueued' <= eQueued,
           eFaults' \in 0..MaxFaults, eFaults' \in {eFaults, eFaults + 1},
           eCount' >= 0 \/ eCount' >= eCount \/ (eCount' = eCount - 1 /\ eFaults' = eFaults + 1),
           eFaults' = 0 /\ eToken' # {} => eCount' >= eCount
    PROVE  EmailInv'
  <1>1. /\ Cardinality(Email!Broadcasting) \in Nat /\ Cardinality(Email!Broadcasting') \in Nat
        /\ Cardinality(Email!Broadcasting') <= Cardinality(Call) /\ Cardinality(Call) \in Nat
    BY Sizes
  <1>2. /\ eCount \in Int /\ eCount <= MaxSent /\ MaxSent \in Nat /\ eSpare \in Nat /\ eQueued \in Nat
        /\ eFaults \in 0..MaxFaults /\ MaxFaults \in Nat
    BY Numbers
  <1>3. eCount - Cardinality(Email!Broadcasting) >= -(Cardinality(Call) + eFaults) /\ eSpare <= eFaults /\ eQueued <= eFaults
    BY DEF EmailInv, CountAbove
  <1>4. Cardinality(Email!Broadcasting') <= Cardinality(Email!Broadcasting)
    <2>1. CASE UNCHANGED eReq
      <3>1. Email!Broadcasting' = Email!Broadcasting
        BY <2>1 DEF Email!Broadcasting
      <3> QED
        BY <1>1, <3>1
    <2>2. CASE eReq' = [q \in Call |-> Email!IdleRequest]
      <3>1. Email!Broadcasting' = {}
        BY <2>2 DEF Email!Broadcasting, Email!IdleRequest
      <3>2. Cardinality(Email!Broadcasting') = 0
        BY <3>1, FS_EmptySet
      <3> QED
        BY <1>1, <3>2
    <2> QED
      BY <2>1, <2>2
  <1>5. CountAbove'
    <2>1. eCount' - Cardinality(Email!Broadcasting') >= -(Cardinality(Call) + eFaults')
      BY SMTT(30), <1>1, <1>2, <1>3, <1>4
    <2>2. eSpare' <= eFaults' /\ eQueued' <= eFaults'
      BY <1>2, <1>3
    <2> QED
      BY <2>1, <2>2 DEF CountAbove
  <1>6. eCount' \in -(Cardinality(Call) + MaxFaults)..MaxSent /\ eSpare' \in 0..MaxFaults /\ eQueued' \in 0..MaxFaults
    BY SMTT(30), <1>1, <1>2, <1>5 DEF CountAbove
  <1>7. eReq' \in [Call -> Email!Request] /\ Informed'
    <2>1. CASE UNCHANGED eReq
      BY <2>1 DEF EmailInv, Email!TypeOK, Informed, Kept
    <2>2. CASE eReq' = [q \in Call |-> Email!IdleRequest]
      <3>1. Email!IdleRequest \in Email!Request /\ ~Email!IdleRequest.knew
        BY DEF Email!IdleRequest, Email!Request, Email!EmailAssumption
      <3> QED
        BY <2>2, <3>1 DEF Informed
    <2> QED
      BY <2>1, <2>2
  <1>8. Counted'
    <2> SUFFICES ASSUME eFaults' = 0, eToken' # {}
                 PROVE  /\ Cardinality(Email!Broadcasting') <= eCount' /\ Cardinality(Email!Broadcasting') <= MailCap /\ Flooring' = {}
      BY DEF Counted
    <2>1. UNCHANGED eReq /\ eFaults = 0 /\ eToken # {}
      BY <1>2
    <2>2. Email!Broadcasting' = Email!Broadcasting /\ Flooring' = Flooring
      BY <2>1 DEF Email!Broadcasting, Flooring
    <2>3. Cardinality(Email!Broadcasting) <= eCount /\ Cardinality(Email!Broadcasting) <= MailCap /\ Flooring = {} /\ eCount' >= eCount
      BY <2>1 DEF EmailInv, Counted
    <2>4. MailCap \in Nat
      BY DEF Email!EmailAssumption
    <2> QED
      BY <1>1, <1>2, <2>2, <2>3, <2>4
  <1>9. Email!TypeOK'
    BY EmailCardinality, <1>6, <1>7 DEF EmailInv, Email!TypeOK
  <1> QED
    BY <1>5, <1>7, <1>8, <1>9 DEF EmailInv

\* A queued decrement is tried again.
LEMMA DrainStep ==
    ASSUME Email!EmailAssumption, EmailInv, Email!Drain
    PROVE  EmailInv'
  <1>1. /\ UNCHANGED <<eToken, eSpare, eDone, eReq, eOps, eStanding>> /\ eQueued > 0
        /\ \/ eQueued' = eQueued - 1 /\ eCount' = (IF eCount > 0 THEN eCount - 1 ELSE 0) /\ Email!NoFault
           \/ UNCHANGED eQueued /\ eCount' = eCount - 1 /\ Email!Fault
    BY DEF Email!Drain
  <1>2. /\ eCount \in Int /\ eCount <= MaxSent /\ MaxSent \in Nat /\ eSpare \in Nat /\ eQueued \in Nat
        /\ eFaults \in 0..MaxFaults /\ MaxFaults \in Nat
        /\ eToken' \subseteq eToken /\ eDone' \subseteq Email!Tier
        /\ Email!NoFault => eFaults' \in 0..MaxFaults /\ eFaults' = eFaults
        /\ Email!Fault => eFaults' \in 0..MaxFaults /\ eFaults' = eFaults + 1 /\ eFaults' # 0
    BY <1>1, Numbers
  <1>3. Kept /\ Email!TokenAccreditsOnce' /\ eOps' \in Seq(Email!OpRec) /\ Len(eOps') <= MaxSent
        /\ eStanding' \in {"plain", "revoked", "sanctioned"}
    BY <1>1 DEF Kept, Email!Landed, EmailInv, Email!TypeOK, Email!TokenAccreditsOnce
  <1>4. eQueued <= eFaults
    BY DEF EmailInv, CountAbove
  <1>5. eFaults # 0
    BY <1>1, <1>2, <1>4
  <1>6. /\ eCount' \in Int /\ eCount' <= MaxSent /\ eSpare' \in Nat /\ eSpare' <= eSpare
        /\ eQueued' \in Nat /\ eQueued' <= eQueued
        /\ eFaults' \in 0..MaxFaults /\ eFaults' \in {eFaults, eFaults + 1} /\ eFaults' # 0
        /\ eCount' >= 0 \/ eCount' >= eCount \/ (eCount' = eCount - 1 /\ eFaults' = eFaults + 1)
    BY <1>1, <1>2, <1>5
  <1> QED
    BY <1>1, <1>2, <1>3, <1>6, EmailAroundStep

\* An op in flight lands or is dropped, and HAF indexes it.
LEMMA ChainStep ==
    ASSUME Email!EmailAssumption, EmailInv, NEW i \in DOMAIN eOps, Email!Chain(i)
    PROVE  EmailInv'
  <1>1. /\ UNCHANGED <<eToken, eCount, eSpare, eQueued, eDone, eReq, eStanding, eFaults>>
        /\ \E f \in Email!Fate : eOps' = [eOps EXCEPT ![i].fate = f] /\ (eOps[i].fate = "indexed" => f = "indexed")
    BY DEF Email!Chain, Email!Fate
  <1>2. PICK f \in Email!Fate : eOps' = [eOps EXCEPT ![i].fate = f] /\ (eOps[i].fate = "indexed" => f = "indexed")
    BY <1>1
  <1>3. eOps \in Seq(Email!OpRec) /\ DOMAIN eOps = 1..Len(eOps) /\ eOps[i] \in Email!OpRec /\ Len(eOps) <= MaxSent
    BY DEF EmailInv, Email!TypeOK
  <1>4. PICK o : o = [eOps[i] EXCEPT !.fate = f]
    OBVIOUS
  <1>5. o \in Email!OpRec /\ o.fate = f /\ o.knew = eOps[i].knew /\ o.blind = eOps[i].blind
    BY <1>3, <1>4 DEF Email!OpRec
  <1>6. eOps' = [eOps EXCEPT ![i] = o]
    BY <1>2, <1>4
  <1>7. /\ eOps' \in Seq(Email!OpRec) /\ Len(eOps') = Len(eOps) /\ DOMAIN eOps' = DOMAIN eOps
        /\ eOps'[i] = o /\ \A j \in DOMAIN eOps : j # i => eOps'[j] = eOps[j]
    BY <1>3, <1>5, <1>6, ExceptSeq
  <1>8. Kept
    <2> SUFFICES ASSUME NEW j \in DOMAIN eOps, eOps[j].fate = "indexed" PROVE Email!Landed'
      BY DEF Kept, Email!Landed
    <2>1. eOps'[j].fate = "indexed"
      BY <1>2, <1>5, <1>7
    <2> QED
      BY <1>7, <2>1 DEF Email!Landed
  <1>9. Email!TokenAccreditsOnce'
    <2> SUFFICES ASSUME NEW j \in DOMAIN eOps PROVE eOps'[j].knew => eOps'[j].blind
      BY <1>7 DEF Email!TokenAccreditsOnce
    <2>1. eOps[j].knew => eOps[j].blind
      BY DEF EmailInv, Email!TokenAccreditsOnce
    <2> QED
      BY <1>5, <1>7, <2>1
  <1>10. /\ eCount \in Int /\ eCount <= MaxSent /\ eSpare \in Nat /\ eQueued \in Nat /\ eFaults \in 0..MaxFaults
         /\ eToken' \subseteq eToken /\ eDone' \subseteq Email!Tier
    BY <1>1, Numbers
  <1>11. /\ eCount' \in Int /\ eCount' <= MaxSent /\ eSpare' \in Nat /\ eSpare' <= eSpare /\ eCount' >= eCount
         /\ eQueued' \in Nat /\ eQueued' <= eQueued
         /\ eFaults' \in 0..MaxFaults /\ eFaults' \in {eFaults, eFaults + 1}
         /\ UNCHANGED eReq /\ eStanding' = eStanding
    BY <1>1, <1>10
  <1>12. eStanding' \in {"plain", "revoked", "sanctioned"}
    BY <1>11 DEF EmailInv, Email!TypeOK
  <1> QED
    BY <1>3, <1>7, <1>8, <1>9, <1>10, <1>11, <1>12, EmailAroundStep

\* The administrators, a day and a crash.
LEMMA EmailOutsideStep ==
    ASSUME Email!EmailAssumption, EmailInv, Email!Judge \/ Email!Expire \/ Email!Crash
    PROVE  EmailInv'
  <1>1. /\ UNCHANGED eOps /\ eToken' \subseteq eToken /\ eDone' \subseteq Email!Tier
        /\ eStanding' \in {"plain", "revoked", "sanctioned"}
        /\ eCount' \in {0, eCount} /\ eSpare' \in {0, eSpare} /\ eQueued' \in {0, eQueued}
        /\ \/ UNCHANGED eReq /\ UNCHANGED eFaults /\ (eToken' # {} => UNCHANGED eCount)
           \/ eReq' = [q \in Call |-> Email!IdleRequest] /\ Email!Fault /\ UNCHANGED eCount
    BY DEF Email!Judge, Email!Expire, Email!Crash, EmailInv, Email!TypeOK
  <1>2. /\ eCount \in Int /\ eCount <= MaxSent /\ MaxSent \in Nat /\ eSpare \in Nat /\ eQueued \in Nat
        /\ eFaults \in 0..MaxFaults /\ MaxFaults \in Nat
        /\ Email!Fault => eFaults' \in 0..MaxFaults /\ eFaults' = eFaults + 1 /\ eFaults' # 0
    BY Numbers
  <1>3. Kept /\ Email!TokenAccreditsOnce' /\ eOps' \in Seq(Email!OpRec) /\ Len(eOps') <= MaxSent
    BY <1>1 DEF Kept, Email!Landed, EmailInv, Email!TypeOK, Email!TokenAccreditsOnce
  <1>4. /\ eCount' \in Int /\ eCount' <= MaxSent /\ eSpare' \in Nat /\ eSpare' <= eSpare
        /\ eQueued' \in Nat /\ eQueued' <= eQueued
        /\ eFaults' \in 0..MaxFaults /\ eFaults' \in {eFaults, eFaults + 1}
        /\ eCount' >= 0 \/ eCount' >= eCount
        /\ eFaults' = 0 /\ eToken' # {} => eCount' >= eCount
    BY <1>1, <1>2
  <1>5. UNCHANGED eReq \/ (eReq' = [q \in Call |-> Email!IdleRequest] /\ eFaults' # 0 /\ UNCHANGED eCount)
    BY <1>1, <1>2
  <1> QED
    BY <1>1, <1>3, <1>4, <1>5, EmailAroundStep

(***************************************************************************)
(* Accreditation by email: the theorems.                                   *)
(***************************************************************************)

\* The initial states satisfy the invariant.
LEMMA EmailStarts ==
    ASSUME Email!EmailAssumption, Email!Init
    PROVE  EmailInv
  <1>1. Email!IdleRequest \in Email!Request /\ ~Email!IdleRequest.knew /\ Email!IdleRequest.pc = "idle"
    BY DEF Email!IdleRequest, Email!Request, Email!EmailAssumption
  <1>2. Email!Broadcasting = {} /\ Flooring = {}
    BY <1>1 DEF Email!Init, Email!Broadcasting, Flooring
  <1>3. Cardinality(Email!Broadcasting) = 0 /\ Cardinality(Call) \in Nat
    BY <1>2, FS_EmptySet, Sizes
  <1>4. CountAbove /\ eCount \in -(Cardinality(Call) + MaxFaults)..MaxSent /\ Counted
    BY <1>2, <1>3 DEF Email!Init, Email!EmailAssumption, CountAbove, Counted
  <1>5. Informed /\ Email!TokenAccreditsOnce
    BY <1>1 DEF Email!Init, Informed, Email!TokenAccreditsOnce
  <1>6. Email!TypeOK
    <2>1. eOps \in Seq(Email!OpRec) /\ Len(eOps) = 0
      BY DEF Email!Init
    <2>2. eSpare = 0 /\ eQueued = 0 /\ eFaults = 0 /\ eToken = Email!Tier /\ eDone = {} /\ eStanding = "plain"
      BY DEF Email!Init
    <2>3. MaxFaults \in Nat /\ MaxSent \in Nat
      BY DEF Email!EmailAssumption
    <2>4. eReq \in [Call -> Email!Request]
      BY <1>1 DEF Email!Init
    <2> QED
      BY EmailCardinality, <1>4, <2>1, <2>2, <2>3, <2>4 DEF Email!TypeOK
  <1> QED
    BY <1>4, <1>5, <1>6 DEF EmailInv

\* The inductive invariant holds of every behaviour of the verification by email.
THEOREM EmailInvariant ==
    ASSUME Email!EmailAssumption
    PROVE  Email!Spec => []EmailInv
  <1>1. Email!Init => EmailInv
    BY EmailStarts
  <1>2. EmailInv /\ [Email!Next]_Email!vars => EmailInv'
    <2> SUFFICES ASSUME EmailInv, [Email!Next]_Email!vars PROVE EmailInv'
      OBVIOUS
    <2>1. CASE \E r \in Call : Email!Handle(r)
      BY <2>1, PresentStep, GateStep, LookUpStep, ClaimStep, EmailConfirmedStep, TimesOutStep, FloorStep, EmailFailsStep
      DEF Email!Handle, Email!Succeeds
    <2>2. CASE Email!Drain \/ Email!Judge \/ Email!Expire \/ Email!Crash
      BY <2>2, DrainStep, EmailOutsideStep
    <2>3. CASE \E i \in DOMAIN eOps : Email!Chain(i)
      BY <2>3, ChainStep
    <2>4. CASE UNCHANGED Email!vars
      BY <2>4
         DEF Email!vars, EmailInv, Email!TypeOK, CountAbove, Informed, Counted, Email!TokenAccreditsOnce,
                  Email!Broadcasting, Flooring, Email!Landed
    <2> QED
      BY <2>1, <2>2, <2>3, <2>4 DEF Email!Next
  <1> QED
    BY <1>1, <1>2, PTL DEF Email!Spec

\* The token, its counter, the drain queue and the requests keep their types.
THEOREM EmailTyped ==
    ASSUME Email!EmailAssumption
    PROVE  Email!Spec => []Email!TypeOK
  <1>1. EmailInv => Email!TypeOK
    BY DEF EmailInv
  <1> QED
    BY <1>1, EmailInvariant, PTL

\* A token whose op HAF has sends no other unless the lookup failed (accreditation.ts
\* POST /verify), and while nothing fails at most MailCap broadcasts of a token that is
\* unspent are in flight.
THEOREM EmailHolds ==
    ASSUME Email!EmailAssumption
    PROVE  Email!Spec => []MailAccreditsOnce
  <1>1. EmailInv => MailAccreditsOnce
    BY EmailCardinality DEF EmailInv, Counted, Email!BurstCapped, MailAccreditsOnce
  <1> QED
    BY <1>1, EmailInvariant, PTL

(***************************************************************************)
(* Signup.                                                                 *)
(***************************************************************************)

(***************************************************************************)
(* Signup: the inductive invariant.                                        *)
(***************************************************************************)

\* Ids and tokens are minted in order, and none is used twice.
Minted ==
  /\ gRow # None => gRow.id <= gToks /\ gRow.tok <= gToks /\ (gRow.st = "pending" => gRow.tok >= 1)
  /\ \A i \in gGone : i <= gToks

\* What a request read of the row is so yet, or the row is another or has another token.
ReadOf(q) ==
  /\ q.id <= gToks /\ q.tok <= gToks
  /\ q.pc = "verifying" =>
       /\ q.tok >= 1
       /\ gRow # None /\ gRow.id = q.id /\ gRow.tok = q.tok => gRow.st = "pending" /\ gRow.pw = q.pw
  /\ q.pc = "resuming" /\ gRow # None /\ gRow.id = q.id => gRow.st \in {"confirmed", "active"} /\ gRow.pw = q.pw

\* The row of an account that is created, or may be yet.
Reachable(c) ==
  c.id \in gGone \/ (gRow # None /\ gRow.id = c.id /\ gRow.st \in {"confirmed", "active"})

SignupInv ==
  /\ Signups!TypeOK /\ Minted /\ Signups!BoundToPassword
  /\ \A r \in Call : ReadOf(gReq[r])
  /\ \A c \in gFlight \cup gMade : Reachable(c)

(***************************************************************************)
(* Signup: what a step may do to the row.                                  *)
(***************************************************************************)

\* The row is left alone,
RowLeft == UNCHANGED <<gRow, gToks, gGone>>

\* deleted,
RowDeleted == gRow # None /\ gRow' = None /\ gGone' = gGone \cup {gRow.id} /\ UNCHANGED gToks

\* inserted, in the place of a claim perhaps,
RowNew ==
  /\ gRow' \in Signups!Row /\ gRow'.id = gToks + 1 /\ gRow'.tok = gToks + 1 /\ gToks' = gToks + 1
  /\ \/ gRow = None /\ gGone' = gGone
     \/ Signups!Is({"claim"}) /\ gGone' = gGone \cup {gRow.id}
  /\ gRow'.st = "confirmed" => gRow'.bound = gRow'.pw

\* given another token,
RowMailed ==
  /\ gRow' \in Signups!Row /\ Signups!Is({"pending"}) /\ gRow'.id = gRow.id /\ gRow'.tok = gToks + 1 /\ gToks' = gToks + 1
  /\ UNCHANGED gGone /\ gRow'.st \in {"pending", "confirmed"}
  /\ gRow'.st = "confirmed" => gRow'.bound = gRow'.pw

\* another deadline or another binding,
RowSeen ==
  /\ gRow' \in Signups!Row /\ gRow # None /\ gRow'.id = gRow.id /\ gRow'.tok = gRow.tok /\ gRow'.st = gRow.st /\ gRow'.pw = gRow.pw
  /\ UNCHANGED <<gToks, gGone>> /\ (gRow.st = "confirmed" => gRow'.bound = gRow'.pw)

\* or settled for good.
RowSettled ==
  /\ gRow' \in Signups!Row /\ gRow # None /\ gRow'.id = gRow.id /\ gRow'.tok = 0 /\ gRow'.pw = gRow.pw
  /\ UNCHANGED <<gToks, gGone>>
  /\ gRow'.st = "active" \/ (gRow.st = "claim" /\ gRow'.st = "owned")

RowStep == RowLeft \/ RowDeleted \/ RowNew \/ RowMailed \/ RowSeen \/ RowSettled

\* A step on the row keeps its type.
LEMMA RowTyped ==
    ASSUME Signups!SignupAssumption, SignupInv, RowStep, gToks' <= MaxTok
    PROVE  /\ gToks' \in 0..MaxTok /\ gToks <= gToks' /\ gRow' \in Signups!Row \cup {None} /\ gGone' \subseteq 1..(MaxTok + 1)
           /\ gRow' \in Signups!Row => gRow' # None
           /\ gToks \in Nat /\ gToks' \in Nat
           /\ gRow # None => gRow \in Signups!Row /\ gRow.id \in Nat /\ gRow.tok \in Nat /\ gRow.id <= gToks
  <1>1. gToks \in Nat /\ MaxTok \in Nat /\ gRow \in Signups!Row \cup {None} /\ gGone \subseteq 1..(MaxTok + 1) /\ None \notin Signups!Row
    BY DEF Signups!SignupAssumption, SignupInv, Signups!TypeOK
  <1>2. gRow # None => gRow \in Signups!Row /\ gRow.id \in 1..(MaxTok + 1) /\ gRow.tok \in Nat /\ gRow.id <= gToks
    BY <1>1 DEF Signups!Row, SignupInv, Minted
  <1>3. /\ gToks' \in {gToks, gToks + 1} /\ gRow' \in Signups!Row \cup {None}
        /\ gGone' = gGone \/ (gRow # None /\ gGone' = gGone \cup {gRow.id})
    BY <1>1 DEF RowStep, RowLeft, RowDeleted, RowNew, RowMailed, RowSeen, RowSettled, Signups!Is
  <1>4. gGone' \subseteq 1..(MaxTok + 1)
    BY <1>1, <1>2, <1>3
  <1> QED
    BY <1>1, <1>2, <1>3, <1>4

\* A step on the row keeps ids and tokens minted in order.
LEMMA RowMinted ==
    ASSUME Signups!SignupAssumption, SignupInv, RowStep, gToks' <= MaxTok
    PROVE  Minted' /\ Signups!BoundToPassword'
  <1>1. /\ gToks \in Nat /\ gToks' \in Nat /\ gToks <= gToks' /\ (gRow' \in Signups!Row => gRow' # None)
        /\ gRow # None => gRow \in Signups!Row /\ gRow.id \in Nat /\ gRow.tok \in Nat /\ gRow.id <= gToks
    BY RowTyped
  <1>2. Minted /\ Signups!BoundToPassword /\ \A i \in gGone : i \in Nat
    BY DEF SignupInv, Signups!TypeOK, Signups!SignupAssumption
  <1>3. CASE RowLeft
    BY <1>1, <1>2, <1>3 DEF RowLeft, Minted, Signups!BoundToPassword, Signups!Is
  <1>4. CASE RowDeleted
    BY <1>1, <1>2, <1>4 DEF RowDeleted, Minted, Signups!BoundToPassword, Signups!Is
  <1>5. CASE RowNew
    <2>1. \A i \in gGone' : i <= gToks'
      BY <1>1, <1>2, <1>5 DEF RowNew, Minted, Signups!Is
    <2> QED
      BY <1>1, <1>5, <2>1 DEF RowNew, Minted, Signups!BoundToPassword, Signups!Is
  <1>6. CASE RowMailed
    <2>1. \A i \in gGone' : i <= gToks'
      BY <1>1, <1>2, <1>6 DEF RowMailed, Minted, Signups!Is
    <2> QED
      BY <1>1, <1>6, <2>1 DEF RowMailed, Minted, Signups!BoundToPassword, Signups!Is
  <1>7. CASE RowSeen
    BY <1>1, <1>2, <1>7 DEF RowSeen, Minted, Signups!BoundToPassword, Signups!Is
  <1>8. CASE RowSettled
    BY <1>1, <1>2, <1>8 DEF RowSettled, Minted, Signups!BoundToPassword, Signups!Is
  <1> QED
    BY <1>3, <1>4, <1>5, <1>6, <1>7, <1>8 DEF RowStep

\* What a request read of the row stays true of it.
LEMMA RowReads ==
    ASSUME Signups!SignupAssumption, SignupInv, RowStep, gToks' <= MaxTok, NEW q \in Signups!Request, ReadOf(q)
    PROVE  ReadOf(q)'
  <1>1. /\ gToks \in Nat /\ gToks' \in Nat /\ gToks <= gToks' /\ (gRow' \in Signups!Row => gRow' # None)
        /\ gRow # None => gRow \in Signups!Row /\ gRow.id \in Nat /\ gRow.tok \in Nat /\ gRow.id <= gToks
    BY RowTyped
  <1>2. q.id \in Nat /\ q.tok \in Nat
    BY DEF Signups!Request
  <1>3. CASE RowLeft
    BY <1>1, <1>2, <1>3 DEF RowLeft, ReadOf
  <1>4. CASE RowDeleted
    BY <1>1, <1>2, <1>4 DEF RowDeleted, ReadOf
  <1>5. CASE RowNew
    BY <1>1, <1>2, <1>5 DEF RowNew, ReadOf
  <1>6. CASE RowMailed
    BY <1>1, <1>2, <1>6 DEF RowMailed, ReadOf, Signups!Is
  <1>7. CASE RowSeen
    BY <1>1, <1>2, <1>7 DEF RowSeen, ReadOf
  <1>8. CASE RowSettled
    BY <1>1, <1>2, <1>8 DEF RowSettled, ReadOf
  <1> QED
    BY <1>3, <1>4, <1>5, <1>6, <1>7, <1>8 DEF RowStep

\* An account that could still be activated can be.
LEMMA RowReaches ==
    ASSUME Signups!SignupAssumption, SignupInv, RowStep, gToks' <= MaxTok, NEW c, Reachable(c)
    PROVE  Reachable(c)'
  <1>1. gRow' \in Signups!Row => gRow' # None
    BY RowTyped
  <1> QED
    BY <1>1
       DEF RowStep, RowLeft, RowDeleted, RowNew, RowMailed, RowSeen, RowSettled, Reachable, Signups!Is

(***************************************************************************)
(* Signup: what a step does to one request.                                *)
(***************************************************************************)

\* A step of a request: the row moves, and what the request then holds is read of it.
LEMMA SignupReqStep ==
    ASSUME Signups!SignupAssumption, SignupInv, RowStep, gToks' <= MaxTok,
           NEW r \in Call, NEW q \in Signups!Request, Signups!Set(r, q), ReadOf(q)',
           gLock' \in [1..MaxTok -> Call \cup {None, 0}], UNCHANGED <<gChain, gMade>>,
           \A c \in gFlight' : c \in gFlight \/ (c \in Signups!Creation /\ Reachable(c)),
           gFaults' \in 0..MaxFaults
    PROVE  SignupInv'
  <1>1. /\ gToks' \in 0..MaxTok /\ gToks <= gToks' /\ gRow' \in Signups!Row \cup {None} /\ gGone' \subseteq 1..(MaxTok + 1)
    BY RowTyped
  <1>2. gReq' \in [Call -> Signups!Request] /\ gReq'[r] = q /\ \A p \in Call : p # r => gReq'[p] = gReq[p]
    BY DEF Signups!Set, SignupInv, Signups!TypeOK
  <1>3. Signups!TypeOK'
    BY <1>1, <1>2 DEF SignupInv, Signups!TypeOK
  <1>4. \A p \in Call : ReadOf(gReq[p])'
    <2> SUFFICES ASSUME NEW p \in Call PROVE ReadOf(gReq[p])'
      OBVIOUS
    <2>1. CASE p = r
      <3>1. gReq'[p] = q
        BY <1>2, <2>1
      <3> QED
        BY <3>1 DEF ReadOf
    <2>2. CASE p # r
      <3>1. PICK o \in Signups!Request : o = gReq[p]
        BY DEF SignupInv, Signups!TypeOK
      <3>2. ReadOf(o)'
        BY <3>1, RowReads DEF SignupInv
      <3>3. gReq'[p] = o
        BY <1>2, <2>2, <3>1
      <3> QED
        BY <3>2, <3>3 DEF ReadOf
    <2> QED
      BY <2>1, <2>2
  <1>5. \A c \in gFlight' \cup gMade' : Reachable(c)'
    BY RowReaches DEF SignupInv
  <1> QED
    BY <1>3, <1>4, <1>5, RowMinted DEF SignupInv

(***************************************************************************)
(* Signup: one lemma for each action.                                      *)
(***************************************************************************)

\* The parts of the state as they are typed.
LEMMA Parts ==
    ASSUME Signups!SignupAssumption, SignupInv
    PROVE  /\ gToks \in Nat /\ gToks <= MaxTok /\ MaxTok \in Nat /\ gFaults \in 0..MaxFaults /\ MaxFaults \in Nat
           /\ gLock \in [1..MaxTok -> Call \cup {None, 0}]
           /\ gRow # None => /\ gRow \in Signups!Row /\ gRow.id \in 1..(MaxTok + 1) /\ gRow.id \in 0..(MaxTok + 1) /\ gRow.id <= gToks /\ gRow.tok \in 0..MaxTok
                             /\ gRow.tok <= gToks /\ (gRow.st = "pending" => gRow.tok >= 1)
           /\ \A c \in gFlight' : c \in gFlight => c \in gFlight \/ (c \in Signups!Creation /\ Reachable(c))
  BY DEF Signups!SignupAssumption, SignupInv, Signups!TypeOK, Signups!Row, Minted

\* A request that is over, or that knows what cannot change.
LEMMA Ended ==
    ASSUME Signups!SignupAssumption, SignupInv, RowStep, gToks' <= MaxTok
    PROVE  Signups!IdleRequest \in Signups!Request /\ ReadOf(Signups!IdleRequest)'
  <1>1. gToks' \in Nat
    BY RowTyped
  <1> QED
    BY <1>1 DEF Signups!IdleRequest, Signups!Request, ReadOf, Signups!SignupAssumption

\* A step of a handler that moves the row and ends.
LEMMA SignupEndStep ==
    ASSUME Signups!SignupAssumption, SignupInv, RowStep, gToks' <= MaxTok, NEW r \in Call, Signups!Ends(r),
           gLock' \in [1..MaxTok -> Call \cup {None, 0}], UNCHANGED <<gChain, gMade, gFlight>>,
           gFaults' \in 0..MaxFaults
    PROVE  SignupInv'
  BY Ended, SignupReqStep DEF Signups!Ends

\* A step of a handler that reads the row and goes on.
LEMMA ReadStep ==
    ASSUME Signups!SignupAssumption, SignupInv, NEW r \in Call, NEW q \in Signups!Request, Signups!Set(r, q), ReadOf(q),
           UNCHANGED <<gRow, gToks, gGone, gChain, gMade>>,
           gLock' \in [1..MaxTok -> Call \cup {None, 0}],
           \A c \in gFlight' : c \in gFlight \/ (c \in Signups!Creation /\ Reachable(c)),
           gFaults' \in 0..MaxFaults
    PROVE  SignupInv'
  <1>1. RowStep /\ gToks' <= MaxTok
    BY Parts DEF RowStep, RowLeft
  <1>2. ReadOf(q)'
    BY DEF ReadOf
  <1> QED
    BY <1>1, <1>2, SignupReqStep

\* The row is looked at and the password hashed (POST /auth/signup).
LEMMA SignUpStep ==
    ASSUME Signups!SignupAssumption, SignupInv, NEW r \in Call, Signups!SignUp(r)
    PROVE  SignupInv'
  <1>1. PICK p \in Person, orcid \in BOOLEAN :
          Signups!Set(r, [Signups!IdleRequest EXCEPT !.pc = "hashing", !.pw = p, !.orcid = orcid,
                                     !.id = IF Signups!Is({"claim"}) THEN gRow.id ELSE 0])
    BY DEF Signups!SignUp
  <1>2. PICK q : q = [Signups!IdleRequest EXCEPT !.pc = "hashing", !.pw = p, !.orcid = orcid,
                                         !.id = IF Signups!Is({"claim"}) THEN gRow.id ELSE 0]
    OBVIOUS
  <1>3. (IF Signups!Is({"claim"}) THEN gRow.id ELSE 0) \in 0..(MaxTok + 1) /\ (IF Signups!Is({"claim"}) THEN gRow.id ELSE 0) <= gToks
    BY Parts DEF Signups!Is
  <1>4. /\ q.pc = "hashing" /\ q.pw = p /\ q.orcid = orcid /\ q.tok = 0
        /\ q.id = IF Signups!Is({"claim"}) THEN gRow.id ELSE 0
        /\ q = [pc |-> q.pc, id |-> q.id, tok |-> q.tok, pw |-> q.pw, orcid |-> q.orcid, user |-> None, keys |-> None]
    BY <1>2 DEF Signups!IdleRequest
  <1>5. q \in Signups!Request /\ ReadOf(q)
    BY <1>3, <1>4, Parts DEF Signups!Request, ReadOf
  <1>6. UNCHANGED <<gRow, gToks, gGone, gChain, gFlight, gMade, gLock, gFaults>>
    BY DEF Signups!SignUp, Signups!Deadlines
  <1> QED
    BY <1>1, <1>2, <1>5, <1>6, Parts, ReadStep

\* The row is inserted, or written over a pending one.
LEMMA WriteSignupStep ==
    ASSUME Signups!SignupAssumption, SignupInv, NEW r \in Call, Signups!WriteSignup(r)
    PROVE  SignupInv'
  <1>1. gReq[r].pc = "hashing" /\ gToks < MaxTok /\ UNCHANGED <<gChain, gFlight, gMade, gLock, gFaults>>
    BY DEF Signups!WriteSignup, Signups!Deadlines
  <1>2. CASE ~Signups!Writable(r)
    <2>1. RowStep /\ gToks' <= MaxTok /\ Signups!Ends(r)
      BY <1>2, Parts DEF Signups!WriteSignup, RowStep, RowLeft
    <2> QED
      BY <1>1, <2>1, Parts, SignupEndStep
  <1>3. CASE Signups!Writable(r)
    <2>1. PICK orcid \in BOOLEAN, pw \in Person \cup {None} : orcid = gReq[r].orcid /\ pw = gReq[r].pw
      BY DEF SignupInv, Signups!TypeOK, Signups!Request
    <2>2. PICK id : id = IF gRow # None /\ gReq[r].id = 0 THEN gRow.id ELSE Signups!NextId
      OBVIOUS
    <2>3. PICK st \in Signups!RowState, bound \in Person \cup {None}, fresh \in BOOLEAN :
            /\ st = (IF orcid THEN "confirmed" ELSE "pending") /\ bound = (IF orcid THEN pw ELSE None)
            /\ fresh = ~orcid
      BY <2>1 DEF Signups!RowState
    <2>4. PICK new : new = [id |-> id, st |-> st, tok |-> gToks + 1, pw |-> pw, bound |-> bound, fresh |-> fresh,
                            user |-> None, keys |-> None]
      OBVIOUS
    <2>5. gRow' = new /\ gToks' = gToks + 1 /\ gGone' = gGone \cup (IF Signups!Is({"claim"}) THEN {gRow.id} ELSE {})
      BY <1>3, <2>1, <2>2, <2>3, <2>4 DEF Signups!WriteSignup
    <2>6. id \in 1..(MaxTok + 1) /\ gToks + 1 \in 0..MaxTok
      BY <1>1, <2>2, Parts DEF Signups!NextId
    <2>7. /\ new \in Signups!Row /\ new.id = id /\ new.st \in {"pending", "confirmed"} /\ new.tok = gToks + 1
          /\ new.st = "confirmed" => new.bound = new.pw
      BY <2>3, <2>4, <2>6 DEF Signups!Row
    <2>8. RowStep
      <3>1. CASE Signups!Is({"pending"}) /\ gReq[r].id = 0
        <4>1. RowMailed
          BY <2>2, <2>5, <2>7, <3>1 DEF RowMailed, Signups!Is
        <4> QED
          BY <4>1 DEF RowStep
      <3>2. CASE ~(Signups!Is({"pending"}) /\ gReq[r].id = 0)
        <4>1. gRow = None \/ (Signups!Is({"claim"}) /\ gReq[r].id # 0)
          BY <1>3, <3>2 DEF Signups!Writable
        <4>2. id = gToks + 1
          BY <2>2, <4>1, Parts DEF Signups!NextId
        <4>3. \/ gRow = None /\ gGone' = gGone
              \/ Signups!Is({"claim"}) /\ gGone' = gGone \cup {gRow.id}
          BY <2>5, <4>1 DEF Signups!Is
        <4>4. RowNew
          BY <2>5, <2>7, <4>2, <4>3 DEF RowNew
        <4> QED
          BY <4>4 DEF RowStep
      <3> QED
        BY <3>1, <3>2
    <2>9. gToks' <= MaxTok
      BY <2>5, <2>6
    <2>10. CASE orcid
      <3>1. Signups!Ends(r)
        BY <1>3, <2>1, <2>10 DEF Signups!WriteSignup
      <3> QED
        BY <1>1, <2>8, <2>9, <3>1, Parts, SignupEndStep
    <2>11. CASE ~orcid
      <3>1. Signups!Set(r, [Signups!IdleRequest EXCEPT !.pc = "mailing", !.tok = gToks + 1])
        BY <1>3, <2>1, <2>11 DEF Signups!WriteSignup
      <3>2. PICK q : q = [Signups!IdleRequest EXCEPT !.pc = "mailing", !.tok = gToks + 1]
        OBVIOUS
      <3>3. q \in Signups!Request /\ q.pc = "mailing" /\ q.id = 0 /\ q.tok = gToks + 1
        <4>1. Signups!IdleRequest \in Signups!Request /\ Signups!IdleRequest.id = 0
          BY <2>8, <2>9, Ended DEF Signups!IdleRequest
        <4> QED
          BY <2>6, <3>2, <4>1 DEF Signups!Request
      <3>4. ReadOf(q)'
        BY <2>5, <3>3, Parts DEF ReadOf
      <3> QED
        BY <1>1, <2>8, <2>9, <3>1, <3>2, <3>3, <3>4, Parts, SignupReqStep
    <2> QED
      BY <2>10, <2>11
  <1> QED
    BY <1>2, <1>3

\* A row that is deleted, or left.
LEMMA DeletedStep ==
    ASSUME Signups!SignupAssumption, SignupInv, NEW r \in Call, Signups!Mail(r) \/ Signups!DeleteExpired(r)
    PROVE  SignupInv'
  <1>1. RowDeleted \/ RowLeft
    BY DEF Signups!Mail, Signups!DeleteExpired, Signups!Delete, Signups!Keep, RowDeleted, RowLeft
  <1>2. RowStep /\ gToks' <= MaxTok /\ Signups!Ends(r) /\ UNCHANGED <<gChain, gFlight, gMade, gLock, gFaults>>
    BY <1>1, Parts
       DEF RowStep, Signups!Mail, Signups!DeleteExpired, Signups!Deadlines, RowDeleted, RowLeft
  <1> QED
    BY <1>2, Parts, SignupEndStep

\* A row whose token, deadline or binding is another.
LEMMA WriteResendStep ==
    ASSUME Signups!SignupAssumption, SignupInv, NEW r \in Call, Signups!WriteResend(r)
    PROVE  SignupInv'
  <1>1. Signups!Ends(r) /\ UNCHANGED <<gGone, gChain, gFlight, gMade, gLock, gFaults>>
    BY DEF Signups!WriteResend, Signups!Deadlines
  <1>2. RowStep /\ gToks' <= MaxTok
    <2>1. CASE Signups!Is({"pending"}) /\ gRow.id = gReq[r].id /\ gRow.tok = gReq[r].tok /\ gToks < MaxTok
      <3>1. gRow' = [gRow EXCEPT !.tok = gToks + 1, !.fresh = TRUE] /\ gToks' = gToks + 1
        BY <2>1 DEF Signups!WriteResend
      <3>2. gToks + 1 \in 0..MaxTok /\ gRow \in Signups!Row
        BY <2>1, Parts DEF Signups!Is
      <3>3. gRow' \in Signups!Row /\ gRow'.id = gRow.id /\ gRow'.tok = gToks + 1 /\ gRow'.st = gRow.st
        BY <3>1, <3>2 DEF Signups!Row
      <3>4. RowMailed
        BY <1>1, <2>1, <3>1, <3>3 DEF RowMailed, Signups!Is
      <3> QED
        BY <3>1, <3>2, <3>4 DEF RowStep
    <2>2. CASE ~(Signups!Is({"pending"}) /\ gRow.id = gReq[r].id /\ gRow.tok = gReq[r].tok /\ gToks < MaxTok)
      BY <1>1, <2>2, Parts DEF Signups!WriteResend, RowStep, RowLeft
    <2> QED
      BY <2>1, <2>2
  <1> QED
    BY <1>1, <1>2, Parts, SignupEndStep

\* The account creation is confirmed by the chain.
LEMMA SignupConfirmedStep ==
    ASSUME Signups!SignupAssumption, SignupInv, NEW r \in Call, Signups!Confirmed(r)
    PROVE  SignupInv'
  <1>1. Signups!Ends(r) /\ UNCHANGED <<gGone, gChain, gFlight, gMade, gLock, gFaults>> /\ gReq[r].pc = "verifying" /\ gToks < MaxTok
    BY DEF Signups!Confirmed, Signups!Deadlines
  <1>2. RowStep /\ gToks' <= MaxTok
    <2>1. CASE Signups!StillHolds(r)
      <3>1. gRow' = [gRow EXCEPT !.st = "confirmed", !.tok = gToks + 1, !.bound = gReq[r].pw, !.fresh = FALSE]
            /\ gToks' = gToks + 1
        BY <2>1 DEF Signups!Confirmed
      <3>2. gRow.st = "pending" /\ gRow.pw = gReq[r].pw /\ gRow # None
        BY <1>1, <2>1 DEF SignupInv, ReadOf, Signups!StillHolds
      <3>3. gToks + 1 \in 0..MaxTok /\ gRow \in Signups!Row /\ gRow.pw \in Person \cup {None}
        BY <1>1, <3>2, Parts DEF Signups!Row
      <3>4. gRow' \in Signups!Row /\ gRow'.id = gRow.id /\ gRow'.tok = gToks + 1 /\ gRow'.st = "confirmed" /\ gRow'.bound = gRow'.pw
        BY <3>1, <3>2, <3>3 DEF Signups!Row, Signups!RowState
      <3>5. RowMailed
        BY <1>1, <3>1, <3>2, <3>4 DEF RowMailed, Signups!Is
      <3> QED
        BY <3>1, <3>3, <3>5 DEF RowStep
    <2>2. CASE ~Signups!StillHolds(r)
      BY <1>1, <2>2, Parts DEF Signups!Confirmed, RowStep, RowLeft
    <2> QED
      BY <2>1, <2>2
  <1> QED
    BY <1>1, <1>2, Parts, SignupEndStep

\* A session that is resumed writes its row.
LEMMA WriteResumeStep ==
    ASSUME Signups!SignupAssumption, SignupInv, NEW r \in Call, Signups!WriteResume(r)
    PROVE  SignupInv'
  <1>1. Signups!Ends(r) /\ UNCHANGED <<gToks, gGone, gChain, gFlight, gMade, gLock, gFaults>> /\ gReq[r].pc = "resuming"
    BY DEF Signups!WriteResume, Signups!Deadlines
  <1>2. RowStep
    <2>1. CASE gRow # None /\ gRow.id = gReq[r].id
      <3>1. gRow' = [gRow EXCEPT !.bound = gReq[r].pw]
        BY <2>1 DEF Signups!WriteResume
      <3>2. gRow.pw = gReq[r].pw /\ gRow \in Signups!Row
        BY <1>1, <2>1, Parts DEF SignupInv, ReadOf
      <3>3. gRow' \in Signups!Row /\ gRow'.id = gRow.id /\ gRow'.tok = gRow.tok /\ gRow'.st = gRow.st /\ gRow'.pw = gRow.pw
            /\ gRow'.bound = gRow'.pw
        BY <3>1, <3>2 DEF Signups!Row
      <3>4. RowSeen
        BY <1>1, <2>1, <3>3 DEF RowSeen
      <3> QED
        BY <3>4 DEF RowStep
    <2>2. CASE ~(gRow # None /\ gRow.id = gReq[r].id)
      BY <1>1, <2>2 DEF Signups!WriteResume, RowStep, RowLeft
    <2> QED
      BY <2>1, <2>2
  <1> QED
    BY <1>1, <1>2, Parts, SignupEndStep

\* The activation: the row is settled, if it is there yet.
LEMMA ActivationStep ==
    ASSUME Signups!SignupAssumption, SignupInv, NEW r \in Call, Signups!Finalize(r) \/ Signups!WriteLink(r)
    PROVE  SignupInv'
  <1>1. Signups!Ends(r) /\ Signups!Release(gReq[r].tok) /\ UNCHANGED <<gToks, gGone, gChain, gFlight, gMade>> /\ gFaults' \in 0..MaxFaults
    BY Parts DEF Signups!Finalize, Signups!WriteLink
  <1>2. gLock' \in [1..MaxTok -> Call \cup {None, 0}]
    BY <1>1, Parts DEF Signups!Release
  <1>3. RowStep
    <2>1. ASSUME gRow # None, NEW new \in Signups!Row, gRow' = new, new.id = gRow.id, new.tok = 0, new.pw = gRow.pw, new.st = "active"
          PROVE  RowStep
      BY <1>1, <2>1 DEF RowStep, RowSettled
    <2>2. CASE gRow' = gRow
      BY <1>1, <2>2 DEF RowStep, RowLeft
    <2>3. CASE gRow # None /\ \E user \in Signups!User \cup {None}, keys \in Signups!Keys \cup {None} :
                 gRow' = [gRow EXCEPT !.st = "active", !.user = user, !.keys = keys, !.tok = 0, !.bound = None]
      <3>1. PICK user \in Signups!User \cup {None}, keys \in Signups!Keys \cup {None} :
              gRow' = [gRow EXCEPT !.st = "active", !.user = user, !.keys = keys, !.tok = 0, !.bound = None]
        BY <2>3
      <3>2. gRow \in Signups!Row /\ 0 \in 0..MaxTok
        BY <2>3, Parts
      <3>3. gRow' \in Signups!Row /\ gRow'.id = gRow.id /\ gRow'.tok = 0 /\ gRow'.pw = gRow.pw /\ gRow'.st = "active"
        BY <3>1, <3>2 DEF Signups!Row, Signups!RowState
      <3> QED
        BY <2>1, <2>3, <3>3
    <2>4. gReq[r].user \in Signups!User \cup {None} /\ gReq[r].keys \in Signups!Keys \cup {None}
      BY DEF SignupInv, Signups!TypeOK, Signups!Request
    <2>6. CASE Signups!Finalize(r)
      BY <2>2, <2>3, <2>4, <2>6 DEF Signups!Finalize
    <2>7. CASE Signups!WriteLink(r)
      <3>1. CASE gRow # None /\ gRow.id = gReq[r].id
        <4>1. gRow' = [gRow EXCEPT !.st = "active", !.user = gReq[r].user, !.tok = 0, !.bound = None]
          BY <2>7, <3>1 DEF Signups!WriteLink
        <4>2. gRow \in Signups!Row /\ 0 \in 0..MaxTok
          BY <3>1, Parts
        <4>3. gRow' \in Signups!Row /\ gRow'.id = gRow.id /\ gRow'.tok = 0 /\ gRow'.pw = gRow.pw /\ gRow'.st = "active"
          BY <2>4, <4>1, <4>2 DEF Signups!Row, Signups!RowState
        <4> QED
          BY <2>1, <3>1, <4>3
      <3>2. CASE ~(gRow # None /\ gRow.id = gReq[r].id)
        BY <2>2, <2>7, <3>2 DEF Signups!WriteLink
      <3> QED
        BY <3>1, <3>2
    <2> QED
      BY <2>6, <2>7
  <1> QED
    BY <1>1, <1>2, <1>3, Parts, SignupEndStep

\* The token of a mail is checked: what the row says is remembered.
LEMMA VerifyStep ==
    ASSUME Signups!SignupAssumption, SignupInv, NEW r \in Call, Signups!Verify(r)
    PROVE  SignupInv'
  <1>1. /\ gRow # None /\ gRow.st = "pending"
        /\ Signups!Set(r, [Signups!IdleRequest EXCEPT !.pc = IF gRow.fresh THEN "verifying" ELSE "expiring",
                   !.id = gRow.id, !.tok = gRow.tok, !.pw = IF gRow.fresh THEN gRow.pw ELSE None])
        /\ UNCHANGED <<gRow, gToks, gGone, gChain, gFlight, gMade, gLock, gFaults>>
    BY DEF Signups!Verify, Signups!Is, Signups!Deadlines
  <1>2. PICK pc \in {"verifying", "expiring"}, pw \in Person \cup {None} :
          /\ pc = (IF gRow.fresh THEN "verifying" ELSE "expiring") /\ pw = (IF gRow.fresh THEN gRow.pw ELSE None)
          /\ pc = "verifying" => pw = gRow.pw
    BY <1>1, Parts DEF Signups!Row
  <1>3. PICK q : q = [Signups!IdleRequest EXCEPT !.pc = pc, !.id = gRow.id, !.tok = gRow.tok, !.pw = pw]
    OBVIOUS
  <1>4. q.pc = pc /\ q.id = gRow.id /\ q.tok = gRow.tok /\ q.pw = pw /\ q \in Signups!Request
    <2>1. Signups!IdleRequest \in Signups!Request
      BY Parts DEF Signups!IdleRequest, Signups!Request
    <2> QED
      BY <1>1, <1>3, <2>1, Parts DEF Signups!Request
  <1>5. ReadOf(q)
    BY <1>1, <1>2, <1>4, Parts DEF ReadOf
  <1> QED
    BY <1>1, <1>2, <1>3, <1>4, <1>5, Parts, ReadStep

\* A confirmed row is resumed, confirmed or linked, or a pending one mailed again.
LEMMA LooksStep ==
    ASSUME Signups!SignupAssumption, SignupInv, NEW r \in Call, Signups!Resend(r) \/ Signups!Resume(r)
    PROVE  SignupInv'
  <1>1. gRow # None /\ UNCHANGED <<gRow, gToks, gGone, gChain, gFlight, gMade, gLock, gFaults>>
    BY DEF Signups!Resend, Signups!Resume, Signups!Deadlines, Signups!Is
  <1>2. Signups!IdleRequest \in Signups!Request
    BY Parts DEF Signups!IdleRequest, Signups!Request
  <1>3. CASE Signups!Resend(r)
    <2>1. PICK q : q = [Signups!IdleRequest EXCEPT !.pc = "resending", !.id = gRow.id, !.tok = gRow.tok]
      OBVIOUS
    <2>2. q \in Signups!Request /\ q.pc = "resending" /\ q.id = gRow.id /\ q.tok = gRow.tok
      BY <1>1, <1>2, <2>1, Parts DEF Signups!Request
    <2>3. ReadOf(q)
      BY <1>1, <2>2, Parts DEF ReadOf
    <2> QED
      BY <1>1, <1>3, <2>1, <2>2, <2>3, Parts, ReadStep DEF Signups!Resend
  <1>4. CASE Signups!Resume(r)
    <2>1. PICK q : q = [Signups!IdleRequest EXCEPT !.pc = "resuming", !.id = gRow.id, !.pw = gRow.pw]
      OBVIOUS
    <2>2. gRow.pw \in Person \cup {None} /\ gRow.st = "confirmed"
      BY <1>1, <1>4, Parts DEF Signups!Row, Signups!Resume, Signups!Is
    <2>3. q \in Signups!Request /\ q.pc = "resuming" /\ q.id = gRow.id /\ q.pw = gRow.pw /\ q.tok = 0
      BY <1>1, <1>2, <2>1, <2>2, Parts DEF Signups!Request, Signups!IdleRequest
    <2>4. ReadOf(q)
      BY <1>1, <2>2, <2>3, Parts DEF ReadOf
    <2> QED
      BY <1>1, <1>4, <2>1, <2>3, <2>4, Parts, ReadStep DEF Signups!Resume
  <1> QED
    BY <1>3, <1>4

\* The account that is created is that of a confirmed row.
LEMMA ConfirmStep ==
    ASSUME Signups!SignupAssumption, SignupInv, NEW r \in Call, Signups!Confirm(r)
    PROVE  SignupInv'
  <1>1. gRow # None /\ gRow.st = "confirmed" /\ Signups!Acquire(gRow.tok, r) /\ UNCHANGED <<gRow, gToks, gGone, gChain, gMade>>
    BY DEF Signups!Confirm, Signups!Is
  <1>2. PICK c \in Choice, seen \in BOOLEAN :
          /\ seen = (gChain[c.user] # None) \/ (~seen /\ gFaults < MaxFaults)
          /\ seen => Signups!Authorized(c.user, c.keys)
          /\ gFaults' = IF seen = (gChain[c.user] # None) THEN gFaults ELSE gFaults + 1
          /\ IF seen THEN UNCHANGED gFlight ELSE Signups!CreateClaimedAccount(c)
          /\ Signups!Set(r, [Signups!IdleRequest EXCEPT !.pc = IF seen THEN "finalizing" ELSE "creating",
                     !.id = gRow.id, !.tok = gRow.tok, !.user = c.user, !.keys = c.keys])
    BY DEF Signups!Confirm
  <1>3. gFaults' \in 0..MaxFaults
    <2>1. gFaults' = gFaults \/ (gFaults' = gFaults + 1 /\ gFaults < MaxFaults)
      BY <1>2
    <2> QED
      BY <2>1, Parts
  <1>4. gLock' \in [1..MaxTok -> Call \cup {None, 0}]
    BY <1>1, Parts DEF Signups!Acquire
  <1>5. c.user \in Signups!User /\ c.keys \in Signups!Keys
    BY DEF Signups!User, Signups!Keys
  <1>6. PICK pc \in {"finalizing", "creating"} : pc = IF seen THEN "finalizing" ELSE "creating"
    OBVIOUS
  <1>7. PICK q : q = [Signups!IdleRequest EXCEPT !.pc = pc, !.id = gRow.id, !.tok = gRow.tok, !.user = c.user, !.keys = c.keys]
    OBVIOUS
  <1>8. q \in Signups!Request /\ q.pc = pc /\ q.id = gRow.id /\ q.tok = gRow.tok
    <2>1. Signups!IdleRequest \in Signups!Request
      BY Parts DEF Signups!IdleRequest, Signups!Request
    <2> QED
      BY <1>1, <1>5, <1>7, <2>1, Parts DEF Signups!Request
  <1>9. ReadOf(q)
    BY <1>1, <1>8, Parts DEF ReadOf
  <1>10. \A d \in gFlight' : d \in gFlight \/ (d \in Signups!Creation /\ Reachable(d))
    <2>1. PICK d : d = [user |-> c.user, keys |-> c.keys, id |-> gRow.id]
      OBVIOUS
    <2>2. d \in Signups!Creation /\ d.id = gRow.id
      BY <1>1, <1>5, <2>1, Parts DEF Signups!Creation
    <2>3. Reachable(d)
      BY <1>1, <2>2 DEF Reachable
    <2>4. gFlight' \subseteq gFlight \cup {d}
      BY <1>2, <2>1 DEF Signups!CreateClaimedAccount
    <2> QED
      BY <2>2, <2>3, <2>4
  <1> QED
    BY <1>1, <1>2, <1>3, <1>4, <1>6, <1>7, <1>8, <1>9, <1>10, ReadStep

\* An account that exists is linked, with a signature (/link).
LEMMA LinkStep ==
    ASSUME Signups!SignupAssumption, SignupInv, NEW r \in Call, Signups!Link(r)
    PROVE  SignupInv'
  <1>1. gRow # None /\ Signups!Acquire(gRow.tok, r) /\ UNCHANGED <<gRow, gToks, gGone, gChain, gFlight, gMade, gFaults>>
    BY DEF Signups!Link, Signups!Is
  <1>2. PICK u \in Signups!User : Signups!Set(r, [Signups!IdleRequest EXCEPT !.pc = "linking", !.id = gRow.id, !.tok = gRow.tok, !.user = u])
    BY DEF Signups!Link
  <1>3. gLock' \in [1..MaxTok -> Call \cup {None, 0}]
    BY <1>1, Parts DEF Signups!Acquire
  <1>4. PICK q : q = [Signups!IdleRequest EXCEPT !.pc = "linking", !.id = gRow.id, !.tok = gRow.tok, !.user = u]
    OBVIOUS
  <1>5. q \in Signups!Request /\ q.pc = "linking" /\ q.id = gRow.id /\ q.tok = gRow.tok
    <2>1. Signups!IdleRequest \in Signups!Request
      BY Parts DEF Signups!IdleRequest, Signups!Request
    <2> QED
      BY <1>1, <1>4, <2>1, Parts DEF Signups!Request
  <1>6. ReadOf(q)
    BY <1>1, <1>5, Parts DEF ReadOf
  <1> QED
    BY <1>1, <1>2, <1>3, <1>4, <1>5, <1>6, Parts, ReadStep

\* The creation is included, and its request goes on.
LEMMA ResolvesStep ==
    ASSUME Signups!SignupAssumption, SignupInv, NEW r \in Call, Signups!Resolves(r)
    PROVE  SignupInv'
  <1>1. /\ Signups!Set(r, [gReq[r] EXCEPT !.pc = "finalizing"])
        /\ UNCHANGED <<gRow, gToks, gGone, gLock, gChain, gFlight, gMade, gFaults>>
    BY DEF Signups!Resolves
  <1>2. PICK q : q = [gReq[r] EXCEPT !.pc = "finalizing"]
    OBVIOUS
  <1>3. gReq[r] \in Signups!Request /\ ReadOf(gReq[r])
    BY DEF SignupInv, Signups!TypeOK
  <1>4. q \in Signups!Request /\ q.pc = "finalizing" /\ q.id = gReq[r].id /\ q.tok = gReq[r].tok
    BY <1>2, <1>3 DEF Signups!Request
  <1>5. ReadOf(q)
    BY <1>3, <1>4 DEF ReadOf
  <1> QED
    BY <1>1, <1>2, <1>4, <1>5, Parts, ReadStep

\* A step of a route fails.
LEMMA SignupFailsStep ==
    ASSUME Signups!SignupAssumption, SignupInv, NEW r \in Call, Signups!Fails(r)
    PROVE  SignupInv'
  <1>1. Signups!Ends(r) /\ Signups!Release(gReq[r].tok) /\ UNCHANGED <<gRow, gToks, gGone, gChain, gFlight, gMade, gFaults>>
    BY DEF Signups!Fails
  <1>2. RowStep /\ gToks' <= MaxTok
    BY <1>1, Parts DEF RowStep, RowLeft
  <1>3. gLock' \in [1..MaxTok -> Call \cup {None, 0}]
    BY <1>1, Parts DEF Signups!Release
  <1> QED
    BY <1>1, <1>2, <1>3, Parts, SignupEndStep

(***************************************************************************)
(* Signup: around the handlers.                                            *)
(***************************************************************************)

\* A step that moves no request.
LEMMA SignupAroundStep ==
    ASSUME Signups!SignupAssumption, SignupInv, RowStep, gToks' <= MaxTok,
           UNCHANGED gReq \/ gReq' = [r \in Call |-> Signups!IdleRequest],
           gLock' \in [1..MaxTok -> Call \cup {None, 0}], gChain' \in [Signups!User -> Signups!Keys \cup {Foreign, None}],
           gFlight' \cup gMade' \subseteq gFlight \cup gMade, gFaults' \in 0..MaxFaults
    PROVE  SignupInv'
  <1>1. gToks' \in 0..MaxTok /\ gRow' \in Signups!Row \cup {None} /\ gGone' \subseteq 1..(MaxTok + 1)
    BY RowTyped
  <1>2. Signups!IdleRequest \in Signups!Request /\ ReadOf(Signups!IdleRequest)'
    BY Ended
  <1>3. gReq' \in [Call -> Signups!Request]
    BY <1>2 DEF SignupInv, Signups!TypeOK
  <1>4. gFlight' \subseteq Signups!Creation /\ gMade' \subseteq Signups!Creation
    BY DEF SignupInv, Signups!TypeOK
  <1>5. Signups!TypeOK'
    BY <1>1, <1>3, <1>4 DEF Signups!TypeOK
  <1>6. \A r \in Call : ReadOf(gReq[r])'
    <2> SUFFICES ASSUME NEW r \in Call PROVE ReadOf(gReq[r])'
      OBVIOUS
    <2>1. CASE UNCHANGED gReq
      <3>1. PICK q \in Signups!Request : q = gReq[r] /\ ReadOf(q)
        BY DEF SignupInv, Signups!TypeOK
      <3>2. ReadOf(q)'
        BY <3>1, RowReads
      <3> QED
        BY <2>1, <3>1, <3>2 DEF ReadOf
    <2>2. CASE gReq' = [p \in Call |-> Signups!IdleRequest]
      <3>1. gReq'[r] = Signups!IdleRequest
        BY <2>2
      <3> QED
        BY <1>2, <3>1 DEF ReadOf
    <2> QED
      BY <2>1, <2>2
  <1>7. \A c \in gFlight' \cup gMade' : Reachable(c)'
    BY RowReaches DEF SignupInv
  <1> QED
    BY <1>5, <1>6, <1>7, RowMinted DEF SignupInv

\* What happens around the handlers: clean-up, lapses, the chain, a crash.
LEMMA SignupOutsideStep ==
    ASSUME Signups!SignupAssumption, SignupInv, Signups!CleanUp \/ Signups!Lapse \/ Signups!ClaimAddress \/ Signups!Chain \/ Signups!Crash \/ Signups!LockExpires
    PROVE  SignupInv'
  <1>1. gChain \in [Signups!User -> Signups!Keys \cup {Foreign, None}]
    BY DEF SignupInv, Signups!TypeOK
  <1>2. CASE Signups!CleanUp
    <2>1. RowDeleted
      BY <1>2 DEF Signups!CleanUp, Signups!Delete, RowDeleted, Signups!Is
    <2> QED
      BY <1>1, <1>2, <2>1, Parts, SignupAroundStep DEF Signups!CleanUp, Signups!Deadlines, RowStep
  <1>3. CASE Signups!Lapse
    <2>1. gRow' = [gRow EXCEPT !.fresh = FALSE] /\ gRow # None /\ gRow.st # "confirmed" /\ UNCHANGED <<gToks, gGone>>
      BY <1>3 DEF Signups!Lapse, Signups!Is
    <2>2. gRow' \in Signups!Row /\ gRow'.id = gRow.id /\ gRow'.tok = gRow.tok /\ gRow'.st = gRow.st /\ gRow'.pw = gRow.pw
      BY <2>1, Parts DEF Signups!Row
    <2>3. RowSeen
      BY <2>1, <2>2 DEF RowSeen
    <2> QED
      BY <1>1, <1>3, <2>1, <2>3, Parts, SignupAroundStep DEF Signups!Lapse, Signups!Deadlines, RowStep
  <1>4. CASE Signups!ClaimAddress
    <2>1. UNCHANGED <<gReq, gGone, gChain, gFlight, gMade, gLock, gFaults>>
      BY <1>4 DEF Signups!ClaimAddress, Signups!Deadlines
    <2>2. CASE /\ gRow = None /\ gToks < MaxTok /\ gToks' = gToks + 1
               /\ gRow' = [id |-> Signups!NextId, st |-> "claim", tok |-> gToks + 1, pw |-> None, bound |-> None,
                          fresh |-> TRUE, user |-> None, keys |-> None]
      <3>1. gToks + 1 \in 0..MaxTok /\ Signups!NextId \in 1..(MaxTok + 1) /\ Signups!NextId = gToks + 1
        BY <2>2, Parts DEF Signups!NextId
      <3>2. gRow' \in Signups!Row /\ gRow'.id = gToks + 1 /\ gRow'.tok = gToks + 1 /\ gRow'.st = "claim"
        BY <2>2, <3>1 DEF Signups!Row, Signups!RowState
      <3>3. RowNew
        BY <2>1, <2>2, <3>2 DEF RowNew
      <3> QED
        BY <1>1, <2>1, <2>2, <3>1, <3>3, Parts, SignupAroundStep DEF RowStep
    <2>3. CASE Signups!Is({"claim"}) /\ gRow' = [gRow EXCEPT !.st = "owned", !.tok = 0, !.fresh = FALSE] /\ UNCHANGED gToks
      <3>1. gRow \in Signups!Row /\ 0 \in 0..MaxTok /\ gRow # None /\ gRow.st = "claim"
        BY <2>3, Parts DEF Signups!Is
      <3>2. gRow' \in Signups!Row /\ gRow'.id = gRow.id /\ gRow'.tok = 0 /\ gRow'.st = "owned" /\ gRow'.pw = gRow.pw
        BY <2>3, <3>1 DEF Signups!Row, Signups!RowState
      <3>3. RowSettled
        BY <2>1, <2>3, <3>1, <3>2 DEF RowSettled
      <3> QED
        BY <1>1, <2>1, <2>3, <3>3, Parts, SignupAroundStep DEF RowStep
    <2> QED
      BY <1>4, <2>2, <2>3 DEF Signups!ClaimAddress
  <1>5. ASSUME UNCHANGED <<gRow, gToks, gGone>> PROVE RowStep /\ gToks' <= MaxTok
    BY <1>5, Parts DEF RowStep, RowLeft
  <1>6. CASE Signups!Chain
    <2>1. /\ gChain' \in [Signups!User -> Signups!Keys \cup {Foreign, None}]
          /\ gFlight' \cup gMade' \subseteq gFlight \cup gMade
      <3>1. CASE \E c \in gFlight :
                   /\ gFlight' = gFlight \ {c}
                   /\ IF gChain[c.user] = None
                        THEN \/ gChain' = [gChain EXCEPT ![c.user] = c.keys] /\ gMade' = gMade \cup {c}
                             \/ UNCHANGED <<gChain, gMade>>
                        ELSE UNCHANGED <<gChain, gMade>>
        <4>1. \A c \in gFlight : c.keys \in Signups!Keys
          BY DEF SignupInv, Signups!TypeOK, Signups!Creation
        <4> QED
          BY <1>1, <3>1, <4>1
      <3>2. CASE \E u \in Signups!User : /\ gChain[u] = None /\ gChain' = [gChain EXCEPT ![u] = Foreign]
                                         /\ UNCHANGED <<gFlight, gMade>>
        BY <1>1, <3>2
      <3> QED
        BY <1>6, <3>1, <3>2 DEF Signups!Chain
    <2>2. UNCHANGED <<gRow, gToks, gReq, gGone, gLock, gFaults>>
      BY <1>6 DEF Signups!Chain
    <2> QED
      BY <1>5, <2>1, <2>2, Parts, SignupAroundStep
  <1>7. CASE Signups!Crash
    <2>1. /\ gFaults' = gFaults + 1 /\ gFaults < MaxFaults /\ gReq' = [r \in Call |-> Signups!IdleRequest]
          /\ gLock' = [t \in DOMAIN gLock |-> IF gLock[t] = None THEN None ELSE 0]
          /\ UNCHANGED <<gRow, gToks, gGone, gChain, gFlight, gMade>>
      BY <1>7 DEF Signups!Crash
    <2>2. gLock' \in [1..MaxTok -> Call \cup {None, 0}] /\ gFaults' \in 0..MaxFaults
      BY <2>1, Parts
    <2> QED
      BY <1>1, <1>5, <2>1, <2>2, SignupAroundStep
  <1>8. CASE Signups!LockExpires
    <2>1. gLock' \in [1..MaxTok -> Call \cup {None, 0}]
      BY <1>8, Parts DEF Signups!LockExpires, Signups!Release
    <2> QED
      BY <1>1, <1>5, <1>8, <2>1, Parts, SignupAroundStep DEF Signups!LockExpires
  <1> QED
    BY <1>2, <1>3, <1>4, <1>6, <1>7, <1>8

(***************************************************************************)
(* Signup: the theorems.                                                   *)
(***************************************************************************)

\* The initial states satisfy the invariant.
LEMMA SignupStarts ==
    ASSUME Signups!SignupAssumption, Signups!Init
    PROVE  SignupInv
  <1>1. MaxTok \in Nat /\ MaxFaults \in Nat
    BY DEF Signups!SignupAssumption
  <1>2. Signups!IdleRequest \in Signups!Request /\ ReadOf(Signups!IdleRequest)
    BY <1>1 DEF Signups!Init, Signups!IdleRequest, Signups!Request, ReadOf
  <1>3. Signups!TypeOK
    <2>1. gToks = 0 /\ gFaults = 0 /\ gRow = None /\ gFlight = {} /\ gMade = {} /\ gGone = {}
      BY DEF Signups!Init
    <2>2. gReq \in [Call -> Signups!Request] /\ gLock \in [1..MaxTok -> Call \cup {None, 0}]
          /\ gChain \in [Signups!User -> Signups!Keys \cup {Foreign, None}]
      BY <1>2 DEF Signups!Init
    <2> QED
      BY <1>1, <2>1, <2>2 DEF Signups!TypeOK
  <1>4. \A r \in Call : ReadOf(gReq[r])
    <2>1. \A r \in Call : gReq[r] = Signups!IdleRequest
      BY DEF Signups!Init
    <2> QED
      BY <1>2, <2>1
  <1> QED
    BY <1>3, <1>4 DEF Signups!Init, SignupInv, Minted, Signups!BoundToPassword, Signups!Is

\* The inductive invariant holds of every behaviour of the signup routes.
THEOREM SignupInvariant ==
    ASSUME Signups!SignupAssumption
    PROVE  Signups!Spec => []SignupInv
  <1>1. Signups!Init => SignupInv
    BY SignupStarts
  <1>2. SignupInv /\ [Signups!Next]_Signups!vars => SignupInv'
    <2> SUFFICES ASSUME SignupInv, [Signups!Next]_Signups!vars PROVE SignupInv'
      OBVIOUS
    <2>1. CASE \E r \in Call : Signups!Handle(r)
      BY <2>1, SignUpStep, WriteSignupStep, DeletedStep, LooksStep, WriteResendStep, VerifyStep, SignupConfirmedStep,
         WriteResumeStep, ConfirmStep, ResolvesStep, SignupFailsStep, ActivationStep, LinkStep DEF Signups!Handle
    <2>2. CASE Signups!CleanUp \/ Signups!Lapse \/ Signups!ClaimAddress \/ Signups!Chain \/ Signups!Crash \/ Signups!LockExpires
      BY <2>2, SignupOutsideStep
    <2>3. CASE UNCHANGED Signups!vars
      <3>1. RowStep /\ gToks' <= MaxTok
        BY <2>3, Parts DEF Signups!vars, RowStep, RowLeft
      <3>2. gChain \in [Signups!User -> Signups!Keys \cup {Foreign, None}]
        BY DEF SignupInv, Signups!TypeOK
      <3> QED
        BY <2>3, <3>1, <3>2, Parts, SignupAroundStep DEF Signups!vars
    <2> QED
      BY <2>1, <2>2, <2>3 DEF Signups!Next
  <1> QED
    BY <1>1, <1>2, PTL DEF Signups!Spec

\* The signup row, what it minted and the requests keep their types.
THEOREM SignupTyped ==
    ASSUME Signups!SignupAssumption
    PROVE  Signups!Spec => []Signups!TypeOK
  <1>1. SignupInv => Signups!TypeOK
    BY DEF SignupInv
  <1> QED
    BY <1>1, SignupInvariant, PTL

\* A signup is bound by the browser that knows the password of the row it confirmed
\* (signup-verify.ts /verify, /confirm), and an account that a signup created on Hive is activated or
\* has a row that can still be confirmed.
THEOREM SignupHolds ==
    ASSUME Signups!SignupAssumption
    PROVE  Signups!Spec => []SignupsSound
  <1>1. SignupInv => SignupsSound
    BY DEF SignupInv, Signups!NeverStranded, Reachable, SignupsSound
  <1> QED
    BY <1>1, SignupInvariant, PTL

(***************************************************************************)
(* The reputation batch.                                                   *)
(***************************************************************************)

(***************************************************************************)
(* The inductive invariant.                                                *)
(***************************************************************************)

\* Nothing happened that the whole cycles are excused by.
Good == ~bLapsed /\ ~bReverted

\* A score of a cycle up to n, under the weights v.
Under(s, n, v) == s.cycle = -1 \/ (s.cycle <= n /\ s.ver = v /\ s.sound)

\* So is every score that the index lists.
Even(v) == \A u \in Scores!Scored \cap bMembers : Under(bProd[u], bLast, v)

\* A run either goes on under the weights the cursor was moved under, or replays under
\* others than the stamp names.
Going == bRun.pc \notin {"idle", "releasing"}
BeginsRight ==
  Going => /\ bRun.upto >= 1
           /\ bRun.replay => bStamp # bRun.ver
           /\ ~bRun.replay => bStamp = bRun.ver /\ bMoved = bRun.ver /\ bRun.pc # "stamping"
           /\ bRun.ver # None /\ (bRun.pc = "loading" => ~bRun.replay)
           /\ bRun.pc = "stamping" => bRun.cycle >= 1

\* The cursor is at the cycle before, but for a replay that has moved it to none yet.
CursorRight ==
  /\ bRun.pc \in {"loading", "cycle", "staging", "swapping"}
       /\ (~bRun.replay \/ bRun.cycle > 0) => bLast = bRun.cycle - 1
  /\ bRun.pc \in {"listing", "pruning"} => bLast = bRun.cycle /\ bMoved = bRun.ver

\* What a run scores by, what it scored, and what it lists to prune.
BaseRight == bRun.pc = "cycle" => \A s \in bRun.base : Under(s, bRun.cycle - 1, bRun.ver)
ScoreRight ==
  /\ bRun.pc \in {"staging", "swapping", "listing", "pruning"}
       => bRun.score = [cycle |-> bRun.cycle, ver |-> bRun.ver, sound |-> TRUE]
  /\ bRun.pc \in {"listing", "pruning"} => \A u \in Scores!Scored \cap bRun.users : bProd[u].cycle = -1 \/ bProd[u] = bRun.score
  /\ bRun.pc = "pruning" => \A u \in Scores!Scored \cap bMembers : u \in bRun.users \cup bRun.stale \/ bProd[u].cycle = -1

\* The index lists scores of one set of weights: the stamped ones while they moved the
\* cursor last, and those of a replay once it has pruned.
EvenRight ==
  /\ bStamp # None /\ bMoved = bStamp => Even(bStamp)
  /\ Going /\ bRun.replay /\ bRun.cycle > 0 => bMoved = bRun.ver /\ Even(bRun.ver)

\* A run has weights to score under, and scores a cycle once it has elapsed.
InCycle ==
  /\ bRun.pc \in {"staging", "swapping", "listing", "pruning"} => bRun.cycle <= MaxCycle
  /\ bRun.pc \notin {"idle", "releasing"} => bRun.ver # None

\* What is swapped was staged, and a sanction that has begun has left no key behind.
AsStaged == bRun.pc = "swapping" => bStaged = bRun.users
AsSanctioned == \A u \in Rated : bHand[u] = "sanctioning" => bProd[u] = None \/ u \in bExcused

CycleRight == BeginsRight /\ CursorRight /\ BaseRight /\ ScoreRight /\ EvenRight

BatchInv ==
  /\ Scores!TypeOK /\ bElapsed >= 1 /\ InCycle /\ AsStaged /\ AsSanctioned /\ Scores!IndexCovers
       /\ Scores!WholeCycles
  /\ Good => CycleRight

(***************************************************************************)
(* What several steps have in common.                                      *)
(***************************************************************************)

\* What is known of the run, and of a score.
LEMMA RunHolds ==
    ASSUME Scores!BatchAssumption, Scores!TypeOK
    PROVE  /\ bRun.pc \in Scores!Stages /\ bRun.ver \in Weights \cup {None} /\ bRun.replay \in BOOLEAN
           /\ bRun.cycle \in 0..(MaxCycle + 1) /\ bRun.upto \in 0..(MaxCycle + 1)
           /\ bRun.base \subseteq Scores!Score /\ bRun.users \subseteq Rated
                /\ bRun.score \in Scores!Score /\ bRun.stale \subseteq Rated
           /\ \A u \in Scores!Scored : /\ bProd[u] \in Scores!Score /\ bProd[u].cycle \in -1..MaxCycle
                                       /\ bProd[u].ver \in Weights \cup {None} /\ bProd[u].sound \in BOOLEAN
           /\ bLast \in Int /\ MaxCycle \in Nat
  BY DEF Scores!TypeOK, Scores!Run, Scores!Score, Scores!Scored, Scores!BatchAssumption

LEMMA ProvisionalHolds ==
    ASSUME Scores!BatchAssumption
    PROVE  Scores!Provisional \in Scores!Score /\ Scores!Provisional.cycle = -1
             /\ Scores!Resting \in Scores!Run /\ Scores!Resting.pc = "idle"
  BY DEF Scores!BatchAssumption, Scores!Provisional, Scores!Score, Scores!Resting, Scores!Run, Scores!Stages

\* A step beside the run, or one that ends it, which at most deletes scores, sets provisional
\* ones, and lists what is provisional.
LEMMA AroundKeeps ==
    ASSUME Scores!BatchAssumption, BatchInv, Good' => Good, UNCHANGED <<Scores!cursor, bStamp>>,
           bRun' = bRun \/ ~Going',
           \A u \in Scores!Scored' : (u \in Scores!Scored /\ bProd'[u] = bProd[u]) \/ bProd'[u].cycle = -1,
           Good' => \A u \in Scores!Scored' \cap bMembers' : u \in bMembers \/ bProd'[u].cycle = -1
    PROVE  Scores!WholeCycles' /\ (Good' => CycleRight')
  <1> USE DEF Scores!cursor
  <1>1. UNCHANGED <<bLast, bCommitted, bMoved, bStamp>>
    OBVIOUS
  <1>2. Scores!WholeCycles'
    <2> SUFFICES ASSUME Good', NEW u \in Scores!Scored', bProd'[u].cycle >= 0
                 PROVE  bProd'[u].sound /\ <<bProd'[u].ver, bProd'[u].cycle>> \in bCommitted'
      BY DEF Scores!WholeCycles, Good
    <2>1. u \in Scores!Scored /\ bProd'[u] = bProd[u]
      OBVIOUS
    <2> QED
      BY <1>1, <2>1 DEF BatchInv, Scores!WholeCycles, Good
  <1>3. ASSUME Good' PROVE CycleRight'
    <2>1. CycleRight
      BY <1>3 DEF BatchInv
    <2>2. \A v : Even(v) => Even(v)'
      <3> SUFFICES ASSUME NEW v, Even(v), NEW u \in Scores!Scored' \cap bMembers' PROVE Under(bProd'[u], bLast, v)
        BY <1>1 DEF Even, Under
      <3> QED
        BY <1>3 DEF Even, Under
    <2>3. EvenRight'
      <3>1. bStamp' # None /\ bMoved' = bStamp' => Even(bStamp)'
        BY <1>1, <2>1, <2>2 DEF CycleRight, EvenRight
      <3>2. (Going /\ bRun.replay /\ bRun.cycle > 0)' => bMoved' = bRun'.ver /\ Even(bRun.ver)'
        BY <1>1, <2>1, <2>2 DEF CycleRight, EvenRight, Going
      <3> QED
        BY <1>1, <3>1, <3>2 DEF EvenRight, Even
    <2>4. BeginsRight' /\ CursorRight' /\ BaseRight'
      BY <1>1, <2>1 DEF CycleRight, BeginsRight, CursorRight, BaseRight, Going, Under
    <2>5. ScoreRight'
      <3>1. CASE bRun' = bRun
        BY <3>1, <1>3, <2>1 DEF CycleRight, ScoreRight
      <3>2. CASE ~Going'
        BY <3>2 DEF ScoreRight, Going
      <3> QED
        BY <3>1, <3>2
    <2> QED
      BY <2>3, <2>4, <2>5 DEF CycleRight
  <1> QED
    BY <1>2, <1>3

(***************************************************************************)
(* The run.                                                                *)
(***************************************************************************)

\* The lock is taken, and the run is told where to start.
LEMMA StartStep ==
    ASSUME Scores!BatchAssumption, BatchInv, Scores!Start
    PROVE  BatchInv'
  <1> USE DEF Scores!cursor, Scores!world, Scores!handlers
  <1>1. PICK replay \in BOOLEAN, from \in Int :
          /\ replay = (bStamp # bWeights) /\ from = Scores!FirstCycle(replay)
          /\ bRun' = [pc |-> IF from > 0 THEN "loading" ELSE "cycle", ver |-> bWeights, replay |-> replay, cycle |-> from,
                     upto |-> bElapsed, base |-> {}, users |-> {}, score |-> Scores!Provisional, stale |-> {}]
          /\ UNCHANGED <<bAccredited, bWeights, bElapsed, bProd, bMembers, bLast, bStamp, bCommitted,
                         bMoved, bExcused, bLapsed, bHand>>
          /\ bReverted' = (bReverted \/ (~replay /\ bMoved # bWeights)) /\ bStaged' = {} /\ bLock' = TRUE
          /\ UNCHANGED <<bGovs, bHands, bFaults>>
    <2>1. Scores!FirstCycle(bStamp # bWeights) \in Int
      BY RunHolds DEF Scores!FirstCycle, BatchInv
    <2> QED
      BY <2>1 DEF Scores!Start, Scores!Resting, Scores!NoFault
  <1>2. from \in 0..(MaxCycle + 1) /\ (replay => from = 0) /\ (~replay => bLast = from - 1)
    BY <1>1 DEF Scores!FirstCycle, BatchInv, Scores!TypeOK, Scores!BatchAssumption
  <1>0. (replay => bStamp # bWeights) /\ (~replay => bStamp = bWeights) /\ bWeights # None
    BY <1>1 DEF BatchInv, Scores!TypeOK, Scores!BatchAssumption
  <1>3. bRun' \in Scores!Run
    BY <1>1, <1>2, ProvisionalHolds DEF BatchInv, Scores!TypeOK, Scores!Run, Scores!Stages
  <1>4. Scores!TypeOK'
    <2>1. bReverted' \in BOOLEAN
      BY <1>1
    <2> QED
      BY <1>1, <1>3, <2>1 DEF BatchInv, Scores!TypeOK
  <1>5. bElapsed' >= 1 /\ AsStaged' /\ InCycle' /\ AsSanctioned' /\ Scores!IndexCovers'
    BY <1>0, <1>1 DEF BatchInv, AsStaged, InCycle, AsSanctioned, Scores!IndexCovers, Scores!Scored
  <1>6. Good' => Good /\ (~replay => bMoved = bWeights)
    BY <1>1, Zenon DEF Good
  <1>7. Scores!WholeCycles'
    BY <1>1, <1>6 DEF BatchInv, Scores!WholeCycles, Scores!Scored, Good
  <1>8. ASSUME Good' PROVE CycleRight'
    <2>1. CycleRight /\ (~replay => bMoved = bWeights)
      BY <1>6, <1>8 DEF BatchInv
    <2>2. BeginsRight'
      BY <1>0, <1>1, <1>2, <2>1 DEF BeginsRight, BatchInv, Going
    <2>3. CursorRight' /\ BaseRight' /\ ScoreRight'
      BY <1>1, <1>2 DEF CursorRight, BaseRight, ScoreRight
    <2>4. EvenRight'
      BY <1>1, <1>2, <2>1 DEF CycleRight, EvenRight, Even, Scores!Scored, Under
    <2> QED
      BY <2>2, <2>3, <2>4 DEF CycleRight
  <1> QED
    BY <1>4, <1>5, <1>7, <1>8 DEF BatchInv

\* The scores are read, or cannot be.
LEMMA LoadStep ==
    ASSUME Scores!BatchAssumption, BatchInv, Scores!Load
    PROVE  BatchInv'
  <1> USE DEF Scores!cursor, Scores!world, Scores!handlers, Scores!ScoresOf
  <1>1. UNCHANGED <<bAccredited, bWeights, bElapsed, bProd, bStaged, bLast, bStamp, bCommitted, bMoved,
                    bExcused, bReverted, bHand>>
    BY DEF Scores!Load
  <1>2. bRun.pc = "loading" /\ (Good' => Good)
    BY DEF Scores!Load, Good
  <1>3. PICK base \in SUBSET Scores!Score :
          /\ bRun' = [bRun EXCEPT !.pc = "cycle", !.base = base]
          /\ Good' => base = {bProd[u] : u \in Scores!Scored \cap bMembers'} /\ ~Scores!Revives(bMembers')
          /\ bMembers' = bMembers \/ (bMembers = {} /\ bMembers' = Scores!Scored)
          /\ bFaults' \in 0..MaxBatchFaults /\ bLapsed' \in BOOLEAN
    <2>0. bFaults \in 0..MaxBatchFaults /\ MaxBatchFaults \in Nat /\ bLapsed \in BOOLEAN
      BY DEF BatchInv, Scores!TypeOK, Scores!BatchAssumption
    <2>1. CASE /\ bMembers' = IF bMembers = {} THEN Scores!Scored ELSE bMembers
               /\ bRun' = [bRun EXCEPT !.pc = "cycle", !.base = {bProd[u] : u \in Scores!Scored \cap bMembers'}]
               /\ Scores!NoFault /\ bLapsed' = (bLapsed \/ Scores!Revives(bMembers'))
      <3>1. {bProd[u] : u \in Scores!Scored \cap bMembers'} \in SUBSET Scores!Score
        BY RunHolds DEF BatchInv
      <3>2. ~bLapsed' => ~Scores!Revives(bMembers')
        BY <2>1, Zenon
      <3>3. bLapsed' \in BOOLEAN /\ bFaults' \in 0..MaxBatchFaults
        BY <2>0, <2>1 DEF Scores!NoFault, Scores!Revives
      <3> QED
        BY <2>1, <3>1, <3>2, <3>3 DEF Good
    <2>2. CASE Scores!Fault /\ bLapsed' = TRUE /\ bRun' = [bRun EXCEPT !.pc = "cycle"] /\ UNCHANGED bMembers
      <3>1. bRun' = [bRun EXCEPT !.pc = "cycle", !.base = bRun.base] /\ bRun.base \in SUBSET Scores!Score
        BY <2>2, RunHolds DEF BatchInv, Scores!TypeOK, Scores!Run
      <3>2. bFaults' \in 0..MaxBatchFaults
        BY <2>0, <2>2 DEF Scores!Fault
      <3> QED
        BY <2>2, <3>1, <3>2 DEF Good
    <2> QED
      BY <2>1, <2>2 DEF Scores!Load
  <1>4. /\ bRun'.pc = "cycle" /\ bRun'.base = base /\ bRun'.ver = bRun.ver /\ bRun'.replay = bRun.replay
        /\ bRun'.cycle = bRun.cycle /\ bRun'.upto = bRun.upto /\ bRun' \in Scores!Run
    BY <1>3 DEF BatchInv, Scores!TypeOK, Scores!Run, Scores!Stages
  <1>5. Scores!TypeOK'
    BY <1>1, <1>3, <1>4 DEF BatchInv, Scores!TypeOK, Scores!Scored, Scores!Load
  <1>6. bElapsed' >= 1 /\ AsStaged' /\ InCycle' /\ AsSanctioned' /\ Scores!IndexCovers'
    BY <1>1, <1>2, <1>3, <1>4 DEF BatchInv, AsStaged, InCycle, AsSanctioned, Scores!IndexCovers, Scores!Scored
  <1>7. Scores!WholeCycles'
    BY <1>1, <1>2 DEF BatchInv, Scores!WholeCycles, Scores!Scored, Good
  <1>8. ASSUME Good' PROVE CycleRight'
    <2>1. CycleRight /\ BatchInv
      BY <1>2, <1>8 DEF BatchInv
    <2>2. /\ ~bRun.replay /\ bStamp = bRun.ver /\ bRun.ver # None /\ bMoved = bRun.ver
          /\ bRun.upto >= 1 /\ bLast = bRun.cycle - 1
      BY <1>2, <2>1 DEF CycleRight, BeginsRight, CursorRight, Going
    <2>3. Even(bRun.ver) /\ bStamp # None
      <3>1. bStamp # None
        BY <1>2, <2>1, <2>2, RunHolds DEF CycleRight, BeginsRight, Going
      <3> QED
        BY <2>1, <2>2, <3>1 DEF CycleRight, EvenRight
    <2>4. \A u \in Scores!Scored \cap bMembers' : Under(bProd[u], bLast, bRun.ver)
      BY <1>3, <1>8, <2>3, RunHolds DEF Even, Scores!Revives, Under, Scores!Scored, BatchInv
    <2>5. Even(bRun.ver)'
      BY <1>1, <1>4, <2>4 DEF Even, Scores!Scored
    <2>6. EvenRight'
      BY <1>1, <1>4, <2>2, <2>5 DEF EvenRight, Even
    <2>7. BeginsRight' /\ CursorRight' /\ ScoreRight'
      BY <1>1, <1>4, <2>2 DEF BeginsRight, CursorRight, ScoreRight, Going
    <2>8. BaseRight'
      BY <1>3, <1>4, <1>8, <2>2, <2>4 DEF BaseRight, Under
    <2> QED
      BY <2>6, <2>7, <2>8 DEF CycleRight
  <1> QED
    BY <1>5, <1>6, <1>7, <1>8 DEF BatchInv

\* The head of the loop.
LEMMA CycleStep ==
    ASSUME Scores!BatchAssumption, BatchInv, Scores!Cycle
    PROVE  BatchInv'
  <1> USE DEF Scores!cursor, Scores!world, Scores!handlers
  <1>0. /\ UNCHANGED <<bAccredited, bWeights, bElapsed, bProd, bStaged, bMembers, bStamp, bLock,
                       bCommitted, bExcused, bReverted,
                       bHand, bGovs, bHands, bFaults>>
        /\ bRun.pc = "cycle"
    BY DEF Scores!Cycle, Scores!NoFault
  <1>1. CASE bRun.cycle >= bRun.upto /\ UNCHANGED <<bLast, bMoved,
                                                    bLapsed>> /\ bRun' = [bRun EXCEPT !.pc = IF bRun.replay THEN "stamping" ELSE "releasing"]
    <2>1. /\ bRun'.pc = IF bRun.replay THEN "stamping" ELSE "releasing"
          /\ bRun'.cycle = bRun.cycle /\ bRun'.ver = bRun.ver /\ bRun'.replay = bRun.replay
               /\ bRun'.upto = bRun.upto /\ bRun' \in Scores!Run
      BY <1>1, RunHolds DEF BatchInv, Scores!TypeOK, Scores!Run, Scores!Stages
    <2>2. Scores!TypeOK' /\ AsStaged' /\ InCycle' /\ AsSanctioned' /\ Scores!IndexCovers'
            /\ Scores!WholeCycles' /\ bElapsed' >= 1
      BY <1>0, <1>1, <2>1 DEF BatchInv, Scores!TypeOK, AsStaged, InCycle, AsSanctioned, Scores!IndexCovers,
         Scores!WholeCycles, Scores!Scored
    <2>3. ASSUME Good' PROVE CycleRight'
      <3>1. CycleRight /\ Good
        BY <1>0, <1>1, <2>3 DEF BatchInv, Good
      <3>2. bRun.cycle >= 1 /\ bRun.upto >= 1
        BY <1>0, <1>1, <3>1, RunHolds DEF CycleRight, BeginsRight, Going, BatchInv
      <3>3. BeginsRight'
        BY <1>0, <1>1, <2>1, <3>1, <3>2 DEF CycleRight, BeginsRight, Going
      <3>4. CursorRight' /\ BaseRight' /\ ScoreRight'
        BY <2>1 DEF CursorRight, BaseRight, ScoreRight
      <3>5. EvenRight'
        BY <1>0, <1>1, <2>1, <3>1 DEF CycleRight, EvenRight, Even, Scores!Scored, Under, Going
      <3> QED
        BY <3>3, <3>4, <3>5 DEF CycleRight
    <2> QED
      BY <2>2, <2>3 DEF BatchInv
  <1>2. CASE /\ bRun.cycle < bRun.upto /\ bAccredited = {} /\ bLast' = bRun.cycle /\ bMoved' = bRun.ver
             /\ bRun' = [bRun EXCEPT !.cycle = @ + 1] /\ bLapsed' = (bLapsed \/ bRun.replay)
    <2>1. /\ bRun'.pc = "cycle" /\ bRun'.base = bRun.base /\ bRun'.cycle = bRun.cycle + 1
               /\ bRun'.ver = bRun.ver
          /\ bRun'.replay = bRun.replay /\ bRun'.upto = bRun.upto /\ bRun' \in Scores!Run
      BY <1>0, <1>2, RunHolds DEF BatchInv, Scores!TypeOK, Scores!Run
    <2>2. bLapsed' \in BOOLEAN /\ (Good' => Good /\ ~bRun.replay)
      <3>1. ~bLapsed' => ~bLapsed /\ ~bRun.replay
        BY <1>2, Zenon
      <3> QED
        BY <1>0, <1>2, <3>1, RunHolds DEF Good, BatchInv, Scores!TypeOK
    <2>3. bLast' \in -1..MaxCycle /\ bMoved' \in Weights \cup {None}
      BY <1>2, RunHolds DEF BatchInv
    <2>4. Scores!TypeOK' /\ AsStaged' /\ InCycle' /\ AsSanctioned' /\ Scores!IndexCovers'
            /\ Scores!WholeCycles' /\ bElapsed' >= 1
      <3>1. Scores!TypeOK'
        BY <1>0, <2>1, <2>2, <2>3 DEF BatchInv, Scores!TypeOK
      <3>2. Scores!WholeCycles'
        BY <1>0, <2>2 DEF BatchInv, Scores!WholeCycles, Good, Scores!Scored
      <3> QED
        BY <1>0, <2>1, <3>1, <3>2 DEF BatchInv, AsStaged, InCycle, AsSanctioned, Scores!IndexCovers,
           Scores!Scored
    <2>5. ASSUME Good' PROVE CycleRight'
      <3>1. CycleRight /\ ~bRun.replay
        BY <2>2, <2>5 DEF BatchInv
      <3>2. bStamp = bRun.ver /\ bMoved = bRun.ver /\ bRun.ver # None /\ bRun.upto >= 1
              /\ bLast = bRun.cycle - 1
        BY <1>0, <3>1 DEF CycleRight, BeginsRight, CursorRight, Going
      <3>3. \A v : \A s \in Scores!Score : Under(s, bLast, v) => Under(s, bLast', v)
        BY <1>2, <3>2, RunHolds DEF Under, BatchInv, Scores!Score
      <3>4. Even(bRun.ver)'
        BY <1>0, <2>1, <3>1, <3>2, <3>3, RunHolds DEF CycleRight, EvenRight, Even, Scores!Scored, BatchInv
      <3>5. EvenRight'
        BY <1>0, <1>2, <2>1, <3>1, <3>2, <3>4 DEF EvenRight, Even
      <3>6. BaseRight'
        BY <1>0, <1>2, <2>1, <3>1, <3>2, RunHolds DEF CycleRight, BaseRight, Under, BatchInv, Scores!Score
      <3>7. BeginsRight' /\ CursorRight' /\ ScoreRight'
        BY <1>0, <1>2, <2>1, <3>1, <3>2, RunHolds DEF BeginsRight, CursorRight, ScoreRight, Going, BatchInv
      <3> QED
        BY <3>5, <3>6, <3>7 DEF CycleRight
    <2> QED
      BY <2>4, <2>5 DEF BatchInv
  <1>3. CASE /\ bRun.cycle < bRun.upto /\ bAccredited # {} /\ UNCHANGED <<bLast, bMoved, bLapsed>>
             /\ bRun' = [bRun EXCEPT !.pc = "staging", !.users = bAccredited,
                          !.score = [cycle |-> bRun.cycle, ver |-> bRun.ver, sound |-> Scores!Sound(bRun.base, bRun.cycle, bRun.ver)]]
    <2>0. Scores!Sound(bRun.base, bRun.cycle, bRun.ver) \in BOOLEAN
      BY DEF Scores!Sound
    <2>a. PICK sound \in BOOLEAN : sound = Scores!Sound(bRun.base, bRun.cycle, bRun.ver)
      BY <2>0
    <2>b. bAccredited \subseteq Rated /\ bRun.cycle \in 0..MaxCycle /\ bRun.ver \in Weights \cup {None}
            /\ bRun \in Scores!Run
      BY <1>3, RunHolds DEF BatchInv, Scores!TypeOK
    <2>c. [cycle |-> bRun.cycle, ver |-> bRun.ver, sound |-> sound] \in Scores!Score
      BY <2>a, <2>b, RunHolds DEF Scores!Score, BatchInv
    <2>d. PICK score \in Scores!Score : score = [cycle |-> bRun.cycle, ver |-> bRun.ver, sound |-> sound]
      BY <2>c
    <2>e. bRun' = [bRun EXCEPT !.pc = "staging", !.users = bAccredited, !.score = score]
      BY <1>3, <2>a, <2>d
    <2>f. /\ bRun'.pc = "staging" /\ bRun'.cycle = bRun.cycle /\ bRun'.ver = bRun.ver /\ bRun'.score = score
          /\ bRun'.replay = bRun.replay /\ bRun'.upto = bRun.upto /\ bRun' \in Scores!Run
      BY <2>b, <2>e DEF Scores!Run, Scores!Stages
    <2>1. /\ bRun'.pc = "staging" /\ bRun'.cycle = bRun.cycle /\ bRun'.ver = bRun.ver
          /\ bRun'.score = [cycle |-> bRun.cycle, ver |-> bRun.ver, sound |-> Scores!Sound(bRun.base, bRun.cycle, bRun.ver)]
          /\ bRun'.replay = bRun.replay /\ bRun'.upto = bRun.upto /\ bRun' \in Scores!Run
      BY <2>a, <2>d, <2>f
    <2>g. UNCHANGED <<bLast, bMoved, bLapsed>>
      BY <1>3
    <2>2. Scores!TypeOK' /\ AsStaged' /\ InCycle' /\ AsSanctioned' /\ Scores!IndexCovers'
            /\ Scores!WholeCycles' /\ bElapsed' >= 1
      BY <1>0, <2>b, <2>f, <2>g DEF BatchInv, Scores!TypeOK, AsStaged, InCycle, AsSanctioned,
         Scores!IndexCovers, Scores!WholeCycles, Scores!Scored
    <2>3. ASSUME Good' PROVE CycleRight'
      <3>1. CycleRight
        BY <1>0, <1>3, <2>3 DEF BatchInv, Good
      <3>2. Scores!Sound(bRun.base, bRun.cycle, bRun.ver) = TRUE
        BY <1>0, <2>0, <3>1, RunHolds DEF CycleRight, BaseRight, Under, Scores!Sound, BatchInv, Scores!Score
      <3>3. BeginsRight' /\ CursorRight' /\ BaseRight' /\ ScoreRight'
        BY <1>0, <1>3, <2>1, <3>1, <3>2 DEF CycleRight, BeginsRight, CursorRight, BaseRight, ScoreRight, Going
      <3>4. EvenRight'
        BY <1>0, <1>3, <2>1, <3>1 DEF CycleRight, EvenRight, Even, Scores!Scored, Under, Going
      <3> QED
        BY <3>3, <3>4 DEF CycleRight
    <2> QED
      BY <2>2, <2>3 DEF BatchInv
  <1>4. CASE Scores!Exit /\ UNCHANGED <<bLast, bMoved, bLapsed>>
    <2>1. bRun'.pc = "releasing" /\ bRun' \in Scores!Run
      BY <1>4 DEF Scores!Exit, BatchInv, Scores!TypeOK, Scores!Run, Scores!Stages
    <2>2. Scores!TypeOK' /\ AsStaged' /\ InCycle' /\ AsSanctioned' /\ Scores!IndexCovers' /\ bElapsed' >= 1
      BY <1>0, <1>4, <2>1 DEF BatchInv, Scores!TypeOK, AsStaged, InCycle, AsSanctioned, Scores!IndexCovers,
         Scores!Scored
    <2>3. ~Going'
      BY <2>1 DEF Going
    <2>4. Scores!WholeCycles' /\ (Good' => CycleRight')
      BY <1>0, <1>4, <2>3, AroundKeeps DEF Good, Scores!Scored
    <2> QED
      BY <2>2, <2>4 DEF BatchInv
  <1> QED
    BY <1>1, <1>2, <1>3, <1>4 DEF Scores!Cycle

\* The staging pipeline.
LEMMA StageStep ==
    ASSUME Scores!BatchAssumption, BatchInv, Scores!Stage
    PROVE  BatchInv'
  <1> USE DEF Scores!cursor, Scores!world, Scores!handlers
  <1>1. /\ UNCHANGED <<bAccredited, bWeights, bElapsed, bProd, bMembers, bLast, bStamp, bLock, bCommitted,
                       bMoved, bExcused, bLapsed,
                       bReverted, bHand, bGovs, bHands>>
        /\ bRun.pc = "staging"
    BY DEF Scores!Stage
  <1>2. PICK done \in SUBSET bRun.users :
          /\ bStaged' = done /\ bFaults' \in 0..MaxBatchFaults
          /\ bRun' = [bRun EXCEPT !.pc = IF done = bRun.users THEN "swapping" ELSE "releasing"]
    BY DEF Scores!Stage, Scores!AllStaged, Scores!NoFault, Scores!Fault, BatchInv, Scores!TypeOK,
       Scores!BatchAssumption
  <1>3. /\ bRun'.pc = IF done = bRun.users THEN "swapping" ELSE "releasing"
        /\ bRun'.cycle = bRun.cycle /\ bRun'.ver = bRun.ver /\ bRun'.score = bRun.score
             /\ bRun'.users = bRun.users
        /\ bRun'.replay = bRun.replay /\ bRun'.upto = bRun.upto /\ bRun' \in Scores!Run
    BY <1>2 DEF BatchInv, Scores!TypeOK, Scores!Run, Scores!Stages
  <1>4. bStaged' \subseteq Rated
    BY <1>2, RunHolds DEF BatchInv
  <1>5. Scores!TypeOK' /\ AsStaged' /\ InCycle' /\ AsSanctioned' /\ Scores!IndexCovers'
          /\ Scores!WholeCycles' /\ bElapsed' >= 1
    BY <1>1, <1>2, <1>3, <1>4 DEF BatchInv, Scores!TypeOK, AsStaged, InCycle, AsSanctioned,
       Scores!IndexCovers, Scores!WholeCycles, Scores!Scored
  <1>6. ASSUME Good' PROVE CycleRight'
    <2>1. CycleRight
      BY <1>1, <1>6 DEF BatchInv, Good
    <2>2. BeginsRight' /\ CursorRight' /\ BaseRight' /\ ScoreRight'
      BY <1>1, <1>3, <2>1 DEF CycleRight, BeginsRight, CursorRight, BaseRight, ScoreRight, Going
    <2>3. EvenRight'
      BY <1>1, <1>3, <2>1 DEF CycleRight, EvenRight, Even, Scores!Scored, Under, Going
    <2> QED
      BY <2>2, <2>3 DEF CycleRight
  <1> QED
    BY <1>5, <1>6 DEF BatchInv

\* The script: it renames what was staged, and the cursor moves with it; or it does not run.
LEMMA SwapStep ==
    ASSUME Scores!BatchAssumption, BatchInv, Scores!Swap
    PROVE  BatchInv'
  <1> USE DEF Scores!cursor, Scores!world, Scores!handlers
  <1>0. /\ UNCHANGED <<bAccredited, bWeights, bElapsed, bStamp, bLock, bLapsed, bReverted, bHand, bGovs,
                       bHands>>
        /\ bRun.pc = "swapping" /\ bStaged = bRun.users /\ bRun.users \subseteq Rated
             /\ bRun.score \in Scores!Score
        /\ bFaults' \in 0..MaxBatchFaults
    <2>1. bFaults \in 0..MaxBatchFaults /\ MaxBatchFaults \in Nat
      BY DEF BatchInv, Scores!TypeOK, Scores!BatchAssumption
    <2> QED
      BY <2>1, RunHolds DEF Scores!Swap, BatchInv, AsStaged, InCycle, Scores!Fault, Scores!NoFault
  <1>1. CASE /\ Scores!Renames(bRun.users) /\ bLast' = bRun.cycle
          /\ bCommitted' = bCommitted \cup {<<bRun.ver, bRun.cycle>>}
             /\ bMoved' = bRun.ver /\ (bRun' = [bRun EXCEPT !.pc = "listing"] \/ Scores!Exit)
    <2>1. /\ bRun'.pc \in {"listing", "releasing"} /\ bRun'.cycle = bRun.cycle /\ bRun'.ver = bRun.ver
          /\ bRun'.score = bRun.score /\ bRun'.users = bRun.users
          /\ bRun'.replay = bRun.replay /\ bRun'.upto = bRun.upto /\ bRun' \in Scores!Run
      BY <1>1 DEF Scores!Exit, BatchInv, Scores!TypeOK, Scores!Run, Scores!Stages
    <2>2. /\ bProd' = [u \in Rated |-> IF u \in bRun.users THEN bRun.score ELSE bProd[u]]
          /\ bStaged' = {} /\ bMembers' = bMembers \cup bRun.users
          /\ bExcused' = (bExcused \ bRun.users) \cup {u \in bRun.users : bHand[u] = "sanctioning"}
      BY <1>0, <1>1 DEF Scores!Renames, Scores!Indexed
    <2>a. bRun.cycle \in 0..MaxCycle /\ bRun.ver \in Weights
      BY <1>0, RunHolds DEF BatchInv, InCycle
    <2>3. Scores!TypeOK'
      BY <1>0, <1>1, <2>1, <2>2, <2>a, RunHolds DEF BatchInv, Scores!TypeOK, Scores!Score
    <2>4. AsStaged' /\ InCycle' /\ AsSanctioned' /\ Scores!IndexCovers' /\ bElapsed' >= 1
      <3>1. AsStaged' /\ InCycle' /\ bElapsed' >= 1
        BY <1>0, <2>1 DEF AsStaged, InCycle, BatchInv
      <3>2. AsSanctioned'
        BY <1>0, <2>2 DEF AsSanctioned, BatchInv
      <3>3. Scores!IndexCovers'
        BY <1>0, <2>2 DEF Scores!IndexCovers, BatchInv, Scores!Scored
      <3> QED
        BY <3>1, <3>2, <3>3
    <2>5. ASSUME Good' PROVE CycleRight /\ Good
      BY <1>0, <2>5 DEF BatchInv, Good
    <2>6. Scores!WholeCycles'
      <3> SUFFICES ASSUME Good', NEW u \in Scores!Scored', bProd'[u].cycle >= 0
                   PROVE  bProd'[u].sound /\ <<bProd'[u].ver, bProd'[u].cycle>> \in bCommitted'
        BY DEF Scores!WholeCycles, Good
      <3>1. CycleRight /\ Good
        BY <2>5
      <3>2. bRun.score = [cycle |-> bRun.cycle, ver |-> bRun.ver, sound |-> TRUE]
        BY <1>0, <3>1 DEF CycleRight, ScoreRight
      <3>3. CASE u \in bRun.users
        BY <1>0, <1>1, <2>2, <3>2, <3>3
      <3>4. CASE u \notin bRun.users
        <4>1. u \in Scores!Scored /\ bProd'[u] = bProd[u]
          BY <2>2, <3>4 DEF Scores!Scored
        <4> QED
          BY <1>1, <3>1, <4>1 DEF BatchInv, Scores!WholeCycles, Good
      <3> QED
        BY <3>3, <3>4
    <2>7. ASSUME Good' PROVE CycleRight'
      <3>1. CycleRight
        BY <2>5, <2>7
      <3>2. /\ bRun.score = [cycle |-> bRun.cycle, ver |-> bRun.ver, sound |-> TRUE]
            /\ bRun.upto >= 1 /\ bRun.ver # None
            /\ (bRun.replay => bStamp # bRun.ver) /\ (~bRun.replay => bStamp = bRun.ver /\ bMoved = bRun.ver)
            /\ (~bRun.replay \/ bRun.cycle > 0 => bLast = bRun.cycle - 1)
        BY <1>0, <3>1 DEF CycleRight, ScoreRight, BeginsRight, CursorRight, Going
      <3>3. BeginsRight' /\ CursorRight' /\ BaseRight'
        BY <1>0, <1>1, <2>1, <3>2, RunHolds DEF BeginsRight, CursorRight, BaseRight, Going, BatchInv
      <3>4. ~bRun.replay \/ bRun.cycle > 0 => Even(bRun.ver)
        BY <1>0, <3>1, <3>2 DEF CycleRight, EvenRight, Going
      <3>5. ~bRun.replay \/ bRun.cycle > 0 => Even(bRun.ver)'
        <4> SUFFICES ASSUME ~bRun.replay \/ bRun.cycle > 0, NEW u \in Scores!Scored' \cap bMembers'
                     PROVE  Under(bProd'[u], bLast', bRun.ver)
          BY <2>1 DEF Even
        <4>1. CASE u \in bRun.users
          BY <1>0, <1>1, <2>2, <3>2, <4>1, RunHolds DEF Under, BatchInv
        <4>2. CASE u \notin bRun.users
          <5>1. u \in Scores!Scored \cap bMembers /\ bProd'[u] = bProd[u]
            BY <2>2, <4>2 DEF Scores!Scored
          <5> QED
            BY <1>1, <3>2, <3>4, <5>1, RunHolds DEF Even, Under, BatchInv
        <4> QED
          BY <4>1, <4>2
      <3>6. ScoreRight'
        <4>1. \A u \in Scores!Scored' \cap bRun'.users : bProd'[u] = bRun'.score
          BY <1>0, <2>1, <2>2
        <4> QED
          BY <2>1, <3>2, <4>1 DEF ScoreRight
      <3>7. EvenRight'
        BY <1>0, <1>1, <2>1, <3>2, <3>5, RunHolds DEF EvenRight, Even, BatchInv
      <3> QED
        BY <3>3, <3>6, <3>7 DEF CycleRight
    <2> QED
      BY <2>3, <2>4, <2>6, <2>7 DEF BatchInv
  <1>2. CASE Scores!Exit /\ Scores!Fault /\ UNCHANGED <<bProd, bStaged, bMembers, bExcused, Scores!cursor>>
    <2>1. bRun'.pc = "releasing" /\ bRun' \in Scores!Run
      BY <1>2 DEF Scores!Exit, BatchInv, Scores!TypeOK, Scores!Run, Scores!Stages
    <2>2. Scores!TypeOK' /\ AsStaged' /\ InCycle' /\ AsSanctioned' /\ Scores!IndexCovers' /\ bElapsed' >= 1
      BY <1>0, <1>2, <2>1 DEF BatchInv, Scores!TypeOK, AsStaged, InCycle, AsSanctioned, Scores!IndexCovers,
         Scores!Scored
    <2>3. ~Going'
      BY <2>1 DEF Going
    <2>4. Scores!WholeCycles' /\ (Good' => CycleRight')
      BY <1>0, <1>2, <2>3, AroundKeeps DEF Good, Scores!Scored
    <2> QED
      BY <2>2, <2>4 DEF BatchInv
  <1> QED
    BY <1>0, <1>1, <1>2 DEF Scores!Swap

\* What the run goes on with after a cycle.
LEMMA NextHolds ==
    ASSUME Scores!BatchAssumption, Scores!TypeOK, bRun' = Scores!NextCycle, bRun.cycle <= MaxCycle
    PROVE  /\ bRun'.pc = "cycle" /\ bRun'.cycle = bRun.cycle + 1 /\ bRun'.base = {bRun.score}
           /\ bRun'.ver = bRun.ver /\ bRun'.replay = bRun.replay /\ bRun'.upto = bRun.upto
                /\ bRun' \in Scores!Run
  <1>1. {bRun.score} \in SUBSET Scores!Score /\ bRun.cycle + 1 \in 0..(MaxCycle + 1)
    BY RunHolds
  <1>2. PICK base \in SUBSET Scores!Score, n \in 0..(MaxCycle + 1) : base = {bRun.score} /\ n = bRun.cycle + 1
    BY <1>1
  <1>3. bRun' = [bRun EXCEPT !.pc = "cycle", !.cycle = n, !.base = base, !.users = {}, !.stale = {}]
    BY <1>2 DEF Scores!NextCycle
  <1>4. /\ bRun'.pc = "cycle" /\ bRun'.cycle = n /\ bRun'.base = base
        /\ bRun'.ver = bRun.ver /\ bRun'.replay = bRun.replay /\ bRun'.upto = bRun.upto /\ bRun' \in Scores!Run
    BY <1>3 DEF Scores!TypeOK, Scores!Run, Scores!Stages
  <1> QED
    BY <1>2, <1>4

\* A cycle is done: the index lists its scores and provisional ones.
LEMMA NextKeeps ==
    ASSUME Scores!BatchAssumption, BatchInv, Good, bRun.pc \in {"listing", "pruning"}, bRun' = Scores!NextCycle,
           UNCHANGED <<bLast, bCommitted, bMoved, bStamp>>,
           \A u \in Scores!Scored' \cap bMembers' : bProd'[u].cycle = -1 \/ bProd'[u] = bRun.score
    PROVE  CycleRight'
  <1>0. /\ bRun'.pc = "cycle" /\ bRun'.cycle = bRun.cycle + 1 /\ bRun'.base = {bRun.score}
        /\ bRun'.ver = bRun.ver /\ bRun'.replay = bRun.replay /\ bRun'.upto = bRun.upto
    BY NextHolds DEF BatchInv, InCycle
  <1>1. CycleRight
    BY DEF BatchInv
  <1>2. bRun.score = [cycle |-> bRun.cycle, ver |-> bRun.ver, sound |-> TRUE] /\ bLast = bRun.cycle
    BY <1>1 DEF CycleRight, ScoreRight, CursorRight
  <1>3. Under(bRun.score, bRun.cycle, bRun.ver)
    BY <1>2, RunHolds DEF Under, BatchInv
  <1>4. BeginsRight' /\ CursorRight' /\ BaseRight' /\ ScoreRight'
    <2>1. BeginsRight'
      BY <1>0, <1>1 DEF CycleRight, BeginsRight, Going
    <2>2. CursorRight' /\ ScoreRight'
      BY <1>0, <1>2, RunHolds DEF CursorRight, ScoreRight, BatchInv, InCycle
    <2>3. BaseRight'
      BY <1>0, <1>3, RunHolds DEF BaseRight, Under, BatchInv
    <2> QED
      BY <2>1, <2>2, <2>3
  <1>5. Even(bRun.ver)'
    BY <1>0, <1>2, <1>3 DEF Even, Under
  <1>6. bMoved = bRun.ver
    BY <1>1 DEF CycleRight, CursorRight
  <1>7. EvenRight'
    BY <1>0, <1>5, <1>6 DEF EvenRight, Even
  <1> QED
    BY <1>4, <1>7 DEF CycleRight

\* The index is read, and what is stale is listed.
LEMMA PruneListStep ==
    ASSUME Scores!BatchAssumption, BatchInv, Scores!PruneList
    PROVE  BatchInv'
  <1> USE DEF Scores!cursor, Scores!world, Scores!handlers
  <1>0. /\ UNCHANGED <<bAccredited, bWeights, bElapsed, bProd, bStaged, bMembers, bLast, bStamp, bLock,
                       bCommitted, bMoved, bExcused,
                       bReverted, bHand, bGovs, bHands>>
        /\ bRun.pc = "listing" /\ bRun.cycle <= MaxCycle
    BY DEF Scores!PruneList, BatchInv, InCycle
  <1>1. PICK stale \in SUBSET Rated : stale = bMembers \ bRun.users
    BY DEF BatchInv, Scores!TypeOK
  <1>2. /\ \/ stale # {} /\ bRun' = [bRun EXCEPT !.pc = "pruning", !.stale = stale]
           \/ stale = {} /\ bRun' = Scores!NextCycle
           \/ bRun' = Scores!NextCycle /\ bLapsed' = TRUE
        /\ bLapsed' \in BOOLEAN /\ bFaults' \in 0..MaxBatchFaults /\ (~bLapsed' => ~bLapsed)
    <2>0. bFaults \in 0..MaxBatchFaults /\ MaxBatchFaults \in Nat /\ bLapsed \in BOOLEAN
      BY DEF BatchInv, Scores!TypeOK, Scores!BatchAssumption
    <2>1. bFaults' \in 0..MaxBatchFaults
      BY <2>0 DEF Scores!PruneList, Scores!Fault, Scores!NoFault
    <2>2. bLapsed' = (bLapsed \/ bFaults' # bFaults)
      BY DEF Scores!PruneList
    <2>3. bLapsed' \in BOOLEAN /\ (~bLapsed' => ~bLapsed /\ bFaults' = bFaults)
      BY <2>2, Zenon
    <2>4. Scores!Fault => bLapsed' = TRUE
      BY <2>0, <2>3 DEF Scores!Fault
    <2>5. \/ stale # {} /\ bRun' = [bRun EXCEPT !.pc = "pruning", !.stale = stale]
          \/ stale = {} /\ bRun' = Scores!NextCycle
          \/ bRun' = Scores!NextCycle /\ Scores!Fault
      BY <1>1 DEF Scores!PruneList
    <2> QED
      BY <2>1, <2>3, <2>4, <2>5
  <1>3. CASE stale # {} /\ bRun' = [bRun EXCEPT !.pc = "pruning", !.stale = stale]
    <2>1. /\ bRun'.pc = "pruning" /\ bRun'.stale = stale /\ bRun'.cycle = bRun.cycle /\ bRun'.ver = bRun.ver
          /\ bRun'.score = bRun.score /\ bRun'.users = bRun.users
          /\ bRun'.replay = bRun.replay /\ bRun'.upto = bRun.upto /\ bRun' \in Scores!Run
      BY <1>3 DEF BatchInv, Scores!TypeOK, Scores!Run, Scores!Stages
    <2>2. Scores!TypeOK' /\ AsStaged' /\ InCycle' /\ AsSanctioned' /\ Scores!IndexCovers'
            /\ Scores!WholeCycles' /\ bElapsed' >= 1
      BY <1>0, <1>2, <2>1 DEF BatchInv, Scores!TypeOK, AsStaged, InCycle, AsSanctioned, Scores!IndexCovers,
         Scores!WholeCycles, Scores!Scored
    <2>3. ASSUME Good' PROVE CycleRight'
      <3>1. CycleRight
        BY <1>0, <1>2, <2>3 DEF BatchInv, Good
      <3>2. BeginsRight' /\ CursorRight' /\ BaseRight'
        BY <1>0, <2>1, <3>1 DEF CycleRight, BeginsRight, CursorRight, BaseRight, Going
      <3>3. ScoreRight'
        BY <1>0, <1>1, <2>1, <3>1 DEF CycleRight, ScoreRight, Scores!Scored
      <3>4. EvenRight'
        BY <1>0, <2>1, <3>1 DEF CycleRight, EvenRight, Even, Scores!Scored, Under, Going
      <3> QED
        BY <3>2, <3>3, <3>4 DEF CycleRight
    <2> QED
      BY <2>2, <2>3 DEF BatchInv
  <1>4. CASE bRun' = Scores!NextCycle /\ (stale = {} \/ bLapsed' = TRUE)
    <2>1. bRun'.pc = "cycle" /\ bRun' \in Scores!Run /\ bRun'.ver = bRun.ver
      BY <1>0, <1>4, NextHolds DEF BatchInv
    <2>2. Scores!TypeOK' /\ AsStaged' /\ InCycle' /\ AsSanctioned' /\ Scores!IndexCovers'
            /\ Scores!WholeCycles' /\ bElapsed' >= 1
      BY <1>0, <1>2, <2>1 DEF BatchInv, Scores!TypeOK, AsStaged, InCycle, AsSanctioned, Scores!IndexCovers,
         Scores!WholeCycles, Scores!Scored
    <2>3. ASSUME Good' PROVE CycleRight'
      <3>1. CycleRight /\ Good /\ stale = {}
        BY <1>0, <1>2, <1>4, <2>3 DEF BatchInv, Good
      <3>2. \A u \in Scores!Scored' \cap bMembers' : bProd'[u].cycle = -1 \/ bProd'[u] = bRun.score
        BY <1>0, <1>1, <3>1 DEF CycleRight, ScoreRight, Scores!Scored
      <3> QED
        BY <1>0, <1>4, <3>1, <3>2, NextKeeps, RunHolds DEF BatchInv
    <2> QED
      BY <2>2, <2>3 DEF BatchInv
  <1> QED
    BY <1>2, <1>3, <1>4

\* What is stale leaves the index, and its key is deleted.
LEMMA PruneStep ==
    ASSUME Scores!BatchAssumption, BatchInv, Scores!Prune
    PROVE  BatchInv'
  <1> USE DEF Scores!cursor, Scores!world, Scores!handlers
  <1>0. /\ UNCHANGED <<bAccredited, bWeights, bElapsed, bStaged, bLast, bStamp, bLock, bCommitted, bMoved,
                       bReverted, bHand, bGovs, bHands>>
        /\ bRun.pc = "pruning" /\ bRun.cycle <= MaxCycle /\ bRun' = Scores!NextCycle
    BY DEF Scores!Prune, BatchInv, InCycle
  <1>1. PICK left \in SUBSET Rated :
          /\ \/ /\ bMembers' = bMembers \ bRun.stale
                /\ bProd' = [u \in Rated |-> IF u \in bRun.stale \ left THEN None ELSE bProd[u]]
                /\ bExcused' = bExcused \cup left
             \/ UNCHANGED <<bProd, bMembers, bExcused>> /\ bLapsed' = TRUE
          /\ bLapsed' \in BOOLEAN /\ bFaults' \in 0..MaxBatchFaults /\ (~bLapsed' => ~bLapsed)
    <2>0. bFaults \in 0..MaxBatchFaults /\ MaxBatchFaults \in Nat /\ bLapsed \in BOOLEAN
      BY DEF BatchInv, Scores!TypeOK, Scores!BatchAssumption
    <2>1. bFaults' \in 0..MaxBatchFaults
      BY <2>0 DEF Scores!Prune, Scores!Fault, Scores!NoFault
    <2>2. bLapsed' = (bLapsed \/ bFaults' # bFaults)
      BY DEF Scores!Prune
    <2>3. bLapsed' \in BOOLEAN /\ (~bLapsed' => ~bLapsed /\ bFaults' = bFaults)
      BY <2>2, Zenon
    <2>4. Scores!Fault => bLapsed' = TRUE
      BY <2>0, <2>3 DEF Scores!Fault
    <2>5. \/ \E left \in SUBSET bRun.stale :
               /\ bMembers' = bMembers \ bRun.stale
               /\ bProd' = [u \in Rated |-> IF u \in bRun.stale \ left THEN None ELSE bProd[u]]
               /\ bExcused' = bExcused \cup left
          \/ Scores!Fault /\ UNCHANGED <<bProd, bMembers, bExcused>>
      BY DEF Scores!Prune
    <2>6. CASE Scores!Fault /\ UNCHANGED <<bProd, bMembers, bExcused>>
      <3>1. {} \in SUBSET Rated
        OBVIOUS
      <3> QED
        BY <2>1, <2>3, <2>4, <2>6, <3>1
    <2> QED
      BY <2>1, <2>3, <2>5, <2>6, RunHolds DEF BatchInv
  <1>2. bRun'.pc = "cycle" /\ bRun' \in Scores!Run /\ bRun'.ver = bRun.ver
    BY <1>0, NextHolds DEF BatchInv
  <1>3. Scores!TypeOK'
    BY <1>0, <1>1, <1>2 DEF BatchInv, Scores!TypeOK
  <1>4. \A u \in Scores!Scored' : u \in Scores!Scored /\ bProd'[u] = bProd[u]
    BY <1>1 DEF Scores!Scored
  <1>5. AsStaged' /\ InCycle' /\ AsSanctioned' /\ bElapsed' >= 1
    <2>1. AsStaged' /\ InCycle' /\ bElapsed' >= 1
      BY <1>0, <1>2 DEF BatchInv, AsStaged, InCycle
    <2>2. AsSanctioned'
      BY <1>0, <1>1 DEF BatchInv, AsSanctioned
    <2> QED
      BY <2>1, <2>2
  <1>6. Scores!IndexCovers'
    <2> SUFFICES ASSUME NEW u \in Scores!Scored' \ bMembers' PROVE bHand'[u] = "seeding" \/ u \in bExcused'
      BY DEF Scores!IndexCovers
    <2>1. u \in Scores!Scored
      BY <1>4
    <2>2. CASE u \in bMembers
      BY <1>1, <2>2 DEF Scores!Scored
    <2>3. CASE u \notin bMembers
      BY <1>0, <1>1, <2>1, <2>3 DEF BatchInv, Scores!IndexCovers
    <2> QED
      BY <2>2, <2>3
  <1>7. Good' => Good
    BY <1>0, <1>1 DEF Good
  <1>8. Scores!WholeCycles'
    <2> SUFFICES ASSUME Good', NEW u \in Scores!Scored', bProd'[u].cycle >= 0
                 PROVE  bProd'[u].sound /\ <<bProd'[u].ver, bProd'[u].cycle>> \in bCommitted'
      BY DEF Scores!WholeCycles, Good
    <2> QED
      BY <1>0, <1>4, <1>7 DEF BatchInv, Scores!WholeCycles, Good
  <1>9. ASSUME Good' PROVE CycleRight'
    <2>1. CycleRight /\ Good
      BY <1>7, <1>9 DEF BatchInv
    <2>2. \A u \in Scores!Scored' \cap bMembers' : u \in Scores!Scored \cap bMembers /\ u \notin bRun.stale
      BY <1>1, <1>4, <1>9 DEF Good
    <2>3. \A u \in Scores!Scored' \cap bMembers' : bProd'[u].cycle = -1 \/ bProd'[u] = bRun.score
      BY <1>0, <1>4, <2>1, <2>2 DEF CycleRight, ScoreRight
    <2> QED
      BY <1>0, <2>1, <2>3, NextKeeps, RunHolds DEF BatchInv
  <1> QED
    BY <1>3, <1>5, <1>6, <1>8, <1>9 DEF BatchInv

\* A replay is stamped once it has scored every elapsed cycle.
LEMMA StampStep ==
    ASSUME Scores!BatchAssumption, BatchInv, Scores!Stamp
    PROVE  BatchInv'
  <1> USE DEF Scores!cursor, Scores!world, Scores!handlers
  <1>0. /\ UNCHANGED <<bAccredited, bWeights, bElapsed, bProd, bStaged, bMembers, bLast, bLock, bCommitted,
                       bMoved, bExcused,
                       bLapsed, bReverted, bHand, bGovs, bHands>>
        /\ bRun.pc = "stamping" /\ (bStamp' = bRun.ver \/ bStamp' = bStamp)
    BY DEF Scores!Stamp
  <1>1. bFaults' \in 0..MaxBatchFaults
    BY DEF Scores!Stamp, Scores!Fault, Scores!NoFault, BatchInv, Scores!TypeOK, Scores!BatchAssumption
  <1>2. bRun'.pc = "releasing" /\ bRun' \in Scores!Run /\ bRun.ver \in Weights
    BY <1>0, RunHolds DEF Scores!Stamp, Scores!Exit, BatchInv, InCycle, Scores!TypeOK, Scores!Run, Scores!Stages
  <1>3. Scores!TypeOK' /\ AsStaged' /\ InCycle' /\ AsSanctioned' /\ Scores!IndexCovers'
          /\ Scores!WholeCycles' /\ bElapsed' >= 1
    BY <1>0, <1>1, <1>2 DEF BatchInv, Scores!TypeOK, AsStaged, InCycle, AsSanctioned, Scores!IndexCovers,
       Scores!WholeCycles, Scores!Scored
  <1>4. ASSUME Good' PROVE CycleRight'
    <2>1. CycleRight
      BY <1>0, <1>4 DEF BatchInv, Good
    <2>2. bMoved = bRun.ver /\ Even(bRun.ver)
      BY <1>0, <2>1, RunHolds DEF CycleRight, BeginsRight, EvenRight, Going, BatchInv
    <2>3. \A v : Even(v) => Even(v)'
      BY <1>0 DEF Even, Scores!Scored, Under
    <2>4. bStamp' # None /\ bMoved' = bStamp' => Even(bStamp)'
      <3>1. CASE bStamp' = bRun.ver
        BY <1>0, <2>2, <2>3, <3>1 DEF Even
      <3>2. CASE bStamp' = bStamp
        BY <1>0, <2>1, <2>3, <3>2 DEF CycleRight, EvenRight, Even
      <3> QED
        BY <1>0, <3>1, <3>2
    <2>5. EvenRight'
      BY <1>2, <2>4 DEF EvenRight, Going
    <2>6. BeginsRight' /\ CursorRight' /\ BaseRight' /\ ScoreRight'
      BY <1>2 DEF BeginsRight, CursorRight, BaseRight, ScoreRight, Going
    <2> QED
      BY <2>5, <2>6 DEF CycleRight
  <1> QED
    BY <1>3, <1>4 DEF BatchInv

\* The lock is released, or is left to its TTL.
LEMMA ReleaseStep ==
    ASSUME Scores!BatchAssumption, BatchInv, Scores!Release
    PROVE  BatchInv'
  <1> USE DEF Scores!cursor, Scores!world, Scores!handlers
  <1>0. /\ UNCHANGED <<bAccredited, bWeights, bElapsed, bProd, bStaged, bMembers, bLast, bStamp,
                       bCommitted, bMoved, bExcused,
                       bLapsed, bReverted, bHand, bGovs, bHands>>
        /\ bRun' = Scores!Resting
    BY DEF Scores!Release
  <1>1. bFaults' \in 0..MaxBatchFaults /\ bLock' \in BOOLEAN
    <2>1. bFaults' \in 0..MaxBatchFaults
      BY DEF Scores!Release, Scores!Fault, Scores!NoFault, BatchInv, Scores!TypeOK, Scores!BatchAssumption
    <2>2. bLock' \in BOOLEAN
      BY DEF Scores!Release, BatchInv, Scores!TypeOK
    <2> QED
      BY <2>1, <2>2
  <1>2. bRun'.pc = "idle" /\ bRun' \in Scores!Run
    BY <1>0, ProvisionalHolds
  <1>3. Scores!TypeOK' /\ AsStaged' /\ InCycle' /\ AsSanctioned' /\ Scores!IndexCovers' /\ bElapsed' >= 1
    BY <1>0, <1>1, <1>2 DEF BatchInv, Scores!TypeOK, AsStaged, InCycle, AsSanctioned, Scores!IndexCovers,
       Scores!Scored
  <1>4. ~Going'
    BY <1>2 DEF Going
  <1>5. Scores!WholeCycles' /\ (Good' => CycleRight')
    BY <1>0, <1>4, AroundKeeps DEF Good, Scores!Scored
  <1> QED
    BY <1>3, <1>5 DEF BatchInv

(***************************************************************************)
(* Beside the run.                                                         *)
(***************************************************************************)

\* A provisional score takes no account's own.
LEMMA ProvisionKeeps ==
    ASSUME Scores!BatchAssumption, Scores!TypeOK, NEW us, Scores!Provision(us)
    PROVE  /\ bProd' \in [Rated -> Scores!Score \cup {None}]
           /\ \A u \in Scores!Scored' : (u \in Scores!Scored /\ bProd'[u] = bProd[u]) \/ (u \in us
                /\ bProd'[u] = Scores!Provisional)
           /\ \A u \in Scores!Scored : u \in Scores!Scored' /\ bProd'[u] = bProd[u]
           /\ \A u \in Rated : bProd[u] = None /\ u \notin us => bProd'[u] = None
  BY ProvisionalHolds DEF Scores!Provision, Scores!TypeOK, Scores!Scored

\* A seed sets a provisional score, and then lists the account.
LEMMA SeedStep ==
    ASSUME Scores!BatchAssumption, BatchInv, NEW u \in Rated, Scores!Seed(u)
    PROVE  BatchInv'
  <1> USE DEF Scores!cursor, Scores!world, Scores!handlers
  <1>0. /\ UNCHANGED <<bAccredited, bWeights, bElapsed, bStaged, bMembers, bLast, bStamp, bCommitted,
                       bMoved, bExcused, bRun, bLock,
                       bLapsed, bReverted, bGovs, bFaults>>
        /\ bHand[u] = "none" /\ bHand' = [bHand EXCEPT ![u] = "seeding"] /\ Scores!Provision({u})
    BY DEF Scores!Seed, Scores!NoFault
  <1>1. bHands' \in 0..MaxHands
    BY DEF Scores!Seed, BatchInv, Scores!TypeOK, Scores!BatchAssumption
  <1>2. bHand' \in [Rated -> {"none", "seeding", "sanctioning"}]
    BY <1>0 DEF BatchInv, Scores!TypeOK
  <1>3. Scores!TypeOK'
    BY <1>0, <1>1, <1>2, ProvisionKeeps DEF BatchInv, Scores!TypeOK
  <1>4. AsStaged' /\ InCycle' /\ bElapsed' >= 1
    BY <1>0 DEF BatchInv, AsStaged, InCycle
  <1>5. AsSanctioned' /\ Scores!IndexCovers'
    <2>1. \A v \in Rated : v # u => bHand'[v] = bHand[v]
      BY <1>0 DEF BatchInv, Scores!TypeOK
    <2>2. bHand'[u] = "seeding"
      BY <1>0 DEF BatchInv, Scores!TypeOK
    <2>3. AsSanctioned'
      BY <1>0, <2>1, <2>2, ProvisionKeeps DEF BatchInv, AsSanctioned
    <2>4. \A v \in Scores!Scored' : v = u \/ v \in Scores!Scored
      BY <1>0, ProvisionKeeps DEF BatchInv
    <2>5. Scores!Scored \subseteq Rated /\ Scores!Scored' \subseteq Rated
      BY DEF Scores!Scored
    <2>6. Scores!IndexCovers'
      BY <1>0, <2>1, <2>2, <2>4, <2>5 DEF BatchInv, Scores!IndexCovers
    <2> QED
      BY <2>3, <2>6
  <1>6. Scores!WholeCycles' /\ (Good' => CycleRight')
    <2>1. Good' => Good
      BY <1>0 DEF Good
    <2>2. \A v \in Scores!Scored' : (v \in Scores!Scored /\ bProd'[v] = bProd[v]) \/ bProd'[v].cycle = -1
      BY <1>0, ProvisionKeeps, ProvisionalHolds DEF BatchInv
    <2> QED
      BY <1>0, <2>1, <2>2, AroundKeeps
  <1> QED
    BY <1>3, <1>4, <1>5, <1>6 DEF BatchInv

LEMMA SeedIndexStep ==
    ASSUME Scores!BatchAssumption, BatchInv, NEW u \in Rated, Scores!SeedIndex(u)
    PROVE  BatchInv'
  <1> USE DEF Scores!cursor, Scores!world, Scores!handlers
  <1>0. /\ UNCHANGED <<bAccredited, bWeights, bElapsed, bProd, bStaged, bLast, bStamp, bCommitted, bMoved,
                       bRun, bLock,
                       bReverted, bGovs, bHands>>
        /\ bHand' = [bHand EXCEPT ![u] = "none"] /\ bHand[u] = "seeding"
        /\ \/ bMembers' = bMembers \cup {u} /\ bExcused' = bExcused \ {u}
           \/ bExcused' = bExcused \cup {u} /\ bMembers' = bMembers
    BY DEF Scores!SeedIndex
  <1>1. bLapsed' = (bLapsed \/ Scores!Revives(bMembers')) /\ bFaults' \in 0..MaxBatchFaults
    BY DEF Scores!SeedIndex, Scores!Fault, Scores!NoFault, BatchInv, Scores!TypeOK, Scores!BatchAssumption
  <1>2. bLapsed' \in BOOLEAN /\ (~bLapsed' => ~bLapsed /\ ~Scores!Revives(bMembers'))
    <2>1. bLapsed \in BOOLEAN
      BY DEF BatchInv, Scores!TypeOK
    <2> QED
      BY <1>1, <2>1, Zenon
  <1>3. bHand' \in [Rated -> {"none", "seeding", "sanctioning"}]
    BY <1>0 DEF BatchInv, Scores!TypeOK
  <1>4. Scores!TypeOK'
    BY <1>0, <1>1, <1>2, <1>3 DEF BatchInv, Scores!TypeOK
  <1>5. AsStaged' /\ InCycle' /\ bElapsed' >= 1
    BY <1>0 DEF BatchInv, AsStaged, InCycle
  <1>6. AsSanctioned' /\ Scores!IndexCovers'
    <2>1. \A v \in Rated : v # u => bHand'[v] = bHand[v]
      BY <1>0 DEF BatchInv, Scores!TypeOK
    <2>2. bHand'[u] = "none"
      BY <1>0 DEF BatchInv, Scores!TypeOK
    <2>3. AsSanctioned'
      BY <1>0, <2>1, <2>2 DEF BatchInv, AsSanctioned
    <2>4. Scores!IndexCovers'
      BY <1>0, <2>1, <2>2 DEF BatchInv, Scores!IndexCovers, Scores!Scored
    <2> QED
      BY <2>3, <2>4
  <1>7. Scores!WholeCycles' /\ (Good' => CycleRight')
    <2>1. Good' => Good
      BY <1>0, <1>2 DEF Good
    <2>2. Good' => \A v \in Scores!Scored' \cap bMembers' : v \in bMembers \/ bProd'[v].cycle = -1
      BY <1>0, <1>2, RunHolds DEF Good, Scores!Revives, Scores!Scored, BatchInv
    <2>3. \A v \in Scores!Scored' : v \in Scores!Scored /\ bProd'[v] = bProd[v]
      BY <1>0 DEF Scores!Scored
    <2> QED
      BY <1>0, <2>1, <2>2, <2>3, AroundKeeps
  <1> QED
    BY <1>4, <1>5, <1>6, <1>7 DEF BatchInv

\* A sanction deletes the score, and then the entry of the index.
LEMMA SanctionStep ==
    ASSUME Scores!BatchAssumption, BatchInv, NEW u \in Rated, Scores!Sanction(u)
    PROVE  BatchInv'
  <1> USE DEF Scores!cursor, Scores!world, Scores!handlers
  <1>0. /\ UNCHANGED <<bAccredited, bWeights, bElapsed, bStaged, bMembers, bLast, bStamp, bCommitted,
                       bMoved, bExcused, bRun, bLock,
                       bLapsed, bReverted, bGovs>>
        /\ bHand[u] = "none"
        /\ \/ bProd' = [bProd EXCEPT ![u] = None] /\ bHand' = [bHand EXCEPT ![u] = "sanctioning"]
           \/ bProd' = bProd /\ bHand' = bHand
    BY DEF Scores!Sanction
  <1>1. bHands' \in 0..MaxHands /\ bFaults' \in 0..MaxBatchFaults
    BY DEF Scores!Sanction, Scores!Fault, Scores!NoFault, BatchInv, Scores!TypeOK, Scores!BatchAssumption
  <1>2. bHand' \in [Rated -> {"none", "seeding", "sanctioning"}]
          /\ bProd' \in [Rated -> Scores!Score \cup {None}]
    BY <1>0 DEF BatchInv, Scores!TypeOK
  <1>3. Scores!TypeOK'
    BY <1>0, <1>1, <1>2 DEF BatchInv, Scores!TypeOK
  <1>4. AsStaged' /\ InCycle' /\ bElapsed' >= 1
    BY <1>0 DEF BatchInv, AsStaged, InCycle
  <1>5. \A v \in Rated : v # u => bHand'[v] = bHand[v] /\ bProd'[v] = bProd[v]
    BY <1>0 DEF BatchInv, Scores!TypeOK
  <1>6. (bProd'[u] = None /\ bHand'[u] = "sanctioning") \/ (bProd'[u] = bProd[u] /\ bHand'[u] = bHand[u])
    BY <1>0 DEF BatchInv, Scores!TypeOK
  <1>7. AsSanctioned' /\ Scores!IndexCovers'
    BY <1>0, <1>5, <1>6 DEF BatchInv, AsSanctioned, Scores!IndexCovers, Scores!Scored
  <1>8. \A v \in Scores!Scored' : v \in Scores!Scored /\ bProd'[v] = bProd[v]
    BY <1>5, <1>6 DEF Scores!Scored
  <1>9. Scores!WholeCycles' /\ (Good' => CycleRight')
    BY <1>0, <1>8, AroundKeeps DEF Good
  <1> QED
    BY <1>3, <1>4, <1>7, <1>9 DEF BatchInv

LEMMA SanctionIndexStep ==
    ASSUME Scores!BatchAssumption, BatchInv, NEW u \in Rated, Scores!SanctionIndex(u)
    PROVE  BatchInv'
  <1> USE DEF Scores!cursor, Scores!world, Scores!handlers
  <1>0. /\ UNCHANGED <<bAccredited, bWeights, bElapsed, bProd, bStaged, bLast, bStamp, bCommitted, bMoved,
                       bExcused, bRun, bLock,
                       bLapsed, bReverted, bGovs, bHands>>
        /\ bHand[u] = "sanctioning" /\ bHand' = [bHand EXCEPT ![u] = "none"]
        /\ (bMembers' = bMembers \ {u} \/ bMembers' = bMembers)
    BY DEF Scores!SanctionIndex
  <1>1. bFaults' \in 0..MaxBatchFaults
    BY DEF Scores!SanctionIndex, Scores!Fault, Scores!NoFault, BatchInv, Scores!TypeOK, Scores!BatchAssumption
  <1>2. bHand' \in [Rated -> {"none", "seeding", "sanctioning"}]
    BY <1>0 DEF BatchInv, Scores!TypeOK
  <1>3. Scores!TypeOK'
    BY <1>0, <1>1, <1>2 DEF BatchInv, Scores!TypeOK
  <1>4. AsStaged' /\ InCycle' /\ bElapsed' >= 1
    BY <1>0 DEF BatchInv, AsStaged, InCycle
  <1>5. (\A v \in Rated : v # u => bHand'[v] = bHand[v]) /\ bHand'[u] = "none"
    BY <1>0 DEF BatchInv, Scores!TypeOK
  <1>6. AsSanctioned'
    BY <1>0, <1>5 DEF BatchInv, AsSanctioned
  <1>7. Scores!IndexCovers'
    <2>1. bProd[u] = None \/ u \in bExcused
      BY <1>0 DEF BatchInv, AsSanctioned
    <2> QED
      BY <1>0, <1>5, <2>1 DEF BatchInv, Scores!IndexCovers, Scores!Scored
  <1>8. \A v \in Scores!Scored' : v \in Scores!Scored /\ bProd'[v] = bProd[v]
    BY <1>0 DEF Scores!Scored
  <1>9. Scores!WholeCycles' /\ (Good' => CycleRight')
    BY <1>0, <1>8, AroundKeeps DEF Good
  <1> QED
    BY <1>3, <1>4, <1>6, <1>7, <1>9 DEF BatchInv

(***************************************************************************)
(* The world.                                                              *)
(***************************************************************************)

\* Accreditation or the weights change, a cycle elapses, or the lock of a dead run expires.
LEMMA BatchWorldStep ==
    ASSUME Scores!BatchAssumption, BatchInv, Scores!Govern \/ Scores!Elapse \/ Scores!Expire
    PROVE  BatchInv'
  <1> USE DEF Scores!cursor, Scores!world, Scores!handlers
  <1>0. UNCHANGED <<bProd, bStaged, bMembers, bLast, bStamp, bCommitted, bMoved, bExcused, bRun, bLapsed,
                    bReverted, bHand, bHands, bFaults>>
    BY DEF Scores!Govern, Scores!Elapse, Scores!Expire, Scores!NoFault
  <1>1. bAccredited' \subseteq Rated /\ bWeights' \in Weights
    BY DEF Scores!Govern, Scores!Elapse, Scores!Expire, Scores!Membership, Scores!Reweigh, BatchInv,
       Scores!TypeOK
  <1>2. bGovs' \in 0..MaxGov /\ bElapsed' \in 0..(MaxCycle + 1) /\ bElapsed' >= 1 /\ bLock' \in BOOLEAN
    <2>1. bLock' \in BOOLEAN
      BY DEF Scores!Govern, Scores!Elapse, Scores!Expire, BatchInv, Scores!TypeOK
    <2>2. bGovs' \in 0..MaxGov /\ bElapsed' \in 0..(MaxCycle + 1) /\ bElapsed' >= 1
      <3>1. bGovs \in 0..MaxGov /\ bElapsed \in 0..(MaxCycle + 1) /\ bElapsed >= 1 /\ MaxGov \in Nat
              /\ MaxCycle \in Nat
        BY DEF BatchInv, Scores!TypeOK, Scores!BatchAssumption
      <3>2. CASE Scores!Govern
        BY <3>1, <3>2 DEF Scores!Govern
      <3>3. CASE Scores!Elapse
        BY <3>1, <3>3 DEF Scores!Elapse
      <3>4. CASE Scores!Expire
        BY <3>1, <3>4 DEF Scores!Expire
      <3> QED
        BY <3>2, <3>3, <3>4
    <2> QED
      BY <2>1, <2>2
  <1>3. Scores!TypeOK'
    BY <1>0, <1>1, <1>2 DEF BatchInv, Scores!TypeOK
  <1>4. AsStaged' /\ InCycle' /\ AsSanctioned' /\ Scores!IndexCovers'
    BY <1>0 DEF BatchInv, AsStaged, InCycle, AsSanctioned, Scores!IndexCovers, Scores!Scored
  <1>5. Scores!WholeCycles' /\ (Good' => CycleRight')
    BY <1>0, AroundKeeps DEF Good, Scores!Scored
  <1> QED
    BY <1>2, <1>3, <1>4, <1>5 DEF BatchInv

\* The process dies, and repairs what it staged and what it has not seeded when it boots.
LEMMA RestartStep ==
    ASSUME Scores!BatchAssumption, BatchInv, Scores!Restart
    PROVE  BatchInv'
  <1> USE DEF Scores!cursor, Scores!world, Scores!handlers
  <1>0. /\ UNCHANGED <<bAccredited, bWeights, bElapsed, bLast, bStamp, bCommitted, bMoved, bLock,
                       bReverted, bGovs, bHands>>
        /\ bRun' = Scores!Resting /\ bHand' = [v \in Rated |-> "none"] /\ bStaged' = {}
        /\ bExcused' = bExcused \cup {v \in Rated : bHand[v] = "seeding"}
        /\ Scores!Provision(bAccredited) /\ bMembers' = bMembers \cup bAccredited
        /\ bLapsed' = (bLapsed \/ Scores!Revives(bAccredited))
    BY DEF Scores!Restart
  <1>1. bFaults' \in 0..MaxBatchFaults
    BY DEF Scores!Restart, Scores!Fault, BatchInv, Scores!TypeOK, Scores!BatchAssumption
  <1>2. bLapsed' \in BOOLEAN /\ (~bLapsed' => ~bLapsed /\ ~Scores!Revives(bAccredited))
    <2>1. bLapsed \in BOOLEAN
      BY DEF BatchInv, Scores!TypeOK
    <2> QED
      BY <1>0, <2>1, Zenon
  <1>3. bRun'.pc = "idle" /\ bRun' \in Scores!Run
    BY <1>0, ProvisionalHolds
  <1>4. Scores!TypeOK'
    BY <1>0, <1>1, <1>2, <1>3, ProvisionKeeps DEF BatchInv, Scores!TypeOK
  <1>5. AsStaged' /\ InCycle' /\ AsSanctioned' /\ bElapsed' >= 1
    BY <1>0, <1>3 DEF BatchInv, AsStaged, InCycle, AsSanctioned
  <1>6. Scores!IndexCovers'
    <2> SUFFICES ASSUME NEW v \in Scores!Scored' \ bMembers' PROVE v \in bExcused'
      BY DEF Scores!IndexCovers
    <2>1. v \in Scores!Scored \ bMembers /\ v \in Rated
      BY <1>0, ProvisionKeeps DEF BatchInv, Scores!Scored
    <2> QED
      BY <1>0, <2>1 DEF BatchInv, Scores!IndexCovers
  <1>7. Scores!WholeCycles' /\ (Good' => CycleRight')
    <2>1. Good' => Good
      BY <1>0, <1>2 DEF Good
    <2>2. \A v \in Scores!Scored' : (v \in Scores!Scored /\ bProd'[v] = bProd[v]) \/ bProd'[v].cycle = -1
      BY <1>0, ProvisionKeeps, ProvisionalHolds DEF BatchInv
    <2>3. Good' => \A v \in Scores!Scored' \cap bMembers' : v \in bMembers \/ bProd'[v].cycle = -1
      <3> SUFFICES ASSUME Good', NEW v \in Scores!Scored' \cap bMembers', v \notin bMembers PROVE bProd'[v].cycle = -1
        OBVIOUS
      <3>1. v \in bAccredited /\ ~Scores!Revives(bAccredited)
        BY <1>0, <1>2 DEF Good
      <3>2. CASE v \in Scores!Scored /\ bProd'[v] = bProd[v]
        BY <3>1, <3>2, RunHolds DEF Scores!Revives, Scores!Scored, BatchInv
      <3> QED
        BY <2>2, <3>2
    <2>4. ~Going'
      BY <1>3 DEF Going
    <2> QED
      BY <1>0, <2>1, <2>2, <2>3, <2>4, AroundKeeps
  <1> QED
    BY <1>4, <1>5, <1>6, <1>7 DEF BatchInv

LEMMA BatchStarts ==
    ASSUME Scores!BatchAssumption, Scores!Init
    PROVE  BatchInv
  <1>0. /\ bProd = [u \in Rated |-> Scores!Provisional] /\ bMembers = Rated /\ bRun = Scores!Resting
             /\ bStaged = {}
        /\ bStamp = None /\ bHand = [u \in Rated |-> "none"] /\ bElapsed = 1 /\ bLast = -1
    BY DEF Scores!Init
  <1>1. bWeights \in Weights
    BY DEF Scores!Init, Scores!BatchAssumption
  <1>2. Scores!TypeOK
    <2>1. bProd \in [Rated -> Scores!Score \cup {None}] /\ bRun \in Scores!Run
            /\ bHand \in [Rated -> {"none", "seeding", "sanctioning"}]
      BY <1>0, ProvisionalHolds
    <2>2. /\ bAccredited \subseteq Rated /\ bStaged \subseteq Rated /\ bMembers \subseteq Rated
               /\ bExcused \subseteq Rated
          /\ bCommitted \subseteq Weights \X (0..MaxCycle) /\ bStamp \in Weights \cup {None}
               /\ bMoved \in Weights \cup {None}
      BY DEF Scores!Init
    <2>3. bLock \in BOOLEAN /\ bLapsed \in BOOLEAN /\ bReverted \in BOOLEAN
      BY DEF Scores!Init
    <2>4. /\ bElapsed \in 0..(MaxCycle + 1) /\ bLast \in -1..MaxCycle
          /\ bGovs \in 0..MaxGov /\ bHands \in 0..MaxHands /\ bFaults \in 0..MaxBatchFaults
      BY DEF Scores!Init, Scores!BatchAssumption
    <2> QED
      BY <1>1, <2>1, <2>2, <2>3, <2>4 DEF Scores!TypeOK
  <1>3. AsStaged /\ InCycle /\ AsSanctioned /\ Scores!IndexCovers /\ Scores!WholeCycles
    BY <1>0, ProvisionalHolds DEF AsStaged, InCycle, AsSanctioned, Scores!IndexCovers, Scores!WholeCycles,
       Scores!Scored
  <1>4. CycleRight
    BY <1>0, ProvisionalHolds DEF CycleRight, BeginsRight, CursorRight, BaseRight, ScoreRight, EvenRight,
       Even, Going, Under
  <1> QED
    BY <1>0, <1>2, <1>3, <1>4 DEF BatchInv

LEMMA BatchSteps ==
    ASSUME Scores!BatchAssumption, BatchInv, [Scores!Next]_Scores!vars
    PROVE  BatchInv'
  <1>1. CASE Scores!Batch
    BY <1>1, StartStep, LoadStep, CycleStep, StageStep, SwapStep, PruneListStep, PruneStep, StampStep,
       ReleaseStep
       DEF Scores!Batch
  <1>2. CASE \E u \in Rated : Scores!Seed(u) \/ Scores!SeedIndex(u) \/ Scores!Sanction(u) \/ Scores!SanctionIndex(u)
    BY <1>2, SeedStep, SeedIndexStep, SanctionStep, SanctionIndexStep
  <1>3. CASE Scores!Govern \/ Scores!Elapse \/ Scores!Expire
    BY <1>3, BatchWorldStep
  <1>4. CASE Scores!Restart
    BY <1>4, RestartStep
  <1>5. CASE UNCHANGED Scores!vars
    <2>1. UNCHANGED <<bAccredited, bWeights, bElapsed, bProd, bStaged, bMembers, bLast, bStamp, bLock,
                      bRun, bHand,
                      bCommitted, bMoved, bExcused, bLapsed, bReverted, bGovs, bHands, bFaults>>
      BY <1>5 DEF Scores!vars
    <2>2. Scores!TypeOK' /\ AsStaged' /\ InCycle' /\ AsSanctioned' /\ Scores!IndexCovers' /\ bElapsed' >= 1
      BY <2>1 DEF BatchInv, Scores!TypeOK, AsStaged, InCycle, AsSanctioned, Scores!IndexCovers, Scores!Scored
    <2>3. Scores!WholeCycles' /\ (Good' => CycleRight')
      BY <2>1, AroundKeeps DEF Good, Scores!Scored, Scores!cursor
    <2> QED
      BY <2>2, <2>3 DEF BatchInv
  <1> QED
    BY <1>1, <1>2, <1>3, <1>4, <1>5 DEF Scores!Next

\* The inductive invariant holds of every behaviour of the batch.
THEOREM BatchInvariant ==
    ASSUME Scores!BatchAssumption
    PROVE  Scores!Spec => []BatchInv
  BY BatchStarts, BatchSteps, PTL DEF Scores!Spec

\* The score keys, their index, the cursor and the run keep their types.
THEOREM BatchTyped ==
    ASSUME Scores!BatchAssumption
    PROVE  Scores!Spec => []Scores!TypeOK
  <1>1. BatchInv => Scores!TypeOK
    BY DEF BatchInv
  <1> QED
    BY <1>1, BatchInvariant, PTL

\* Every score that is shown was computed from scores of earlier cycles under its own weights
\* and swapped with its cycle (reputation-batch.ts runBatchComputation, redis-scripts.ts
\* CYCLE_SWAP), and the index lists each score key (pruneDeAccreditedMembers).
THEOREM ScoresHold ==
    ASSUME Scores!BatchAssumption
    PROVE  Scores!Spec => []ScoresWhole
  <1>1. BatchInv => ScoresWhole
    BY DEF BatchInv, ScoresWhole
  <1> QED
    BY <1>1, BatchInvariant, PTL
=============================================================================
