---------------------------- MODULE CoAuthorship ----------------------------
(* Who is credited for one paper.  Being named in an author list credits       *)
(* nobody: the broadcaster of the paper is credited by the post (route 1), an  *)
(* account a slot anchors by an author_accept (route 2), and the claimer of a  *)
(* slot that is only a name by an approval (route 3); a resignation or a       *)
(* revocation takes it back.  All of it is computed from the ops in HAF when   *)
(* it is asked for: the state is those ops, and anybody may broadcast any.     *)
(*                                                                             *)
(* Ops are in blocks of their own, except that an accept may be in the block   *)
(* of the op before it.                                                        *)
EXTENDS Integers, Sequences, FiniteSets, SequencesExt, FiniteSetsExt

CONSTANTS Post, Author, Kind, Target, Listing, Bridge, None, MaxHops, BackHops,
          Paper,     \* the post that is the paper
          Account,   \* who broadcasts
          Admin,     \* config.hiveAdminAccount
          Attested,  \* the ORCID each account is accredited with, or None
          Index,     \* the author_index values claims carry
          MaxOps     \* bound on the ops after the paper

VARIABLES
  order, meta,  \* as in PaperChain
  named,        \* which post's ops named which anchor, and in which block
  ops,          \* the consent and claim ops
  block,        \* the current block
  sent,         \* history: ops so far
  before        \* history: the last op, the credit before it, and the slots before a post

vars == <<order, meta, named, ops, block, sent, before>>

Chain == INSTANCE PaperChain
Posts == Chain!Posts

\* What an instance must give them.
CreditAssumption ==
  /\ Chain!ChainAssumption /\ Paper \in Post
  /\ Attested \in [Account -> {Attested[a] : a \in Account}]
  /\ Index \subseteq Nat /\ MaxOps \in Nat

Act == {"accept", "resign", "revoke", "claim", "approve"}
Op == [act : Act, signer : Account, subject : Account, index : Index \cup {0}, block : 1..(MaxOps + 1)]

TypeOK ==
  /\ Chain!TypeOK /\ Paper \in Posts
  /\ \A n \in named : n.post \in Posts /\ n.block \in 1..block
  /\ ops \in Seq(Op)
  /\ before.credited \subseteq Account /\ before.whose \subseteq Account
  /\ block \in 1..(MaxOps + 1) /\ sent \in 0..MaxOps

-----------------------------------------------------------------------------
(* Slots *)

\* A hive and an ORCID in one slot are two anchors.
Anchors(listing) ==
  UNION {{<<"hive", s.hive>>, <<"orcid", s.orcid>>} : s \in ToSet(listing)} \ {<<"hive", None>>, <<"orcid", None>>}

\* Two slots are one by hive, else by ORCID, else by name.
SlotKey(s) == IF s.hive # None THEN <<"hive", s.hive>>
              ELSE IF s.orcid # None THEN <<"orcid", s.orcid>>
              ELSE <<"name", s.name>>

Canonical == Chain!SqlChain(Paper)

\* display_slots: the slots of the chain in the order of their first occurrence.
DisplaySlots ==
  LET Add(slots, s) == IF SlotKey(s) \in ToSet(slots) THEN slots ELSE Append(slots, SlotKey(s))
      OfPost(slots, p) == FoldLeft(Add, slots, meta[p].listing)
  IN FoldLeft(OfPost, <<>>, Canonical)

\* claimed_hive_slots, claimed_orcid_slots: what any op, broadcast or edit, of a post of
\* the chain named.
Claimed == LET chain == ToSet(Canonical) IN {n \in named : n.post \in chain}

-----------------------------------------------------------------------------
(* Routes 1 and 2 *)

\* consent_signer_eligibility: the anchors of an account; the ORCID of a slot of a bridge
\* paper anchors nobody.
AnchorsOf(a) ==
  {<<"hive", a>>} \cup (IF Attested[a] = None \/ meta[Paper].kind = "bridge_paper" THEN {}
                        ELSE {<<"orcid", Attested[a]>>})

Naming(claimed, a) == {n \in claimed : n.anchor \in AnchorsOf(a)}

\* Seeded fault: any signer of a revocation counts.
MayDemote_Anybody(o) == TRUE

\* The author of the paper, the bridge, the administrator or the account itself.
MayDemote(o) == o.signer \in {Author[Paper], Bridge, Admin, o.subject}

\* route2_stream: what an account that is named says of itself, or is said of it by those
\* who may demote.  An accept counts when it comes after the account was first named.
Counts(o, naming) ==
  \/ o.act = "accept" /\ o.block > Min({n.block : n \in naming})
  \/ o.act = "resign"
  \/ o.act = "revoke" /\ MayDemote(o)

Route2(claimed, a) ==
  LET naming == Naming(claimed, a) IN
  IF naming = {} THEN {} ELSE {i \in DOMAIN ops : ops[i].subject = a /\ Counts(ops[i], naming)}

\* route2_latest: the account is credited when its last counting op is an accept.
Accepted(claimed, a) ==
  LET said == Route2(claimed, a) IN said # {} /\ ops[Max(said)].act = "accept"

\* consented_authors; the broadcaster of the paper is consented until demoted.
Consented(claimed) ==
  LET author == Author[Paper]
      implicit == /\ Chain!Valid(Paper)
                  /\ (\E n \in claimed : n.anchor = <<"hive", author>>) \/ meta[Paper].kind = "bridge_paper"
                  /\ Route2(claimed, author) = {}
  IN {a \in Account : Accepted(claimed, a)} \cup (IF implicit THEN {author} ELSE {})

-----------------------------------------------------------------------------
(* Routes 1 and 2, in JS *)

\* slotsAnchoring: the blocks in which a slot that anchors the account was first named.
SlotsAnchoring(claimed, a) ==
  {n.block : n \in {m \in claimed : m.anchor \in {<<"hive", a>>} \cup ({<<"orcid", Attested[a]>>} \ {<<"orcid", None>>})}}

\* getConsentedAuthors: the accounts whose ops are fetched.
Eligible(claimed) == {a \in Account : SlotsAnchoring(claimed, a) # {}}

\* fetchConsentOpsForPaper: what they say of themselves; nobody else may.
Fetched(claimed) == {i \in DOMAIN ops : ops[i].signer \in Eligible(claimed) /\ ops[i].act \in {"accept", "resign"}}

\* Seeded fault: an accept of what was not offered yet counts.
LastOp_Early(said, first) == IF said = {} THEN "none" ELSE ops[Max(said)].act

\* compareOpsDesc: the latest op, of those that count.
LastOp(said, first) ==
  LET valid == {i \in said : ops[i].act = "resign" \/ ops[i].block > first}
  IN IF valid = {} THEN "none" ELSE ops[Max(valid)].act

\* computeConsentedAuthors: the broadcaster of the paper, when a slot anchors them, and
\* the others whose latest op is an accept.
ConsentedJs(claimed) ==
  LET OwnOps(a) == {i \in Fetched(claimed) : ops[i].signer = a}
  IN {a \in Eligible(claimed) :
        a = Author[Paper] \/ LastOp(OwnOps(a), Min(SlotsAnchoring(claimed, a))) = "accept"}

-----------------------------------------------------------------------------
(* Route 3 *)

\* An approval is the author's or the bridge's.
Approvals(a) == {o \in ToSet(ops) : o.act = "approve" /\ o.subject = a /\ o.signer \in {Author[Paper], Bridge}}

Revoked(c) == \E o \in ToSet(ops) :
  /\ o.act = "revoke" /\ o.subject = c.subject /\ MayDemote(o)
  /\ o.block > c.block /\ \A ap \in Approvals(c.subject) : o.block > ap.block

\* authorship_claims, status accepted: approved after the claim, for a slot that is only
\* a name.
ClaimAccepted(c) ==
  /\ ~Revoked(c)
  /\ \E ap \in Approvals(c.subject) : ap.block > c.block
  /\ LET slots == DisplaySlots IN c.index + 1 \in DOMAIN slots /\ slots[c.index + 1][1] = "name"

Claims == {o \in ToSet(ops) : o.act = "claim"}
Credited == Consented(Claimed) \cup {c.subject : c \in {o \in Claims : ClaimAccepted(o)}}

-----------------------------------------------------------------------------
(* The pending list *)

\* Seeded fault: only what a post says now counts.
NamingPosts_Current(a) == {p \in Posts : Anchors(meta[p].listing) \cap AnchorsOf(a) # {}}

\* naming_posts: the posts one of whose ops named the account.
NamingPosts(a) == {n.post : n \in {m \in named : m.anchor \in AnchorsOf(a)}}

\* seed_walk, pending_seed: up the pointers to a post without one.
Seed(a) ==
  LET Up[n \in 0..MaxHops] == IF n = 0 THEN NamingPosts(a)
                              ELSE Up[n - 1] \cup ({Chain!Pointer(p) : p \in Up[n - 1]} \cap Posts)
  IN {p \in Up[MaxHops] : Chain!Pointer(p) = None}

\* composePendingConsentsQuery.
Pending(a) ==
  LET claimed == Claimed IN
  /\ Paper \in Seed(a) /\ Naming(claimed, a) # {}
  /\ a # Author[Paper] /\ Route2(claimed, a) = {}

-----------------------------------------------------------------------------
(* Ops *)

\* Named as of the block the op is in; an anchor keeps the first.
Names(p, m) ==
  named' = named \cup {[post |-> p, anchor |-> x, block |-> block'] :
                        x \in {y \in Anchors(m.listing) : \A n \in named : n.post # p \/ n.anchor # y}}

Notes(did, whose) == before' = [did |-> did, whose |-> whose, credited |-> Credited,
                                 slots |-> IF did = "created" THEN DisplaySlots ELSE <<>>]

\* A post is broadcast or edited; the paper itself continues nothing.
Comment(p, m) ==
  /\ sent < MaxOps /\ sent' = sent + 1
  /\ Notes(IF p \in Posts THEN "edited" ELSE "created", {Author[p]})
  /\ p = Paper => m.cont = None
  /\ Chain!Broadcast(p, m) \/ Chain!Edit(p, m)
  /\ block' = block + 1 /\ Names(p, m) /\ UNCHANGED ops

Says(o) ==
  /\ sent < MaxOps /\ sent' = sent + 1 /\ Notes("said", {o.subject : s \in {o.signer} \cap {o.subject, Author[Paper], Bridge, Admin}})
  /\ ops' = Append(ops, o) /\ block' = o.block
  /\ UNCHANGED <<order, meta, named>>

\* author_accept and author_resign speak for their signer.
Consent(act, a, b) == Says([act |-> act, signer |-> a, subject |-> a, index |-> 0, block |-> b])

\* revoke_authorship and approve_authorship name their subject.
Judge(act, s, a) == Says([act |-> act, signer |-> s, subject |-> a, index |-> 0, block |-> block + 1])

\* claim_authorship names a slot.
Claim(a, index) == Says([act |-> "claim", signer |-> a, subject |-> a, index |-> index, block |-> block + 1])

Init ==
  /\ order = <<Paper>> /\ block = 1 /\ ops = <<>> /\ sent = 0
  /\ before = [did |-> "created", whose |-> {Author[Paper]}, credited |-> {}, slots |-> <<>>]
  /\ \E m \in Chain!Meta :
       /\ m.cont = None /\ meta = [p \in {Paper} |-> m]
       /\ named = {[post |-> Paper, anchor |-> x, block |-> 1] : x \in Anchors(m.listing)}

Next ==
  \/ \E p \in Post, m \in Chain!Meta : Comment(p, m)
  \/ \E a \in Account : \/ \E b \in {block, block + 1} : Consent("accept", a, b)
                        \/ Consent("resign", a, block + 1)
                        \/ \E index \in Index : Claim(a, index)
                        \/ \E s \in Account : Judge("revoke", s, a) \/ Judge("approve", s, a)

Spec == Init /\ [][Next]_vars

-----------------------------------------------------------------------------
(* Properties *)

\* A continuation only adds: broadcasting a post, wherever it points and whatever it
\* lists, takes no credit away and leaves every slot at its index, so the author_index
\* of a claim keeps naming the slot it named.  The earliest of two forks stays the chain.
BroadcastsOnlyAdd ==
  before.did = "created" => before.credited \subseteq Credited /\ IsPrefix(before.slots, DisplaySlots)

\* Credit follows the word of those concerned: an op changes the credit of an account
\* only if that account, the author of the paper, the bridge or the administrator signed
\* it.  Nobody else can demote, or be made to count as consenting.
StrangersChangeNothing ==
  before.did = "said" =>
    LET now == Credited IN (now \ before.credited) \cup (before.credited \ now) \subseteq before.whose

\* Whoever may consent and has said nothing is told so: the list seeded upwards from the
\* posts that ever named the account misses no paper that the walk down finds it named in.
PendingListed ==
  LET claimed == Claimed IN
  \A a \in Account \ {Author[Paper]} :
    Naming(claimed, a) # {} /\ Route2(claimed, a) = {} => Pending(a)

\* The resolver in JS credits whom the one in SQL credits, of those nobody revoked, but for
\* what it does not know of: that the broadcaster of a paper may resign, and that the post
\* of a bridged paper speaks for its broadcaster and anchors nobody by ORCID.
ResolversAgree ==
  LET claimed == Claimed
      js == ConsentedJs(claimed)
      sql == Consented(claimed)
  IN meta[Paper].kind = "paper" /\ Chain!Valid(Paper) =>
       \A a \in Account :
         (\A o \in ToSet(ops) : o.act = "revoke" => o.subject # a \/ ~MayDemote(o))
         /\ ~(a = Author[Paper] /\ \E o \in ToSet(ops) : o.act = "resign" /\ o.signer = a)
         => (a \in js <=> a \in sql)

\* ARCHITECTURE.md:281 and 353: an append-only claimed set "prevents a consented co-author
\* from unilaterally unmaking another author's claim by native-editing"; "No author's
\* continuation can remove another".  The chain itself is computed from the current
\* metadata: an edit of one post's list or pointer cuts or reroutes it, and whoever was
\* named in the posts that fall off is no longer credited.
NoUnmaking == before.did = "edited" => before.credited \ Credited \subseteq before.whose
=============================================================================
