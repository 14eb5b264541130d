----------------------------- MODULE ClaimRoutes -----------------------------
(* Claims of authorship of one paper, and the routes that approve and revoke   *)
(* them.  A native paper has an author to approve; for a bridged one the       *)
(* server signs with the key of the bridge, for the administrator and for      *)
(* co-authors who have been approved, by what HAF has.  Whoever signs with a   *)
(* key of their own may do without the routes.                                 *)
EXTENDS Integers, Sequences, FiniteSets

CONSTANTS
  Account, Admin, Bridge, None,
  Paper,      \* who may be the author of the paper
  Start,      \* the chain to begin with
  MaxOps,     \* bound on the ops
  MaxFlight   \* bound on the ops that are under way

VARIABLES
  author,   \* paperAuthor
  chain,    \* the ops; op.asked is, for history, whose request signed it
  haf,      \* how many of them HAF has
  flight,   \* ops that were sent, or handed out, and are not on the chain yet
  clear     \* history: where the chain was when nobody could approve and nothing was to come

vars == <<author, chain, haf, flight, clear>>

Act == {"claim", "approve", "revoke", "accredit", "strip"}
Op == [act : Act, who : Account, signer : Account \cup {Bridge}, asked : Account]

RoutesAssumption ==
  /\ Admin \in Account /\ Bridge \notin Account /\ Paper \subseteq Account \cup {Bridge}
  /\ Start \in Seq(Op) /\ MaxOps \in Nat /\ MaxFlight \in Nat

TypeOK ==
  /\ author \in Paper /\ chain \in Seq(Op) /\ haf \in 0..Len(chain) /\ clear \in 0..Len(chain)
  /\ flight \subseteq Op

-----------------------------------------------------------------------------
(* What the ops say, the first n of them                                       *)

Of(n, act, a) == {i \in 1..n : chain[i].act = act /\ chain[i].who = a}

\* revocations: by those who may, after the claim and after every approval.
Revoked(n, a, c) ==
  \E i \in Of(n, "revoke", a) :
    /\ chain[i].signer \in {author, Bridge, Admin, a} /\ i > c
    /\ \A j \in Of(n, "approve", a) : chain[j].signer \in {author, Bridge} => i > j

\* authorship_claims, status accepted.
Accepted(n, a) ==
  \E c \in Of(n, "claim", a) :
    /\ \E j \in Of(n, "approve", a) : j > c /\ chain[j].signer \in {author, Bridge}
    /\ ~Revoked(n, a, c)

\* active_accreditations.
Accredited(n, a) ==
  \E i \in Of(n, "accredit", a) : \A j \in Of(n, "strip", a) : j < i

CoAuthor(n, a) == Accepted(n, a) /\ Accredited(n, a)

\* Seeded fault: the list the page shows is asked, out of the cache.
Authority_Cached(a) == \E n \in Len(Start)..haf : CoAuthor(n, a)

\* isApprovedCoAuthor.
Authority(a) == CoAuthor(haf, a)

-----------------------------------------------------------------------------
(* The routes                                                                  *)

Made(act, who, signer, asked) == [act |-> act, who |-> who, signer |-> signer, asked |-> asked]

\* approve: the op the server sends, or the one it hands out to be signed, or none.
Approving(user, claimer, authority) ==
  IF author = Bridge
  THEN IF user # claimer /\ (user = Admin \/ authority) THEN Made("approve", claimer, Bridge, user) ELSE None
  ELSE IF user = author THEN Made("approve", claimer, user, user) ELSE None

\* revoke: the administrator's goes out under the key of the bridge or of the
\* administrator, anybody else's is handed out.
Revoking(user, claimer) ==
  IF user \notin {author, claimer, Admin} THEN None
  ELSE Made("revoke", claimer, IF user = Admin /\ author = Bridge THEN Bridge ELSE user, user)

\* A request that is let through sends its op, or has it signed; it may land long after
\* the answer, or never.
Sends(op) ==
  /\ op # None /\ Cardinality(flight) < MaxFlight /\ flight' = flight \cup {op}
  /\ UNCHANGED <<author, chain, haf>>

\* When HAF fails there is no authority.
Approve(user, claimer) == \E authority \in {FALSE, Authority(user)} : Sends(Approving(user, claimer, authority))
Revoke(user, claimer) == Sends(Revoking(user, claimer))

-----------------------------------------------------------------------------
(* The chain                                                                   *)

Lands(o) == Len(chain) < MaxOps /\ chain' = Append(chain, o)

Land(o) == o \in flight /\ Lands(o) /\ flight' = flight \ {o} /\ UNCHANGED <<author, haf>>
Drop(o) == o \in flight /\ flight' = flight \ {o} /\ UNCHANGED <<author, chain, haf>>

\* POST claim hands the op out to the accredited; anybody may sign one, and a revocation,
\* with a key of their own.
Claim(a) == Lands(Made("claim", a, a, a)) /\ UNCHANGED <<author, haf, flight>>
Resign(a) == Lands(Made("revoke", a, a, a)) /\ UNCHANGED <<author, haf, flight>>

\* The administrator accredits and sanctions.
Govern(act, a) == Lands(Made(act, a, Admin, Admin)) /\ UNCHANGED <<author, haf, flight>>

Index == haf < Len(chain) /\ haf' = haf + 1 /\ UNCHANGED <<author, chain, flight>>

\* Nobody can approve, and nothing is under way that was let through before.
Settled == flight = {} /\ haf = Len(chain) /\ \A a \in Account : ~CoAuthor(haf, a)

Init ==
  /\ author \in Paper /\ chain = Start /\ haf = Len(Start) /\ flight = {}
  /\ clear = 0

Next ==
  /\ clear' = IF Settled THEN Len(chain) ELSE clear
  /\ \/ \E user, claimer \in Account : Approve(user, claimer) \/ Revoke(user, claimer)
     \/ \E o \in flight : Land(o) \/ Drop(o)
     \/ \E a \in Account : Claim(a) \/ Resign(a) \/ \E act \in {"accredit", "strip"} : Govern(act, a)
     \/ Index

Spec == Init /\ [][Next]_vars

-----------------------------------------------------------------------------
(* Properties *)

\* The key of the bridge approves nobody at their own request, and every approval goes back
\* to the administrator: it was asked for by the administrator, or by somebody who was made
\* a co-author, or accredited again, by an earlier op.  Once everybody is revoked and HAF
\* knows, co-authors cannot bring each other back: the earlier op is later than that.
Rooted ==
  \A i \in (Len(Start) + 1)..Len(chain) :
    LET o == chain[i] IN
    o.signer = Bridge /\ o.asked # Admin =>
      /\ o.act = "approve" /\ o.asked # o.who
      /\ \E j \in (IF clear < i THEN clear + 1 ELSE 1)..(i - 1) :
           chain[j].who = o.asked /\ chain[j].act \in {"approve", "accredit"}
=============================================================================
