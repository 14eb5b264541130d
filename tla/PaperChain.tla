----------------------------- MODULE PaperChain -----------------------------
(* The continuation chain of a paper.  A post names the post it continues, and *)
(* its author list says who may continue it; anybody may broadcast a pointer,  *)
(* and a native edit replaces all of a post's metadata, its pointer included.  *)
(* The chain is resolved three times: forward by the walker of the read routes *)
(* (JsWalk), forward in SQL for credit and claims (SqlChain), and backward     *)
(* from a post to the head of its chain (FindRoot).                            *)
(*                                                                             *)
(* A walk is one step: HAF moves by blocks, and a walk that straddles one is   *)
(* left out, as are failed queries, the wall clock and the cache of FindRoot.  *)
(* Two continuations created in one block come in the order of their ops,      *)
(* which the query of the walker leaves open.                                  *)
EXTENDS Integers, Sequences, FiniteSets, SequencesExt

CONSTANTS Post,      \* the permlinks of papers and continuations, as numbers
          Author,    \* who broadcasts each
          Kind,      \* types a post may claim, of "paper", "bridge_paper", "other"
          Target,    \* posts a pointer may name
          Listing,   \* author lists a post may carry: sequences of slots
          Bridge,    \* config.hiveBridgeAccount
          None,      \* no post, no account
          MaxHops,   \* MAX_HOPS of the forward walks
          BackHops   \* CANONICAL_ROOT_MAX_HOPS

\* What an instance must give them.
ChainAssumption ==
  Post \subseteq Nat /\ Target \subseteq Post /\ MaxHops \in Nat /\ BackHops \in Nat \ {0}

VARIABLES
  order,  \* the posts, in the order of their creation
  meta    \* the current metadata of each

vars == <<order, meta>>

Meta == [kind : Kind, cont : Target \cup {None}, listing : Listing]
Posts == ToSet(order)

TypeOK ==
  /\ \A i, j \in DOMAIN order : i < j => order[i] # order[j]
  /\ Posts \subseteq Post
  /\ meta \in [Posts -> Meta]

-----------------------------------------------------------------------------
(* What one post says *)

\* isPevoAnyPaper, validPevoPaperWhere: a bridge paper is one only by the bridge account.
Valid(p) == p \in Posts /\ (meta[p].kind = "paper" \/ (meta[p].kind = "bridge_paper" /\ Author[p] = Bridge))

\* extractAuthorizedContinuationAuthors and hiveContributionSql.
Contributes(p) ==
  IF meta[p].kind = "bridge_paper" /\ Author[p] = Bridge THEN {Bridge}
  ELSE {s.hive : s \in ToSet(meta[p].listing)} \ {None}

Created(p) == CHOOSE i \in DOMAIN order : order[i] = p
Earliest(S) == CHOOSE p \in S : \A q \in S : Created(p) <= Created(q)
Continuing(p) == {c \in Posts : meta[c].cont = p /\ Valid(c)}

-----------------------------------------------------------------------------
(* The three resolutions *)

\* resolveContinuationChain: the earliest admitted continuation, hop by hop.  It ends
\* clean when there is none; a head without authors, a post seen before and the last
\* hop end it degraded.
JsWalk(head) ==
  LET Start == [chain |-> <<head>>, clean |-> FALSE,
                cumulative |-> IF Valid(head) THEN Contributes(head) ELSE {}]
      Hop(w) ==
        LET admitted == {c \in Continuing(Last(w.chain)) : Author[c] \in w.cumulative}
            next == Earliest(admitted)
        IN IF w.clean \/ w.cumulative = {} THEN w
           ELSE IF admitted = {} THEN [w EXCEPT !.clean = TRUE]
           ELSE IF next \in ToSet(w.chain) THEN w
           ELSE [w EXCEPT !.chain = Append(@, next), !.cumulative = @ \cup Contributes(next)]
      Walk[n \in 0..MaxHops] == IF n = 0 THEN Start ELSE Hop(Walk[n - 1])
  IN Walk[MaxHops]

\* chain_tree: every admissible path from the head.
Tree(head) ==
  LET Admits(path, c) ==
        /\ Author[c] \in UNION {Contributes(p) : p \in ToSet(path)}
        /\ c \notin ToSet(path)
      Grown(paths) ==
        paths \cup UNION {{Append(path, c) : c \in {d \in Continuing(Last(path)) : Admits(path, d)}} :
                           path \in paths}
      T[n \in 0..MaxHops] ==
        IF n = 0 THEN IF Valid(head) THEN {<<head>>} ELSE {} ELSE Grown(T[n - 1])
  IN T[MaxHops]

\* Seeded fault: the latest sibling wins.
Rank1_Latest(siblings) == CHOOSE p \in siblings : \A q \in siblings : Created(p) >= Created(q)

\* ranked_children: creation block, then op id.
Rank1(siblings) == Earliest(siblings)

\* canonical_chain: the first sibling at every hop of the tree.
SqlChain(head) ==
  LET tree == Tree(head)
      Below(chain) == {Last(path) : path \in {t \in tree : Len(t) = Len(chain) + 1
                                                           /\ t[Len(chain)] = Last(chain)}}
      C[n \in 0..MaxHops] ==
        IF n = 0 THEN IF Valid(head) THEN <<head>> ELSE <<>>
        ELSE LET chain == C[n - 1] IN
             IF chain = <<>> \/ Below(chain) = {} THEN chain
             ELSE Append(chain, Rank1(Below(chain)))
  IN C[MaxHops]

\* Seeded fault: the last hop looks at the parent and does not move.
LastHop_Lost == BackHops - 1

\* The walk back moves in every one of its hops.
LastHop == BackHops

Pointer(p) == IF p \in Posts THEN meta[p].cont ELSE None

\* findCanonicalRoot: up the pointers, whoever wrote them, to a post without one, one
\* seen before or the last hop; the forward walk from there must contain the leaf.
FindRoot(leaf) ==
  LET Start == [at |-> Pointer(leaf), seen |-> {leaf, Pointer(leaf)}, on |-> TRUE]
      Up(w) == LET up == Pointer(w.at) IN
        IF ~w.on \/ up = None THEN w
        ELSE [at |-> up, seen |-> w.seen \cup {up}, on |-> up \notin w.seen]
      Back[n \in 0..LastHop] == IF n = 0 THEN Start ELSE Up(Back[n - 1])
      top == Back[LastHop].at
  IN IF Valid(leaf) /\ Pointer(leaf) # None /\ leaf \in ToSet(JsWalk(top).chain) THEN top
     ELSE None

-----------------------------------------------------------------------------
\* A comment op creates a post, or replaces the metadata of one.
Broadcast(p, m) ==
  /\ p \notin Posts
  /\ \A q \in Post : q < p /\ Author[q] = Author[p] => q \in Posts  \* interchangeable posts
  /\ order' = Append(order, p)
  /\ meta' = [q \in Posts \cup {p} |-> IF q = p THEN m ELSE meta[q]]

Edit(p, m) ==
  /\ p \in Posts /\ meta[p] # m
  /\ meta' = [meta EXCEPT ![p] = m] /\ UNCHANGED order

Init == order = <<>> /\ meta = <<>>

Next == \E p \in Post, m \in Meta : Broadcast(p, m) \/ Edit(p, m)

Spec == Init /\ [][Next]_vars

-----------------------------------------------------------------------------
(* Properties *)

Heads == {p \in Posts : Valid(p) /\ Pointer(p) = None}

\* hafsql.ts:1363: the SQL chain of a paper is "exactly the path the JS walker
\* resolves", over forks, cut lists, edited pointers and the hop cap: what a reader sees
\* as the chain is what claims, consent and credit are resolved against.
ChainsAgree == \A head \in Heads : SqlChain(head) = JsWalk(head).chain

\* From every post of a chain within reach of the backward walk a reader is sent to its
\* head, and only from posts of the chain, although the walk back trusts any pointer and
\* takes no account of who may continue what.
RootFound ==
  \A head \in Heads :
    LET chain == SqlChain(head) IN
    /\ \A i \in 2..Len(chain) : i <= BackHops + 2 => FindRoot(chain[i]) = head
    /\ \A p \in Posts \ ToSet(chain) : FindRoot(p) # head
=============================================================================
