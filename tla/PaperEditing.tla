---------------------------- MODULE PaperEditing ----------------------------
(* The versions of a paper that its authors make in the edit page.  An editor  *)
(* works from the paper as it was served when the page loaded: the chain, the  *)
(* latest body, the union of the author lists.  From it the page decides       *)
(* whether to edit the editor's own post of the chain or to broadcast a        *)
(* continuation, what post that names, and whether the new body goes out as a  *)
(* patch.  Readers see the ops replayed.                                       *)
(*                                                                             *)
(* A text is a number; a patch applied to another body than the one it was     *)
(* made from gives a mixture, None.  Every op is in a block of its own.        *)
EXTENDS Integers, Sequences, FiniteSets, SequencesExt, FiniteSetsExt

CONSTANTS Post, Author, Bridge, None, MaxHops, BackHops, \* as in PaperChain
          Paper,      \* the post the pages are of
          Account,    \* editors
          Page, User, \* the open edit pages, and the account of each
          Claimer,    \* who has an accepted authorship claim to the paper
          Authored,   \* the author list the paper was published with
          Added,      \* slots an editor may add to the authors
          Begun,      \* the paper, and the continuations it begins with
          MaxOps      \* bound on the ops

Text == 0..MaxOps
Slot == [hive : Account \cup {None}, name : STRING, says : Text]

VARIABLES
  order, meta,  \* as in PaperChain
  log,          \* the comment ops
  view,         \* what each open page was served
  last          \* history: the last submit, and the paper before it

vars == <<order, meta, log, view, last>>

Kind == {"paper"}
Target == Post
Listing == Seq(Slot)
Chain == INSTANCE PaperChain

\* What an instance must give them.
EditingAssumption ==
  /\ Chain!ChainAssumption /\ Paper \in Post /\ Author[Paper] \in Account
  /\ User \in [Page -> Account] /\ Claimer \subseteq Account
  /\ Added \subseteq Slot /\ Authored \in Seq(Slot) /\ MaxOps \in Nat
  /\ Begun \in Seq(Post) /\ Begun[1] = Paper

Body == Text \cup {None}
Op == [post : Post, patch : BOOLEAN, base : Body, text : Body, overtaken : BOOLEAN]
View == [posts : Seq(Post), head : Post, body : Body, cont : Post \cup {None}, listing : Listing, at : Nat]

TypeOK ==
  /\ Chain!TypeOK /\ Paper \in Chain!Posts
  /\ log \in Seq(Op) /\ view \in [Page -> View \cup {None}]

-----------------------------------------------------------------------------
(* What readers are served *)

Own(slots, h) == {i \in DOMAIN slots : slots[i].hive = h}

\* A slot is one by its account, else by its name.
SlotKey(s) == IF s.hive # None THEN <<"hive", s.hive>> ELSE <<"name", s.name>>

\* Seeded fault: whoever spoke last of an account is believed.
Speakers_Last(chain, key) ==
  {i \in DOMAIN chain : key \in {SlotKey(s) : s \in ToSet(meta[chain[i]].listing)}}

\* The posts whose claim about a slot counts: its own account's, if there is one.
Speakers(chain, key) ==
  LET all == {i \in DOMAIN chain : key \in {SlotKey(s) : s \in ToSet(meta[chain[i]].listing)}}
      self == {i \in all : <<"hive", Author[chain[i]]>> = key}
  IN IF self # {} THEN self ELSE all

\* buildCumulativeAuthorsForChain: every slot of the chain at its first occurrence, with
\* what the latest of those who count says of it.
Authors(chain) ==
  LET Add(keys, s) == IF SlotKey(s) \in ToSet(keys) THEN keys ELSE Append(keys, SlotKey(s))
      OfPost(keys, p) == FoldLeft(Add, keys, meta[p].listing)
      Shown(key) == LET slots == meta[chain[Max(Speakers(chain, key))]].listing
                    IN slots[Max({i \in DOMAIN slots : SlotKey(slots[i]) = key})]
      keys == FoldLeft(OfPost, <<>>, chain)
  IN [i \in DOMAIN keys |-> Shown(keys[i])]

\* applyHivePatch; the patch of an unchanged text changes nothing.
Apply(op, body) ==
  IF ~op.patch THEN op.text
  ELSE IF op.base = op.text THEN body
  ELSE IF op.base = body THEN op.text ELSE None

\* reconstructVersionsFromHaf: the body a post has after the first n ops.
Replayed(ops, p) == FoldLeft(LAMBDA body, op : IF op.post = p THEN Apply(op, body) ELSE body, None, ops)

Versions(chain) == SelectSeq(log, LAMBDA op : op.post \in ToSet(chain))

CurrentChain == Chain!JsWalk(Paper).chain

\* fetchPaperDetailFromHaf: the content and metadata are those of the latest version,
\* whichever post it is of.
Served(chain) ==
  LET latest == Last(Versions(chain)).post IN
  [posts |-> [i \in DOMAIN Versions(chain) |-> Versions(chain)[i].post], head |-> Last(chain),
   body |-> Replayed(log, latest), cont |-> meta[latest].cont, listing |-> Authors(chain), at |-> Len(log)]

\* A page loads, or loads again; a walk that failed on its way serves the front of the chain.
Load(t) ==
  /\ Len(log) < MaxOps
  /\ \E n \in DOMAIN CurrentChain : view' = [view EXCEPT ![t] = Served(SubSeq(CurrentChain, 1, n))]
  /\ UNCHANGED <<order, meta, log, last>>

-----------------------------------------------------------------------------
(* What the page broadcasts *)

\* isAuthorized: by the paper, by the author list, or by an accepted claim.
IsAuthorized(u, v) == u = Author[Paper] \/ Own(v.listing, u) # {} \/ u \in Claimer

\* userPostInChain: the post of the latest version by the editor.
OwnVersions(u, v) == {i \in DOMAIN v.posts : Author[v.posts[i]] = u}

\* Seeded fault: the pointer that was served is kept.
Continues_Served(v, target) == v.cont

\* targetOwnContinues: the post before the target in the order of first versions.
Continues(v, target) ==
  LET First(posts, p) == IF p \in ToSet(posts) THEN posts ELSE Append(posts, p)
      posts == FoldLeft(First, <<Paper>>, v.posts)
      index == CHOOSE i \in DOMAIN posts : posts[i] = target
  IN IF Len(posts) = 1 THEN v.cont ELSE IF index > 1 THEN posts[index - 1] ELSE None

\* Seeded fault: a post that is the head is patched whatever version was served.
Patches_Head(v, target) == target = v.head

\* A patch is made only against the body of the post it goes to.
Patches(v, target) == target = v.head /\ Last(v.posts) = target

\* Seeded fault: a continuation names the paper.
Continued_Paper(v) == Paper

\* A continuation names the head.
Continued(v) == v.head

\* The authors go out as they were served, the editor's entry edited in place or appended,
\* then an added one; of two for one account the first.
Assembled(u, v, n, extra) ==
  LET mine == [hive |-> u, name |-> "", says |-> n]
      kept == IF Own(v.listing, u) = {} THEN Append(v.listing, mine)
              ELSE [v.listing EXCEPT ![Min(Own(v.listing, u))] = mine]
      Once(slots, s) == IF s.hive # None /\ Own(slots, s.hive) # {} THEN slots ELSE Append(slots, s)
  IN FoldLeft(Once, <<>>, kept \o extra)

\* The op of a submit that lands, which ends the page.  A post that another page has edited
\* since this one loaded is edited over, a patch on whatever it has become.
Lands(t, v, p, op, m, extra) ==
  LET overtaken == \E i \in (v.at + 1)..Len(log) : log[i].post = p IN
  /\ log' = Append(log, [op EXCEPT !.overtaken = overtaken])
  /\ meta' = [q \in Chain!Posts \cup {p} |-> IF q = p THEN m ELSE meta[q]]
  /\ order' = IF p \in Chain!Posts THEN order ELSE Append(order, p)
  /\ view' = [view EXCEPT ![t] = None]
  /\ last' = [post |-> p, text |-> op.text, current |-> v = Served(CurrentChain),
              chain |-> CurrentChain, slots |-> [i \in DOMAIN Authors(CurrentChain) |-> SlotKey(Authors(CurrentChain)[i])],
              overtaken |-> overtaken, admitted |-> User[t] = Author[Paper] \/ Own(Authors(CurrentChain), User[t]) # {},
              admits |-> \E q \in Chain!Posts \ ToSet(CurrentChain), s \in ToSet(extra) : Author[q] = s.hive]

\* handleSubmit.
Submit(t) ==
  /\ view[t] # None /\ Len(log) < MaxOps /\ IsAuthorized(User[t], view[t])
  /\ LET u == User[t] v == view[t] n == Len(log) IN
     \E text \in {v.body, n} \ {None}, extra \in {<<>>} \cup {<<s>> : s \in Added} :
       LET listing == Assembled(u, v, n, extra) IN
       \/ /\ OwnVersions(u, v) = {}
          /\ \E p \in Post \ Chain!Posts :
               /\ Author[p] = u
               /\ Lands(t, v, p, [post |-> p, patch |-> FALSE, base |-> None, text |-> text, overtaken |-> FALSE],
                        [kind |-> "paper", cont |-> Continued(v), listing |-> listing], extra)
       \/ /\ OwnVersions(u, v) # {}
          /\ LET p == v.posts[Max(OwnVersions(u, v))] IN
             \E short \in BOOLEAN :   \* whether a patch is shorter than the body
               Lands(t, v, p, [post |-> p, patch |-> Patches(v, p) /\ (short \/ text = v.body), base |-> v.body, text |-> text,
                               overtaken |-> FALSE],
                     [kind |-> "paper", cont |-> Continues(v, p), listing |-> listing], extra)

Init ==
  /\ order = Begun
  /\ meta = [p \in ToSet(Begun) |->
       [kind |-> "paper", listing |-> Authored,
        cont |-> LET i == CHOOSE i \in DOMAIN Begun : Begun[i] = p IN IF i = 1 THEN None ELSE Begun[i - 1]]]
  /\ log = [i \in DOMAIN Begun |-> [post |-> Begun[i], patch |-> FALSE, base |-> None, text |-> i - 1,
                                    overtaken |-> FALSE]]
  /\ view = [t \in Page |-> None] /\ last = None

Next == \E t \in Page : Load(t) \/ Submit(t)

Spec == Init /\ [][Next]_vars

-----------------------------------------------------------------------------
(* Properties *)

\* A version is what its editor typed, whatever others broadcast since the page loaded,
\* unless another page of the editor edited the same post in between, and then the next edit
\* is whole again.  One made from the current paper is what readers are served next, when
\* the chain lists its editor; of an editor who only has a claim readers see nothing.
EditShown ==
  /\ \A i \in DOMAIN log : ~log[i].overtaken => Replayed(SubSeq(log, 1, i), log[i].post) = log[i].text
  /\ last # None /\ last.current /\ last.admitted =>
       last.post \in ToSet(CurrentChain) /\ Served(CurrentChain).body = last.text
  /\ last # None /\ ~last.admitted => CurrentChain = last.chain

\* No submit, from a stale page or one that was served the front of the chain, takes a post
\* out of the chain or an author off the paper, and one from the current paper leaves every
\* author_index at its slot; unless its own post was edited since, or it names an account
\* that had broadcast a continuation of its own.
ChainStays ==
  last # None /\ ~last.overtaken /\ ~last.admits =>
    LET slots == [i \in DOMAIN Authors(CurrentChain) |-> SlotKey(Authors(CurrentChain)[i])] IN
    /\ IsPrefix(last.chain, CurrentChain)
    /\ ToSet(last.slots) \subseteq ToSet(slots)
    /\ last.current => IsPrefix(last.slots, slots)

\* What an account says of itself in its post of the chain is what readers are told of it,
\* whatever stale pages of the others repeat.
OwnWords ==
  LET chain == CurrentChain shown == Authors(chain) IN
  \A i \in DOMAIN chain : \A s \in ToSet(shown), t \in ToSet(meta[chain[i]].listing) :
    s.hive = Author[chain[i]] /\ t.hive = s.hive
      /\ (\A j \in DOMAIN chain : j > i => Author[chain[j]] # s.hive) => s.says = t.says
=============================================================================
