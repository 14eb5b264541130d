--------------------------- MODULE Notifications ---------------------------
(* What an account is told of: the feed that open tabs poll behind a cursor in *)
(* the storage of the browser, and the digest by mail behind a cursor in the   *)
(* database.  Both take a window of the chain from one query, capped and cut   *)
(* at whole blocks, and both move their cursor to the last block they got.     *)
EXTENDS Integers, Sequences, FiniteSets, SequencesExt, FiniteSetsExt

CONSTANTS Post, Vote, Notice,  \* what ops are about: posts, which may be edited, votes, notices
          Tab, None,
          Enrols,       \* whether the account may enable the digest
          Cap,          \* NOTIFICATION_WINDOW_FETCH_CAP
          Limit,        \* size of a page of the feed
          Window,       \* NOTIFICATION_WINDOW_BLOCKS
          MaxBlock, MaxFaults  \* bounds

Topic == Post \cup Vote \cup Notice
Event == (1..MaxBlock) \X Topic

NotificationsAssumption ==
  /\ {Cap, Limit, Window} \subseteq Nat \ {0} /\ {MaxBlock, MaxFaults} \subseteq Nat
  /\ IsFiniteSet(Topic) /\ (Post \cup Notice) \cap Vote = {} /\ Enrols \in BOOLEAN

VARIABLES
  chain,   \* the blocks: what the ops of each are about, and the weight of a vote
  head,    \* getLastBlock, 0 until the watcher has ticked
  cached,  \* the window the route keeps for a minute
  cursor,  \* localStorage: the block the feed has got to
  poll,    \* the cursor a request in flight of each tab was sent with
  prefs,   \* the row of notification_preferences
  run,     \* the digest run
  faults,
  got,     \* history: what tabs and mails were given, what was mailed since enabling, twice
  excused  \* history: what the window no longer holds, or held too much of

vars == <<chain, head, cached, cursor, poll, prefs, run, faults, got, excused>>

Ops == UNION {[K -> {0, 1}] : K \in SUBSET Topic}
Run == [pc : {"idle", "send", "advance"}, news : SUBSET Event]
Given == [feed : SUBSET Event, mail : SUBSET Event, since : SUBSET Event, twice : BOOLEAN]
Excuse == [feed : SUBSET Event, mail : SUBSET Event]

TypeOK ==
  /\ chain \in Seq(Ops) /\ Len(chain) <= MaxBlock
  /\ head \in 0..Len(chain) /\ cursor \in 0..Len(chain) /\ faults \in 0..MaxFaults
  /\ cached = None \/ cached \in SUBSET Event
  /\ poll \in [Tab -> 0..Len(chain) \cup {None}]
  /\ prefs \in [on : BOOLEAN, last : 0..Len(chain)]
  /\ run \in Run /\ got \in Given /\ excused \in Excuse

IdleRun == [pc |-> "idle", news |-> {}]
Fault == faults < MaxFaults /\ faults' = faults + 1

-----------------------------------------------------------------------------
(* The window *)

\* computeNotificationWindowFloor.
WindowFloor == IF head > 0 THEN Max({0, head - Window}) ELSE 0

Blocks(k, floor) == {b \in DOMAIN chain : b > floor /\ k \in DOMAIN chain[b]}
Shown(K, floor) == {k \in K : Blocks(k, floor) # {}}

\* Reviews, replies and citations are reported where they first appear above the floor, so
\* that their edits are silent; so are the answers to a claim.
Firsts(floor) == {<<Min(Blocks(k, floor)), k>> : k \in Shown(Post, floor)}

\* A vote is reported where it was last cast, unless it was taken back.
Votes(floor) ==
  LET LastOf(k) == Max(Blocks(k, floor)) IN
  {<<LastOf(k), k>> : k \in {k \in Shown(Vote, floor) : chain[LastOf(k)][k] # 0}}

\* Accreditations, vouches and claims are reported each time.
Notices(floor) == UNION {{<<b, k>> : b \in Blocks(k, floor)} : k \in Notice}

Events(floor) == Firsts(floor) \cup Votes(floor) \cup Notices(floor)

\* filterEventsAfter.
After(events, since) == {e \in events : e[1] > since}

\* What is not nearer to the end the window is cut at.
Beyond(e, events, direction) == {f \in events : IF direction = "desc" THEN f[1] >= e[1] ELSE f[1] <= e[1]}

\* Seeded fault: a window that is full is taken for one that is cut.
Fetch_Full(floor, direction) ==
  {e \in Events(floor) : Cardinality(Beyond(e, Events(floor), direction)) < Cap}

\* fetchNotificationsFromHaf: of more than Cap the newest or the oldest, in whole blocks.
FetchEvents(floor, direction) ==
  {e \in Events(floor) : Cardinality(Beyond(e, Events(floor), direction)) <= Cap}

-----------------------------------------------------------------------------
(* The feed *)

\* Seeded fault: only the newest of what fits is taken.
Page_Newest(events) == {e \in events : Cardinality({f \in events : f[1] >= e[1]}) <= Limit}

\* applySinceBlockFilter: whole blocks while they fit, the first in any case.
Page(events) ==
  {e \in events : \/ \A f \in events : f[1] >= e[1]
                  \/ Cardinality({f \in events : f[1] <= e[1]}) <= Limit}

\* History: what a window read now is too young for, or has no room for.
Passed ==
  {e \in Events(0) : e[1] <= WindowFloor \/ Cardinality(Beyond(e, Events(WindowFloor), "desc")) > Cap}

\* A tab polls, by its timer or a refresh; a poll is not held back by another.
Poll(t) ==
  /\ poll[t] = None /\ poll' = [poll EXCEPT ![t] = cursor]
  /\ UNCHANGED <<chain, head, cached, cursor, prefs, run, faults, got, excused>>

\* The route answers and the tab takes the answer: from the window of at most a minute ago
\* or a new one; without an answer, or after the tab was left, nothing moves.
Answer(t) ==
  /\ poll[t] # None /\ poll' = [poll EXCEPT ![t] = None]
  /\ \/ \E window \in ({cached} \ {None}) \cup {FetchEvents(WindowFloor, "desc")} :
          LET events == Page(After(window, poll[t])) IN
          /\ cached' = window
          /\ cursor' = IF events = {} THEN cursor ELSE Max({e[1] : e \in events})
          /\ got' = [got EXCEPT !.feed = @ \cup events]
          /\ excused' = [excused EXCEPT !.feed = @ \cup Passed]
          /\ UNCHANGED faults
     \/ Fault /\ UNCHANGED <<cached, cursor, got, excused>>
  /\ UNCHANGED <<chain, head, prefs, run>>

-----------------------------------------------------------------------------
(* The digest *)

\* PUT notification-preferences: whoever enables the digest begins at the head.
Enable ==
  /\ Enrols /\ ~prefs.on /\ prefs' = [on |-> TRUE, last |-> head]
  /\ excused' = [excused EXCEPT !.mail = @ \cup {e \in Events(0) : e[1] <= head}]
  /\ got' = [got EXCEPT !.since = {}]
  /\ UNCHANGED <<chain, head, cached, cursor, poll, run, faults>>

\* The preferences or the link of a mail; the cursor stays.
Disable ==
  /\ prefs.on /\ prefs' = [prefs EXCEPT !.on = FALSE]
  /\ UNCHANGED <<chain, head, cached, cursor, poll, run, faults, got, excused>>

\* runDigest, of one user: the oldest of the window, what is behind the cursor taken out.
Digest ==
  /\ run.pc = "idle" /\ prefs.on /\ prefs.last > 0
  /\ LET window == FetchEvents(WindowFloor, "asc") news == After(window, prefs.last) IN
     /\ news # {} /\ run' = [pc |-> "send", news |-> news]
     /\ excused' = [excused EXCEPT !.mail = @ \cup {e \in Events(0) : e[1] <= WindowFloor}]
  /\ UNCHANGED <<chain, head, cached, cursor, poll, prefs, faults, got>>

\* sendDigestEmail; a mail may go out although sending it failed.
SendDigestEmail ==
  /\ run.pc = "send"
  /\ LET Mails == got' = [got EXCEPT !.mail = @ \cup run.news, !.since = @ \cup run.news,
                                     !.twice = @ \/ (faults = 0 /\ got.since \cap run.news # {})] IN
     \/ Mails /\ run' = [run EXCEPT !.pc = "advance"] /\ UNCHANGED faults
     \/ Fault /\ run' = IdleRun /\ (Mails \/ UNCHANGED got)
  /\ UNCHANGED <<chain, head, cached, cursor, poll, prefs, excused>>

\* Seeded fault: the cursor moves to the head.
Reached_Head(news) == Len(chain)

\* The last block that was mailed.
Reached(news) == Max({e[1] : e \in news})

\* updateLastDigestBlock.
UpdateLastDigestBlock ==
  /\ run.pc = "advance" /\ run' = IdleRun
  /\ \/ prefs' = [prefs EXCEPT !.last = Reached(run.news)] /\ UNCHANGED faults
     \/ Fault /\ UNCHANGED prefs
  /\ UNCHANGED <<chain, head, cached, cursor, poll, got, excused>>

-----------------------------------------------------------------------------

\* HAF indexes a block.
Block(ops) ==
  /\ Len(chain) < MaxBlock /\ chain' = Append(chain, ops)
  /\ UNCHANGED <<head, cached, cursor, poll, prefs, run, faults, got, excused>>

\* The block watcher.
Watch ==
  /\ head < Len(chain) /\ head' = Len(chain)
  /\ UNCHANGED <<chain, cached, cursor, poll, prefs, run, faults, got, excused>>

\* The server restarts.
Restart ==
  /\ Fault /\ head' = 0 /\ cached' = None /\ run' = IdleRun
  /\ UNCHANGED <<chain, cursor, poll, prefs, got, excused>>

Init ==
  /\ chain = <<>> /\ head = 0 /\ cached = None /\ cursor = 0 /\ poll = [t \in Tab |-> None]
  /\ prefs = [on |-> FALSE, last |-> 0] /\ run = IdleRun /\ faults = 0
  /\ got = [feed |-> {}, mail |-> {}, since |-> {}, twice |-> FALSE] /\ excused = [feed |-> {}, mail |-> {}]

Next ==
  \/ \E K \in SUBSET Topic : \E ops \in [K -> {0, 1}] : (\A k \in K \ Vote : ops[k] = 1) /\ Block(ops)
  \/ \E t \in Tab : Poll(t) \/ Answer(t)
  \/ Enable \/ Disable \/ Digest \/ SendDigestEmail \/ UpdateLastDigestBlock \/ Watch \/ Restart

Spec == Init /\ [][Next]_vars

-----------------------------------------------------------------------------
(* Properties *)

\* What the feed has passed was shown in some tab, unless it was older than all the window
\* held when the cursor passed it.
FeedWhole == \A e \in Events(0) : e[1] <= cursor => e \in got.feed \cup excused.feed

\* What the digest has passed was mailed, unless the digest was enabled after it or it was
\* below the window; and while nothing fails nothing is mailed twice since it was enabled.
DigestWhole ==
  /\ prefs.last > 0 => \A e \in Events(0) : e[1] <= prefs.last => e \in got.mail \cup excused.mail
  /\ ~got.twice
=============================================================================
