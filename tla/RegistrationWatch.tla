------------------------- MODULE RegistrationWatch -------------------------
(* The poller that tells a Discord channel of sign-ups, finished registrations *)
(* and accreditations.  It reads the accounts table and the chain behind three *)
(* cursors kept in Redis, posts what is new, and only then moves the cursors.  *)
(*                                                                             *)
(* Time is in half milliseconds: the marker of a row is finer than its cursor. *)
EXTENDS Integers, Sequences, FiniteSets, SequencesExt, FiniteSetsExt

CONSTANTS Person, None,
          MaxEvents,  \* rows a query returns, MAX_EVENTS_PER_TICK
          MaxEmbeds,  \* events of a message, MAX_EMBEDS_PER_MESSAGE
          Lookback,   \* MAX_BLOCK_LOOKBACK
          MaxRows, MaxBlock, MaxFaults  \* bounds

WatchAssumption == {MaxEvents, MaxEmbeds, Lookback, MaxRows, MaxBlock, MaxFaults} \subseteq Nat /\ MaxEmbeds > 0

VARIABLES
  now,
  row,     \* accounts by id: whose, whether an INSERT or a finalize is not committed yet
  chain,   \* the blocks, each the accounts it accredits
  cursor,  \* Redis: the three cursors, or None
  seen,    \* Redis: the sets of announced rows and users
  tick,    \* the running tick
  faults,
  said,    \* history: what was posted, and what was posted twice while nothing failed
  top,     \* history: the highest id and marker a tick has read
  excused  \* history: what was passed over for a reason the code accepts or cannot see

vars == <<now, row, chain, cursor, seen, tick, faults, said, top, excused>>

IdleTick == [pc |-> "idle", from |-> None, to |-> None, queue |-> <<>>, rows |-> {}, users |-> {}]

\* An event is a sign-up, a finished registration, or the op that accredits an account.
Started(i) == <<"started", i>>
Completed(i) == <<"completed", i>>
Accredited(op) == <<"accredited", op>>

TypeOK ==
  /\ now \in Nat /\ faults \in 0..MaxFaults
  /\ \A i \in DOMAIN row : row[i].who \in Person /\ row[i].at \in 0..now
       /\ row[i].st \in {"inserting", "open", "finalizing", "done"}
  /\ cursor = None \/ DOMAIN cursor = {"id", "at", "block"}
  /\ tick.pc \in {"idle", "completed", "accredited", "posting", "commit"}

Fault == faults < MaxFaults /\ faults' = faults + 1
World == <<now, row, chain>>
History == <<said, top, excused>>

-----------------------------------------------------------------------------
(* What is watched *)

\* Somebody signs up: the id and the marker of the row are drawn before it is committed.
Insert(p) ==
  /\ Len(row) < MaxRows /\ p \notin {row[i].who : i \in DOMAIN row} /\ now' = now + 1
  /\ row' = Append(row, [who |-> p, at |-> now, st |-> "inserting"])
  /\ UNCHANGED <<chain, cursor, seen, tick, faults, History>>

\* A confirmed sign-up is finalized under a new marker; the verified email of a
\* self-custody row keeps the marker of its INSERT.
Finalize(i) ==
  /\ row[i].st = "open" /\ now' = now + 1
  /\ \E at \in {row[i].at, now} : row' = [row EXCEPT ![i].st = "finalizing", ![i].at = at]
  /\ UNCHANGED <<chain, cursor, seen, tick, faults, History>>

\* The statement commits, which ticks may have read past by then.
Commits(i) ==
  /\ row[i].st \in {"inserting", "finalizing"}
  /\ row' = [row EXCEPT ![i].st = IF @ = "inserting" THEN "open" ELSE "done"]
  /\ excused' = excused \cup (IF row[i].st = "inserting" THEN IF i < top.id THEN {Started(i)} ELSE {}
                              ELSE IF row[i].at <= top.at THEN {Completed(i)} ELSE {})
  /\ UNCHANGED <<now, chain, cursor, seen, tick, faults, said, top>>

\* HAF indexes a block.
Block(accredited) ==
  /\ Len(chain) < MaxBlock /\ chain' = Append(chain, accredited)
  /\ UNCHANGED <<now, row, cursor, seen, tick, faults, History>>

-----------------------------------------------------------------------------
(* A tick *)

Goes(pc) == tick' = [tick EXCEPT !.pc = pc]
Ends == tick' = IdleTick

Committed == {i \in DOMAIN row : row[i].st # "inserting"}
Finalized == {i \in DOMAIN row : row[i].st = "done"}
HeadBlock == Len(chain)
Ops == FlattenSeq([b \in DOMAIN chain |-> [k \in DOMAIN chain[b] |-> <<b, chain[b][k]>>]])

\* ORDER BY ... LIMIT, and the batches of a queue.
First(n, s) == SubSeq(s, 1, Min({n, Len(s)}))
Page(S, key(_)) == First(MaxEvents, SetToSortSeq(S, LAMBDA x, y : key(x) < key(y)))

\* tick and coldStart: without cursors, nothing that is there already is announced.
ColdStart ==
  /\ tick.pc = "idle" /\ cursor = None
  /\ cursor' = [id |-> Max({0} \cup Committed), at |-> now \div 2, block |-> HeadBlock]
  /\ top' = [top EXCEPT !.at = 2 * (now \div 2)]
  /\ excused' = excused \cup {Started(i) : i \in DOMAIN row} \cup {Accredited(op) : op \in ToSet(Ops)}
       \cup {Completed(i) : i \in {i \in DOMAIN row : row[i].at <= 2 * (now \div 2)}}
  /\ UNCHANGED <<World, tick, seen, faults, said>>

\* tick, readState and collectSignupStarted: none runs beside another.
CollectSignupStarted ==
  /\ tick.pc = "idle" /\ cursor # None
  /\ LET rows == Page({i \in Committed : i > cursor.id}, LAMBDA i : i)
         last == Max({cursor.id} \cup ToSet(rows)) IN
     /\ tick' = [IdleTick EXCEPT !.pc = "completed", !.from = cursor, !.to = [cursor EXCEPT !.id = last],
                                  !.queue = [k \in DOMAIN rows |-> Started(rows[k])]]
     /\ top' = [top EXCEPT !.id = Max({@, last})]
  /\ UNCHANGED <<World, cursor, seen, faults, said, excused>>

\* Seeded fault: a row is marked when it is collected.
Seen_AtOnce(rows, users) == seen' = [rows |-> seen.rows \cup rows, users |-> seen.users \cup users]

\* Membership is only read while collecting.
Seen(rows, users) == UNCHANGED seen

\* collectCompleted: a row whose membership cannot be read is taken for announced.
CollectCompleted ==
  /\ tick.pc = "completed"
  /\ LET rows == Page({i \in Finalized : row[i].at > 2 * tick.from.at}, LAMBDA i : row[i].at)
         new == SelectSeq(rows, LAMBDA i : i \notin seen.rows)
         last == Max({tick.from.at} \cup {row[i].at \div 2 : i \in ToSet(rows)})
     IN \E read \in {ToSet(new), {}} :
       LET news == SelectSeq(new, LAMBDA i : i \in read) IN
       /\ IF read = ToSet(new) THEN UNCHANGED faults ELSE Fault
       /\ tick' = [tick EXCEPT !.pc = "accredited", !.to.at = last, !.rows = read,
                               !.queue = @ \o [k \in DOMAIN news |-> Completed(news[k])]]
       /\ Seen(read, {row[i].who : i \in read})
       /\ top' = [top EXCEPT !.at = Max({@} \cup {row[i].at : i \in ToSet(rows)})]
       /\ excused' = excused \cup {Completed(i) : i \in ToSet(new) \ read}
  /\ UNCHANGED <<World, cursor, said>>

\* The cursor moves to the block of the last op of the page.
LastBlock(floor, ops) == Max({floor} \cup {op[1] : op \in ToSet(ops)})

\* collectAccreditations: not of who is announced in this tick or before.
CollectAccreditations ==
  /\ tick.pc = "accredited"
  /\ LET floor == Max({tick.from.block, HeadBlock - Lookback})
         after == SelectSeq(Ops, LAMBDA op : op[1] > floor)
         ops == First(MaxEvents, after)
         users == {row[i].who : i \in tick.rows}
         new == {op[2] : op \in ToSet(ops)} \ (users \cup seen.users)
     IN \E read \in {new, {}} :
       LET news == SelectSeq(ops, LAMBDA op : op[2] \in read) IN
       /\ IF read = new THEN UNCHANGED faults ELSE Fault
       /\ tick' = [tick EXCEPT !.pc = "posting", !.to.block = LastBlock(floor, ops), !.users = read,
                               !.queue = @ \o [k \in DOMAIN news |-> Accredited(news[k])]]
       /\ excused' = excused \cup {Accredited(op) : op \in {op \in ToSet(ops) : op[2] \in new \ read}}
            \cup {Accredited(op) : op \in {op \in ToSet(Ops) : op[1] <= floor /\ op[1] > tick.from.block}}
            \cup {Accredited(op) : op \in {op \in ToSet(SubSeq(after, Len(ops) + 1, Len(after))) : op[1] = LastBlock(floor, ops)}}
  /\ UNCHANGED <<World, cursor, seen, said, top>>

\* postToDiscord, of one batch; one that failed, although it may have been posted, ends the
\* tick: nothing is marked and no cursor moves.
PostToDiscord ==
  /\ tick.pc = "posting"
  /\ LET batch == First(MaxEmbeds, tick.queue)
         Says == said' = [said EXCEPT !.once = @ \cup ToSet(batch),
                                      !.twice = @ \cup (IF faults = 0 THEN @ \cup (ToSet(batch) \cap said.once) ELSE {})]
         Drops == tick' = [tick EXCEPT !.queue = SubSeq(@, Len(batch) + 1, Len(@))] IN
     \/ tick.queue = <<>> /\ Goes("commit") /\ UNCHANGED <<said, faults>>
     \/ tick.queue # <<>> /\ Drops /\ Says /\ UNCHANGED faults
     \/ tick.queue # <<>> /\ Fault /\ Ends /\ UNCHANGED said
     \/ tick.queue # <<>> /\ Fault /\ Ends /\ Says
  /\ UNCHANGED <<World, cursor, seen, top, excused>>

\* The commit of a tick: what was announced is marked, then the cursors move; the reply,
\* the pipeline or its end may be lost.
Commit ==
  /\ tick.pc = "commit" /\ Ends
  /\ LET Marks == seen' = [rows |-> seen.rows \cup tick.rows,
                           users |-> seen.users \cup tick.users \cup {row[i].who : i \in tick.rows}] IN
     \/ Marks /\ cursor' = tick.to /\ (UNCHANGED faults \/ Fault)
     \/ Fault /\ Marks /\ UNCHANGED cursor
     \/ Fault /\ UNCHANGED <<seen, cursor>>
  /\ UNCHANGED <<World, History>>

\* The process dies, or Redis loses what it holds.
Crash == tick.pc # "idle" /\ Fault /\ Ends /\ UNCHANGED <<World, cursor, seen, History>>
Flush ==
  /\ cursor # None /\ Fault /\ cursor' = None /\ seen' = [rows |-> {}, users |-> {}]
  /\ UNCHANGED <<World, tick, History>>

Init ==
  /\ now = 0 /\ row = <<>> /\ chain = <<>> /\ cursor = None
  /\ seen = [rows |-> {}, users |-> {}] /\ tick = IdleTick /\ faults = 0
  /\ said = [once |-> {}, twice |-> {}] /\ top = [id |-> 0, at |-> 0] /\ excused = {}

Next ==
  \/ \E p \in Person : Insert(p)
  \/ \E i \in DOMAIN row : Finalize(i) \/ Commits(i)
  \/ \E accredited \in SUBSET Person : Block(SetToSeq(accredited))
  \/ ColdStart \/ CollectSignupStarted \/ CollectCompleted \/ CollectAccreditations
  \/ PostToDiscord \/ Commit \/ Crash \/ Flush

Spec == Init /\ [][Next]_vars

-----------------------------------------------------------------------------
(* Properties *)

\* Whoever is behind the cursors was announced, unless the code passes over them: history
\* at a cold start or beyond the lookback, a row committed after a later one was read, a
\* membership that could not be read, the rest of a block cut by the page size.  An
\* accreditation counts as announced with the registration of its account.
NoneSkipped ==
  cursor # None =>
    /\ \A i \in Committed : i <= cursor.id => Started(i) \in said.once \cup excused
    /\ \A i \in Finalized : row[i].at <= 2 * cursor.at => Completed(i) \in said.once \cup excused
    /\ \A op \in ToSet(Ops) : op[1] <= cursor.block =>
         \/ Accredited(op) \in excused
         \/ \E other \in ToSet(Ops) : other[2] = op[2] /\ Accredited(other) \in said.once
         \/ \E i \in Finalized : row[i].who = op[2] /\ Completed(i) \in said.once

\* While nothing fails, no event is posted twice, although a row is read again as long as
\* its marker is finer than the cursor.
SaidOnce == said.twice = {}
=============================================================================
