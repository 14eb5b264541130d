--------------------------- MODULE Argon2Semaphore ---------------------------
(* The semaphore in front of argon2: Cap operations run, callers above it wait *)
(* in a bounded queue, a waiter leaves when its client disconnects, and a      *)
(* shutdown refuses all of them.                                               *)
(*                                                                             *)
(* The code has no lock: it relies on the order in which Node runs things.  A  *)
(* promise that settles queues the continuation of its waiter as a microtask,  *)
(* and an arrival, the end of an operation or a signal is handled only when    *)
(* the microtasks have run.  A slot that is released is therefore not taken    *)
(* but promised: inFlight counts it again only in the microtask of the waiter. *)
EXTENDS Integers, Sequences, FiniteSets, SequencesExt

CONSTANTS Req,      \* requests that hash or verify a password
          Cap,      \* MAX_CONCURRENT_ARGON2_OPS
          MaxQueue, \* MAX_QUEUE_DEPTH
          MaxAborts \* bound on the clients that disconnect

\* What an instance must give them.
SemaphoreAssumption ==
  /\ Req \subseteq Nat /\ IsFiniteSet(Req) /\ MaxAborts \in Nat
  /\ Cap \in Nat \ {0} /\ MaxQueue \in Nat \ {0}

VARIABLES
  inFlight,   \* slots counted as taken
  queueDepth, \* calls between the push and the end of their await
  abortCount, \* aborts counted for the operators
  waiters,    \* the queue
  micro,      \* microtasks: the waiters whose promise has settled
  closing,    \* shuttingDown
  req,        \* the requests
  thrown      \* history: ArgonAbortErrors thrown

vars == <<inFlight, queueDepth, abortCount, waiters, micro, closing, req, thrown>>

Request == [pc : {"idle", "parked", "running"},
            settled : {"pending", "granted", "aborted", "drained"}, \* the promise it is parked on
            gone : BOOLEAN,    \* signal.aborted
            counted : BOOLEAN] \* abortAlreadyCounted

IdleRequest == [pc |-> "idle", settled |-> "pending", gone |-> FALSE, counted |-> FALSE]

TypeOK ==
  /\ inFlight \in 0..Cap /\ queueDepth \in Nat
  /\ abortCount \in 0..MaxAborts /\ thrown \in 0..MaxAborts
  /\ waiters \in Seq(Req) /\ Len(waiters) <= MaxQueue
  /\ micro \in Seq(Req)
  /\ closing \in BOOLEAN
  /\ req \in [Req -> Request]

Ends(r) == req' = [req EXCEPT ![r] = IdleRequest]
Quiet == micro = <<>>

-----------------------------------------------------------------------------
\* Seeded fault: one too many.
Free_OffByOne == inFlight <= Cap

\* A slot that is not counted as taken.
Free == inFlight < Cap

\* A request reaches runWithArgon2Slot: refused while shutting down, or when the
\* queue is full; else it takes a free slot or parks.
Arrive(r) ==
  /\ Quiet /\ req[r].pc = "idle"
  /\ \A q \in Req : q < r => req[q].pc # "idle"   \* requests are interchangeable
  /\ ~closing
  /\ IF Free
       THEN /\ inFlight' = inFlight + 1 /\ req' = [req EXCEPT ![r].pc = "running"]
            /\ UNCHANGED <<waiters, queueDepth>>
       ELSE /\ Len(waiters) < MaxQueue
            /\ waiters' = Append(waiters, r) /\ queueDepth' = queueDepth + 1
            /\ req' = [req EXCEPT ![r].pc = "parked"]
            /\ UNCHANGED inFlight
  /\ UNCHANGED <<abortCount, micro, closing, thrown>>

\* The client has gone before the call: the abort is counted and thrown.
ArriveGone ==
  /\ Quiet /\ ~closing /\ thrown < MaxAborts
  /\ abortCount' = abortCount + 1 /\ thrown' = thrown + 1
  /\ UNCHANGED <<inFlight, queueDepth, waiters, micro, closing, req>>

\* The oldest of the queue leaves it, and its promise resolves.
PromiseSlot(reqs, tasks) ==
  IF waiters = <<>>
    THEN req' = reqs /\ micro' = tasks /\ UNCHANGED waiters
    ELSE /\ req' = [reqs EXCEPT ![Head(waiters)].settled = "granted"]
         /\ micro' = Append(tasks, Head(waiters))
         /\ waiters' = Tail(waiters)

\* fn settles: the slot is released and promised to the next waiter.
Finish(r) ==
  /\ Quiet /\ req[r].pc = "running"
  /\ inFlight' = inFlight - 1
  /\ PromiseSlot([req EXCEPT ![r] = IdleRequest], <<>>)
  /\ UNCHANGED <<queueDepth, abortCount, closing, thrown>>

\* Seeded fault: a waiter that finds its client gone keeps the slot it was promised.
HandOn_Kept == UNCHANGED waiters /\ req' = [req EXCEPT ![Head(micro)] = IdleRequest]
               /\ micro' = Tail(micro)

\* The slot goes to the next waiter.
HandOn == PromiseSlot([req EXCEPT ![Head(micro)] = IdleRequest], Tail(micro))

Count(r) == abortCount' = IF req[r].counted THEN abortCount ELSE abortCount + 1

\* The microtask of a waiter: it throws what its promise was rejected with, or, if its
\* client went after the promise resolved, hands the slot on; else it takes the slot.
Resume ==
  /\ ~Quiet
  /\ LET r == Head(micro) IN
       /\ queueDepth' = queueDepth - 1
       /\ \/ /\ req[r].settled = "granted" /\ ~req[r].gone
             /\ inFlight' = inFlight + 1
             /\ req' = [req EXCEPT ![r].pc = "running", ![r].settled = "pending"]
             /\ micro' = Tail(micro)
             /\ UNCHANGED <<waiters, abortCount, thrown>>
          \/ /\ req[r].settled = "granted" /\ req[r].gone
             /\ HandOn /\ Count(r) /\ thrown' = thrown + 1
             /\ UNCHANGED inFlight
          \/ /\ req[r].settled # "granted"
             /\ Ends(r) /\ micro' = Tail(micro)
             /\ thrown' = IF req[r].settled = "aborted" THEN thrown + 1 ELSE thrown
             /\ UNCHANGED <<inFlight, waiters, abortCount>>
  /\ UNCHANGED closing

Aborts == Cardinality({r \in Req : req[r].gone})

\* The listener removed the waiter from the queue itself.
Owns(r) == r \in ToSet(waiters)

\* The client disconnects.  A parked waiter is removed and its promise rejected, which
\* does nothing to a promise that has settled; a running operation is not interrupted.
Disconnect(r) ==
  /\ req[r].pc # "idle" /\ ~req[r].gone /\ thrown + Aborts < MaxAborts
  /\ IF req[r].pc = "parked" /\ Owns(r)
       THEN /\ abortCount' = abortCount + 1
            /\ waiters' = RemoveFirst(waiters, r)
            /\ IF req[r].settled = "pending"
                 THEN /\ micro' = Append(micro, r)
                      /\ req' = [req EXCEPT ![r].gone = TRUE, ![r].counted = TRUE,
                                            ![r].settled = "aborted"]
                 ELSE /\ UNCHANGED micro
                      /\ req' = [req EXCEPT ![r].gone = TRUE, ![r].counted = TRUE]
       ELSE req' = [req EXCEPT ![r].gone = TRUE] /\ UNCHANGED <<abortCount, waiters, micro>>
  /\ UNCHANGED <<inFlight, queueDepth, closing, thrown>>

\* SIGTERM: drainArgon2Queue rejects every waiter, in order.
Drain ==
  /\ Quiet /\ ~closing
  /\ closing' = TRUE /\ waiters' = <<>> /\ micro' = waiters
  /\ req' = [r \in Req |-> IF r \in ToSet(waiters) THEN [req[r] EXCEPT !.settled = "drained"] ELSE req[r]]
  /\ UNCHANGED <<inFlight, queueDepth, abortCount, thrown>>

Init ==
  /\ inFlight = 0 /\ queueDepth = 0 /\ abortCount = 0 /\ thrown = 0
  /\ waiters = <<>> /\ micro = <<>> /\ closing = FALSE
  /\ req = [r \in Req |-> IdleRequest]

Next == \/ \E r \in Req : Arrive(r) \/ Finish(r) \/ Disconnect(r)
        \/ ArriveGone \/ Resume \/ Drain

Spec == Init /\ [][Next]_vars

-----------------------------------------------------------------------------
(* Properties *)

Running == {r \in Req : req[r].pc = "running"}

\* At most Cap operations run and inFlight counts them, although a slot that is
\* promised is free to see until its waiter resumes: no arrival comes between.  And no
\* wakeup is lost: once the microtasks have run, callers wait only while every slot is
\* taken, whichever waiters disconnected with a slot promised to them, and the counts of
\* waiters and of aborts are right.
SlotsSound ==
  /\ Cardinality(Running) <= Cap /\ inFlight = Cardinality(Running)
  /\ Quiet => (waiters # <<>> => inFlight = Cap) /\ queueDepth = Len(waiters) /\ abortCount = thrown
=============================================================================
