---------------------- MODULE FreshAuthConsent_proofs ----------------------
(***************************************************************************)
(* Theorems about FreshAuthConsent, for every set of requests, TTL and     *)
(* bound.                                                                  *)
(***************************************************************************)
EXTENDS FreshAuthConsent, TLAPS

USE DEF vars, storeVars, clientVars, ledgerVars, requestVars, historyVars

(***************************************************************************)
(* Typing.                                                                 *)
(***************************************************************************)

LEMMA AppendTyped ==
    ASSUME NEW q \in Seq(Command), NEW c \in Command
    PROVE  Append(q, c) \in Seq(Command)
  OBVIOUS

LEMMA TailTyped ==
    ASSUME NEW q \in Seq(Command), q # <<>>
    PROVE  Tail(q) \in Seq(Command) /\ Head(q) \in Command
  OBVIOUS

LEMMA ConcatTyped ==
    ASSUME NEW p \in Seq(Command), NEW q \in Seq(Command)
    PROVE  p \o q \in Seq(Command)
  OBVIOUS

LEMMA ShortTyped ==
    ASSUME NEW c \in Command
    PROVE  <<>> \in Seq(Command) /\ <<c>> \in Seq(Command)
  OBVIOUS

LEMMA EmptyTyped == <<>> \in Seq(Command)
  OBVIOUS

LEMMA TimeoutTyped ==
    ASSUME NEW q \in Seq(Command), NEW c
    PROVE  TimeoutIn(q, c) \in Seq(Command)
  BY CallerAssumption DEF TimeoutIn, Command, Cmd

LEMMA CallersTyped ==
    ASSUME NEW q \in Seq(Command)
    PROVE  Callers(q) \subseteq Request \cup {Issuer}
  BY CallerAssumption DEF Callers, Command

LEMMA KeyAfterTyped ==
    ASSUME TypeOK, NEW k
    PROVE  KeyAfter(k) \in 0..(MaxNow + TTL)
  BY TtlAssumption, BoundAssumption DEF TypeOK, KeyAfter

LEMMA IssueTyped == TypeOK /\ Issue => TypeOK'
  BY AppendTyped, TtlAssumption DEF TypeOK, Issue, Cmd, Command, Phase

LEMMA PresentTyped ==
    ASSUME NEW r \in Request, TypeOK, Present(r)
    PROVE  TypeOK'
  <1>1. pipe' \in Seq(Command)
    <2>1. Cmd("GET", r) \in Command
      BY DEF Cmd, Command
    <2>2. pipe \in Seq(Command)
          /\ (pipe' = pipe \/ pipe' = Append(pipe, Cmd("GET", r)))
      BY DEF TypeOK, Present
    <2> QED BY <2>1, <2>2, AppendTyped
  <1>2. pc' \in [Request -> {"idle"} \cup Active \cup Done]
    BY DEF TypeOK, Present, ReadReturns, Active, Done
  <1> QED
    BY <1>1, <1>2 DEF TypeOK, Present

LEMMA SendTyped ==
    ASSUME TypeOK, NEW c \in Command, Send(c)
    PROVE  (up \in BOOLEAN /\ pipe \in Seq(Command) /\ offline \in Seq(Command))'
  BY AppendTyped DEF TypeOK, Send

\* The steps that end or continue a burn keep the tables they write typed.
LEMMA BurnWithoutRedisTyped ==
    ASSUME TypeOK, NEW r \in Request, NEW alreadySpent, BurnWithoutRedis(r, alreadySpent)
    PROVE  (/\ memExp \in {0, TTL}
            /\ up \in BOOLEAN /\ pipe \in Seq(Command) /\ offline \in Seq(Command)
            /\ inFlight \in BOOLEAN /\ spent \in BOOLEAN /\ armed \in BOOLEAN
            /\ pc \in [Request -> {"idle"} \cup Active \cup Done]
            /\ burns \in Nat)'
  <1>1. CASE alreadySpent
    BY <1>1 DEF BurnWithoutRedis, RefuseReplay, TypeOK, Done
  <1>2. CASE ~alreadySpent /\ memExp # 0
    <2>1. WinInMemory(r)
      BY <1>2 DEF BurnWithoutRedis
    <2>2. Cmd("DEL", r) \in Command
      BY DEF Cmd, Command
    <2>3. (up \in BOOLEAN /\ pipe \in Seq(Command) /\ offline \in Seq(Command))'
      BY <2>1, <2>2, SendTyped DEF WinInMemory
    <2> QED
      BY <2>1, <2>3 DEF BurnWithoutRedis, WinInMemory, TypeOK, Active
  <1>3. CASE ~alreadySpent /\ memExp = 0
    BY <1>3 DEF BurnWithoutRedis, Arbitrate, Verdict, TypeOK, Done
  <1> QED
    BY <1>1, <1>2, <1>3

LEMMA BurnWithRedisTyped ==
    ASSUME TypeOK, NEW r \in Request, NEW hit \in BOOLEAN, BurnWithRedis(r, hit)
    PROVE  (/\ memExp \in {0, TTL}
            /\ inFlight \in BOOLEAN /\ spent \in BOOLEAN /\ armed \in BOOLEAN
            /\ pc \in [Request -> {"idle"} \cup Active \cup Done]
            /\ burns \in Nat)'
  <1>1. CASE already[r]
    BY <1>1 DEF BurnWithRedis, RefuseReplay, TypeOK, Done
  <1>2. CASE ~already[r] /\ (hit \/ memExp # 0)
    <2>1. /\ memExp' = 0 /\ inFlight' = FALSE /\ UNCHANGED <<spent, armed>>
          /\ burns' = burns + 1 /\ pc' = [pc EXCEPT ![r] = Verdict(r)]
      BY <1>2 DEF BurnWithRedis, Arbitrate
    <2>2. Verdict(r) \in Done
      BY DEF Verdict, Done
    <2>3. pc' \in [Request -> {"idle"} \cup Active \cup Done] /\ burns' \in Nat
      BY <2>1, <2>2 DEF TypeOK
    <2>4. (inFlight \in BOOLEAN /\ spent \in BOOLEAN /\ armed \in BOOLEAN)'
      BY <2>1 DEF TypeOK
    <2> QED
      BY <2>1, <2>3, <2>4
  <1>3. CASE ~already[r] /\ ~(hit \/ memExp # 0)
    BY <1>3 DEF BurnWithRedis, Arbitrate, TypeOK, Done
  <1> QED
    BY <1>1, <1>2, <1>3

LEMMA BurnTyped ==
    ASSUME TypeOK, NEW r \in Request, Burn(r)
    PROVE  TypeOK'
  <1>1. CASE up
    <2>1. Cmd("GETDEL", r) \in Command
      BY DEF Cmd, Command
    <2> QED
      BY <1>1, <2>1, AppendTyped DEF Burn, TypeOK, Active
  <1>2. CASE ~up
    <2>1. BurnWithoutRedis(r, spent)
      BY <1>2 DEF Burn
    <2> QED
      BY <2>1, BurnWithoutRedisTyped DEF Burn, TypeOK
  <1> QED
    BY <1>1, <1>2 DEF TypeOK

LEMMA RejectTyped ==
    ASSUME TypeOK, NEW r \in Request,
           RejectGet(r) \/ RefuseLocked(r) \/ RejectGetdel(r) \/ RejectDel(r)
    PROVE  TypeOK'
  <1>1. CASE RejectGet(r)
    BY <1>1 DEF RejectGet, ReadReturns, TypeOK, Active, Done
  <1>2. CASE RefuseLocked(r)
    BY <1>2 DEF RefuseLocked, TypeOK, Done
  <1>3. CASE RejectGetdel(r)
    <2>1. BurnWithoutRedis(r, already[r])
      BY <1>3 DEF RejectGetdel
    <2> QED
      BY <1>3, <2>1, BurnWithoutRedisTyped DEF RejectGetdel, TypeOK
  <1>4. CASE RejectDel(r)
    BY <1>4 DEF RejectDel, Verdict, TypeOK, Done
  <1> QED
    BY <1>1, <1>2, <1>3, <1>4

LEMMA ServeTyped ==
    ASSUME TypeOK, Serve
    PROVE  TypeOK'
  <1>1. pipe \in Seq(Command) /\ pipe # <<>>
    BY DEF TypeOK, Serve, ServeSet, ServeGet, ServeGetdel, ServeDel
  <1>2. Head(pipe) \in Command /\ Tail(pipe) \in Seq(Command)
    BY <1>1, TailTyped
  <1>3. 0 \in 0..(MaxNow + TTL)
    BY TtlAssumption, BoundAssumption
  <1>4. CASE ServeSet
    BY <1>2, <1>4, TtlAssumption, BoundAssumption DEF ServeSet, TypeOK, Phase
  <1>5. CASE ServeGet
    BY <1>2, <1>5 DEF ServeGet, ReadReturns, TypeOK, Active, Done
  <1>6. CASE ServeGetdel
    <2>1. CASE Head(pipe).by = Nobody
      BY <1>2, <1>3, <1>6, <2>1 DEF ServeGetdel, TypeOK
    <2>2. CASE Head(pipe).by # Nobody
      <3>1. Head(pipe).by \in Request
        BY <1>2, <1>6, <2>2 DEF ServeGetdel, Command
      <3>2. BurnWithRedis(Head(pipe).by, Readable)
        BY <1>6, <2>2 DEF ServeGetdel
      <3>3. Readable \in BOOLEAN
        BY DEF Readable
      <3> QED
        BY <1>2, <1>3, <1>6, <3>1, <3>2, <3>3, BurnWithRedisTyped DEF ServeGetdel, TypeOK
    <2> QED
      BY <2>1, <2>2
  <1>7. CASE ServeDel
    <2>1. CASE Head(pipe).by \in Request
      BY <1>2, <1>3, <1>7, <2>1 DEF ServeDel, Verdict, TypeOK, Done
    <2>2. CASE Head(pipe).by \notin Request
      BY <1>2, <1>3, <1>7, <2>2 DEF ServeDel, TypeOK
    <2> QED
      BY <2>1, <2>2
  <1> QED
    BY <1>4, <1>5, <1>6, <1>7 DEF Serve

LEMMA FailureTyped ==
    ASSUME TypeOK,
           (\E c \in Caller \ {Nobody} : Timeout(c)) \/ ServeError \/ Flap \/ Flush
    PROVE  TypeOK'
  <1>1. ASSUME NEW c \in Caller \ {Nobody}, Timeout(c)
        PROVE  TypeOK'
    <2>1. /\ TimeoutIn(pipe, c) \in Seq(Command)
          /\ TimeoutIn(offline, c) \in Seq(Command)
      BY TimeoutTyped DEF TypeOK
    <2>2. rejected' \subseteq Request \cup {Issuer}
      BY <1>1 DEF Timeout, TypeOK, Caller
    <2> QED
      BY <1>1, <2>1, <2>2 DEF Timeout, TypeOK
  <1>2. CASE ServeError
    <2>1. Head(pipe) \in Command /\ Tail(pipe) \in Seq(Command)
      BY <1>2, TailTyped DEF ServeError, TypeOK
    <2>2. Callers(<<Head(pipe)>>) \subseteq Request \cup {Issuer}
      BY <2>1, ShortTyped, CallersTyped
    <2> QED
      BY <1>2, <2>1, <2>2 DEF ServeError, TypeOK
  <1>3. CASE Flap
    BY <1>3, KeyAfterTyped DEF Flap, TypeOK
  <1>4. CASE Flush
    <2>1. /\ Callers(pipe \o offline) \subseteq Request \cup {Issuer}
          /\ Callers(offline) \subseteq Request \cup {Issuer}
      BY CallersTyped, ConcatTyped DEF TypeOK
    <2> QED
      BY <1>4, <2>1, EmptyTyped DEF Flush, TypeOK
  <1> QED
    BY <1>1, <1>2, <1>3, <1>4

LEMMA BackgroundTyped ==
    ASSUME TypeOK, Reconnect \/ CleanupTick \/ Restart \/ AdvanceClock \/ CalmDown
    PROVE  TypeOK'
  <1>1. DrainQueue \in Seq(Command)
    <2>1. Cmd("DEL", Drain) \in Command
      BY DEF Cmd, Command
    <2> QED
      BY <2>1, ShortTyped DEF DrainQueue
  <1>2. CASE Reconnect
    <2>1. /\ pipe \o offline \in Seq(Command)
          /\ (pipe \o offline) \o DrainQueue \in Seq(Command)
          /\ (pipe \o offline) \o <<>> \in Seq(Command)
      BY <1>1, ConcatTyped DEF TypeOK
    <2> QED
      BY <1>2, <2>1 DEF Reconnect, TypeOK
  <1>3. CASE CleanupTick
    <2>1. pipe \o DrainQueue \in Seq(Command)
      BY <1>1, ConcatTyped DEF TypeOK
    <2> QED
      BY <1>3, <2>1 DEF CleanupTick, TypeOK
  <1>4. CASE Restart
    <2>1. rExp' \in 0..(MaxNow + TTL)
      BY <1>4, KeyAfterTyped DEF Restart, TypeOK
    <2>2. (pipe \in Seq(Command) /\ offline \in Seq(Command))'
      BY <1>4, EmptyTyped DEF Restart
    <2>3. (phase \in Phase /\ rejected \subseteq Request \cup {Issuer})'
      BY <1>4 DEF Restart, TypeOK, Phase
    <2>4. (/\ pc \in [Request -> {"idle"} \cup Active \cup Done]
           /\ already \in [Request -> BOOLEAN])'
      BY <1>4 DEF Restart, TypeOK, Active, Done
    <2>5. (/\ up \in BOOLEAN /\ calm \in BOOLEAN /\ inFlight \in BOOLEAN
           /\ spent \in BOOLEAN /\ armed \in BOOLEAN /\ exposed \in BOOLEAN)'
      BY <1>4 DEF Restart, TypeOK
    <2> QED
      BY <1>4, <2>1, <2>2, <2>3, <2>4, <2>5 DEF Restart, TypeOK
  <1>5. CASE AdvanceClock
    BY <1>5, BoundAssumption DEF AdvanceClock, TypeOK
  <1>6. CASE CalmDown
    BY <1>6 DEF CalmDown, TypeOK
  <1> QED
    BY <1>2, <1>3, <1>4, <1>5, <1>6

LEMMA InitTyped == Init => TypeOK
  <1> SUFFICES ASSUME Init PROVE TypeOK
    OBVIOUS
  <1>1. /\ now \in 0..MaxNow /\ phase \in Phase /\ memExp \in {0, TTL}
        /\ rExp \in 0..(MaxNow + TTL) /\ burns \in Nat
    BY TtlAssumption, BoundAssumption DEF Init, Phase
  <1>2. pipe \in Seq(Command) /\ offline \in Seq(Command)
    BY EmptyTyped DEF Init
  <1>3. /\ pc \in [Request -> {"idle"} \cup Active \cup Done]
        /\ already \in [Request -> BOOLEAN]
        /\ rejected \subseteq Request \cup {Issuer}
    BY DEF Init
  <1>4. /\ up \in BOOLEAN /\ calm \in BOOLEAN /\ inFlight \in BOOLEAN
        /\ spent \in BOOLEAN /\ armed \in BOOLEAN /\ exposed \in BOOLEAN
    BY DEF Init
  <1> QED
    BY <1>1, <1>2, <1>3, <1>4 DEF TypeOK

\* TypeOK: every table, queue and request of the model keeps its type, for any
\* number of requests and any interleaving with the failures of Redis.
THEOREM TypeCorrect == Spec => []TypeOK
  <1>1. TypeOK /\ [Next]_vars => TypeOK'
    <2> SUFFICES ASSUME TypeOK, [Next]_vars PROVE TypeOK'
      OBVIOUS
    <2>1. CASE Issue
      BY <2>1, IssueTyped
    <2>2. CASE RejectSet
      BY <2>2 DEF RejectSet, TypeOK, Phase
    <2>3. CASE \E r \in Request : Step(r)
      BY <2>3, PresentTyped, BurnTyped, RejectTyped DEF Step
    <2>4. CASE Serve
      BY <2>4, ServeTyped
    <2>5. CASE (\E c \in Caller \ {Nobody} : Timeout(c)) \/ ServeError \/ Flap \/ Flush
      BY <2>5, FailureTyped
    <2>6. CASE Reconnect \/ CleanupTick \/ Restart \/ AdvanceClock \/ CalmDown
      BY <2>6, BackgroundTyped
    <2>7. CASE UNCHANGED vars
      BY <2>7 DEF TypeOK
    <2> QED
      BY <2>1, <2>2, <2>3, <2>4, <2>5, <2>6, <2>7 DEF Next
  <1> QED
    BY InitTyped, <1>1, PTL DEF Spec

(***************************************************************************)
(* The queues: each request's one outstanding command, the SET in front.   *)
(***************************************************************************)

LEMMA TailElements ==
    ASSUME NEW q \in Seq(Command), q # <<>>
    PROVE  /\ Len(q) \in Nat /\ Len(q) > 0 /\ Head(q) = q[1]
           /\ Len(Tail(q)) = Len(q) - 1
           /\ \A i \in 1..Len(Tail(q)) : Tail(q)[i] = q[i + 1] /\ i + 1 \in 1..Len(q)
  OBVIOUS

LEMMA AppendElements ==
    ASSUME NEW q \in Seq(Command), NEW c \in Command
    PROVE  /\ Len(Append(q, c)) = Len(q) + 1
           /\ \A i \in 1..Len(q) : Append(q, c)[i] = q[i]
           /\ Append(q, c)[Len(q) + 1] = c
  OBVIOUS

LEMMA ConcatElements ==
    ASSUME NEW p \in Seq(Command), NEW q \in Seq(Command)
    PROVE  /\ Len(p \o q) = Len(p) + Len(q)
           /\ \A i \in 1..Len(p) : (p \o q)[i] = p[i]
           /\ \A i \in 1..Len(q) : (p \o q)[Len(p) + i] = q[i]
           /\ \A i \in 1..Len(p \o q) : i \notin 1..Len(p) =>
                 i - Len(p) \in 1..Len(q) /\ (p \o q)[i] = q[i - Len(p)]
  OBVIOUS

LEMMA TimeoutElements ==
    ASSUME NEW q \in Seq(Command), NEW c
    PROVE  /\ Len(TimeoutIn(q, c)) = Len(q)
           /\ \A i \in 1..Len(q) :
                 /\ TimeoutIn(q, c)[i].op = q[i].op
                 /\ TimeoutIn(q, c)[i].by = IF q[i].by = c THEN Nobody ELSE q[i].by
  BY DEF TimeoutIn, Cmd, Command

\* A request that awaits nothing has no command in either queue.
LEMMA NoCommandUnlessWaiting ==
    ASSUME TypeOK, OneCommandEach, NEW r \in Request,
           pc[r] \notin {"reading", "burning", "compensating"}
    PROVE  /\ \A i \in 1..Len(pipe) : pipe[i].by # r
           /\ \A i \in 1..Len(offline) : offline[i].by # r
           /\ r \notin rejected
  <1>1. /\ \A i \in 1..Len(pipe) : pipe[i] \in Command
        /\ \A i \in 1..Len(offline) : offline[i] \in Command
    BY DEF TypeOK
  <1> QED
    BY <1>1, CallerAssumption DEF OneCommandEach, OwnCommand, Awaiting, Command

\* Nor has one whose command was rejected.
LEMMA NoCommandOnceRejected ==
    ASSUME TypeOK, OneCommandEach, NEW r \in Request, r \in rejected
    PROVE  /\ \A i \in 1..Len(pipe) : pipe[i].by # r
           /\ \A i \in 1..Len(offline) : offline[i].by # r
  BY DEF OneCommandEach, OwnCommand

Queues == OneCommandEach /\ SetIsFirst

\* r moves on without a command while nothing is queued for it.
LEMMA StepWithoutCommand ==
    ASSUME TypeOK, Queues, NEW r \in Request, NEW s,
           \A i \in 1..Len(pipe) : pipe[i].by # r,
           \A i \in 1..Len(offline) : offline[i].by # r,
           pc' = [pc EXCEPT ![r] = s], UNCHANGED <<pipe, offline>>,
           rejected' = rejected \ {r}
    PROVE  Queues'
  <1>1. \A x \in Request : x # r => pc'[x] = pc[x]
    BY DEF TypeOK
  <1> QED
    BY <1>1 DEF Queues, OneCommandEach, OwnCommand, NoDuplicates, SetIsFirst

\* r sends one command and awaits it.
LEMMA StepWithCommand ==
    ASSUME TypeOK, Queues, NEW r \in Request, NEW op \in {"GET", "GETDEL", "DEL"},
           \A i \in 1..Len(pipe) : pipe[i].by # r,
           \A i \in 1..Len(offline) : offline[i].by # r,
           pc' = [pc EXCEPT ![r] = Awaiting(op)], Send(Cmd(op, r)),
           rejected' = rejected \ {r}
    PROVE  Queues'
  <1>1. \A x \in Request : x # r => pc'[x] = pc[x]
    BY DEF TypeOK
  <1>2. pc'[r] = Awaiting(op)
    BY DEF TypeOK
  <1>3. Cmd(op, r) \in Command /\ Cmd(op, r).by = r /\ Cmd(op, r).op = op
    BY DEF Cmd, Command
  <1>4. Awaiting(op) \in {"reading", "burning", "compensating"}
    BY DEF Awaiting
  <1>5. CASE up
    <2>1. pipe' = Append(pipe, Cmd(op, r)) /\ UNCHANGED offline
      BY <1>5 DEF Send
    <2>2. /\ Len(pipe') = Len(pipe) + 1 /\ Len(pipe) \in Nat
          /\ \A i \in 1..Len(pipe) : pipe'[i] = pipe[i]
          /\ pipe'[Len(pipe) + 1] = Cmd(op, r)
      BY <1>3, <2>1, AppendElements DEF TypeOK
    <2>3. OwnCommand(pipe)' /\ OwnCommand(offline)'
      BY <1>1, <1>2, <1>3, <2>1, <2>2 DEF Queues, OneCommandEach, OwnCommand
    <2>4. NoDuplicates(pipe)' /\ NoDuplicates(offline)'
      BY <1>3, <2>1, <2>2 DEF Queues, OneCommandEach, NoDuplicates
    <2>5. \A i \in 1..Len(pipe'), j \in 1..Len(offline') :
             pipe'[i].by \in Request => pipe'[i].by # offline'[j].by
      BY <1>3, <2>1, <2>2 DEF Queues, OneCommandEach
    <2>6. \A x \in Request \cap rejected' :
             pc'[x] \in {"reading", "burning", "compensating"}
      BY <1>1 DEF Queues, OneCommandEach
    <2>7. SetIsFirst'
      BY <1>3, <2>1, <2>2 DEF Queues, SetIsFirst
    <2> QED
      BY <2>3, <2>4, <2>5, <2>6, <2>7 DEF Queues, OneCommandEach
  <1>6. CASE ~up
    <2>1. offline' = Append(offline, Cmd(op, r)) /\ UNCHANGED pipe
      BY <1>6 DEF Send
    <2>2. /\ Len(offline') = Len(offline) + 1 /\ Len(offline) \in Nat
          /\ \A i \in 1..Len(offline) : offline'[i] = offline[i]
          /\ offline'[Len(offline) + 1] = Cmd(op, r)
      BY <1>3, <2>1, AppendElements DEF TypeOK
    <2>3. OwnCommand(pipe)' /\ OwnCommand(offline)'
      BY <1>1, <1>2, <1>3, <2>1, <2>2 DEF Queues, OneCommandEach, OwnCommand
    <2>4. NoDuplicates(pipe)' /\ NoDuplicates(offline)'
      BY <1>3, <2>1, <2>2 DEF Queues, OneCommandEach, NoDuplicates
    <2>5. \A i \in 1..Len(pipe'), j \in 1..Len(offline') :
             pipe'[i].by \in Request => pipe'[i].by # offline'[j].by
      BY <1>3, <2>1, <2>2 DEF Queues, OneCommandEach
    <2>6. \A x \in Request \cap rejected' :
             pc'[x] \in {"reading", "burning", "compensating"}
      BY <1>1 DEF Queues, OneCommandEach
    <2>7. SetIsFirst'
      BY <1>3, <2>1, <2>2 DEF Queues, SetIsFirst
    <2> QED
      BY <2>3, <2>4, <2>5, <2>6, <2>7 DEF Queues, OneCommandEach
  <1> QED
    BY <1>5, <1>6

\* The oldest command leaves the pipe: answered, its caller moves on; rejected,
\* its caller is told.
LEMMA StepHeadLeaves ==
    ASSUME TypeOK, Queues, pipe # <<>>, pipe' = Tail(pipe), UNCHANGED offline,
           \A x \in Request : x # Head(pipe).by => pc'[x] = pc[x],
           \/ rejected' = rejected
           \/ /\ rejected' = rejected \cup Callers(<<Head(pipe)>>)
              /\ pc' = pc
    PROVE  Queues' /\ \A i \in 1..Len(pipe') : pipe'[i].op # "SET"
  <1>1. /\ Len(pipe) \in Nat /\ Len(pipe) > 0 /\ Head(pipe) = pipe[1]
        /\ Len(pipe') = Len(pipe) - 1
        /\ \A i \in 1..Len(pipe') : pipe'[i] = pipe[i + 1] /\ i + 1 \in 1..Len(pipe)
    BY TailElements DEF TypeOK
  <1>2. \A i \in 1..Len(pipe) : pipe[i].by \in Request /\ pipe[i].by = Head(pipe).by => i = 1
    BY <1>1 DEF Queues, OneCommandEach, NoDuplicates
  <1>3. \A x \in rejected' : x \in rejected \/ x = Head(pipe).by
    BY DEF Callers
  <1>4. OwnCommand(pipe)'
    BY <1>1, <1>2, <1>3 DEF Queues, OneCommandEach, OwnCommand
  <1>5. OwnCommand(offline)'
    BY <1>1, <1>3 DEF Queues, OneCommandEach, OwnCommand
  <1>6. NoDuplicates(pipe)' /\ NoDuplicates(offline)'
    BY <1>1 DEF Queues, OneCommandEach, NoDuplicates
  <1>7. \A i \in 1..Len(pipe'), j \in 1..Len(offline') :
             pipe'[i].by \in Request => pipe'[i].by # offline'[j].by
    BY <1>1 DEF Queues, OneCommandEach
  <1>8. \A x \in Request \cap rejected' :
             pc'[x] \in {"reading", "burning", "compensating"}
    <2>1. \A x \in Request \cap rejected : x # Head(pipe).by
      BY <1>1 DEF Queues, OneCommandEach, OwnCommand
    <2>2. pipe[1] \in Command
      BY <1>1 DEF TypeOK
    <2>3. Head(pipe).by \in Request => pc[Head(pipe).by] \in {"reading", "burning", "compensating"}
      BY <1>1, <2>2, CallerAssumption DEF Queues, OneCommandEach, OwnCommand, Awaiting, Command
    <2> QED
      BY <1>3, <2>1, <2>3 DEF Queues, OneCommandEach
  <1>9. SetIsFirst' /\ \A i \in 1..Len(pipe') : pipe'[i].op # "SET"
    BY <1>1 DEF Queues, SetIsFirst
  <1> QED
    BY <1>4, <1>5, <1>6, <1>7, <1>8, <1>9 DEF Queues, OneCommandEach

\* The three ways a burn leaves memStore to decide.
LEMMA BurnWithoutRedisQueues ==
    ASSUME TypeOK, Queues, NEW r \in Request, NEW alreadySpent,
           BurnWithoutRedis(r, alreadySpent),
           \A i \in 1..Len(pipe) : pipe[i].by # r,
           \A i \in 1..Len(offline) : offline[i].by # r,
           rejected' = rejected \ {r}
    PROVE  Queues'
  <1>1. CASE alreadySpent
    <2>1. pc' = [pc EXCEPT ![r] = "refused"] /\ UNCHANGED <<pipe, offline>>
      BY <1>1 DEF BurnWithoutRedis, RefuseReplay
    <2> QED
      BY <2>1, StepWithoutCommand
  <1>2. CASE ~alreadySpent /\ memExp # 0
    <2>1. pc' = [pc EXCEPT ![r] = "compensating"] /\ Send(Cmd("DEL", r))
      BY <1>2 DEF BurnWithoutRedis, WinInMemory
    <2>2. "DEL" \in {"GET", "GETDEL", "DEL"} /\ Awaiting("DEL") = "compensating"
      BY DEF Awaiting
    <2> QED
      BY <2>1, <2>2, StepWithCommand
  <1>3. CASE ~alreadySpent /\ memExp = 0
    <2>1. /\ pc' = [pc EXCEPT ![r] = "refused"] \/ pc' = [pc EXCEPT ![r] = Verdict(r)]
          /\ UNCHANGED <<pipe, offline>>
      BY <1>3 DEF BurnWithoutRedis, Arbitrate
    <2> QED
      BY <2>1, StepWithoutCommand
  <1> QED
    BY <1>1, <1>2, <1>3

LEMMA StepQueues ==
    ASSUME IInv, NEW r \in Request, Step(r)
    PROVE  Queues'
  <1>1. TypeOK /\ Queues
    BY DEF IInv, Queues
  <1>2. r \in rejected =>
           /\ \A i \in 1..Len(pipe) : pipe[i].by # r
           /\ \A i \in 1..Len(offline) : offline[i].by # r
    BY <1>1, NoCommandOnceRejected DEF Queues
  <1>3. pc[r] \in {"idle", "read"} =>
           /\ \A i \in 1..Len(pipe) : pipe[i].by # r
           /\ \A i \in 1..Len(offline) : offline[i].by # r
           /\ rejected = rejected \ {r}
    BY <1>1, NoCommandUnlessWaiting DEF Queues
  <1>4. CASE Present(r)
    <2>1. pc[r] = "idle" /\ rejected' = rejected
      BY <1>4 DEF Present
    <2>2. CASE up
      <3>1. Send(Cmd("GET", r)) /\ pc' = [pc EXCEPT ![r] = "reading"]
        BY <1>4, <2>2 DEF Present, Send
      <3>2. "GET" \in {"GET", "GETDEL", "DEL"} /\ Awaiting("GET") = "reading"
        BY DEF Awaiting
      <3> QED
        BY <1>1, <1>3, <2>1, <3>1, <3>2, StepWithCommand
    <2>3. CASE ~up
      <3>1. /\ pc' = [pc EXCEPT ![r] = IF FALSE \/ MemReadable THEN "read" ELSE "refused"]
            /\ UNCHANGED <<pipe, offline>>
        BY <1>4, <2>3 DEF Present, ReadReturns
      <3> QED
        BY <1>1, <1>3, <2>1, <3>1, StepWithoutCommand
    <2> QED
      BY <2>2, <2>3
  <1>5. CASE RejectGet(r)
    <2>1. /\ pc' = [pc EXCEPT ![r] = IF FALSE \/ MemReadable THEN "read" ELSE "refused"]
          /\ r \in rejected /\ rejected' = rejected \ {r}
          /\ UNCHANGED <<pipe, offline>>
      BY <1>5 DEF RejectGet, ReadReturns
    <2> QED
      BY <1>1, <1>2, <2>1, StepWithoutCommand
  <1>6. CASE RefuseLocked(r)
    <2>1. /\ pc[r] = "read" /\ pc' = [pc EXCEPT ![r] = "refused"]
          /\ rejected' = rejected /\ UNCHANGED <<pipe, offline>>
      BY <1>6 DEF RefuseLocked
    <2> QED
      BY <1>1, <1>3, <2>1, StepWithoutCommand
  <1>7. CASE Burn(r)
    <2>1. pc[r] = "read" /\ rejected' = rejected
      BY <1>7 DEF Burn
    <2>2. CASE up
      <3>1. Send(Cmd("GETDEL", r)) /\ pc' = [pc EXCEPT ![r] = "burning"]
        BY <1>7, <2>2 DEF Burn, Send
      <3>2. "GETDEL" \in {"GET", "GETDEL", "DEL"} /\ Awaiting("GETDEL") = "burning"
        BY DEF Awaiting
      <3> QED
        BY <1>1, <1>3, <2>1, <3>1, <3>2, StepWithCommand
    <2>3. CASE ~up
      <3>1. BurnWithoutRedis(r, spent)
        BY <1>7, <2>3 DEF Burn
      <3> QED
        BY <1>1, <1>3, <2>1, <3>1, BurnWithoutRedisQueues
    <2> QED
      BY <2>2, <2>3
  <1>8. CASE RejectGetdel(r)
    <2>1. /\ BurnWithoutRedis(r, already[r])
          /\ r \in rejected /\ rejected' = rejected \ {r}
      BY <1>8 DEF RejectGetdel
    <2> QED
      BY <1>1, <1>2, <2>1, BurnWithoutRedisQueues
  <1>9. CASE RejectDel(r)
    <2>1. /\ pc' = [pc EXCEPT ![r] = Verdict(r)]
          /\ r \in rejected /\ rejected' = rejected \ {r}
          /\ UNCHANGED <<pipe, offline>>
      BY <1>9 DEF RejectDel
    <2> QED
      BY <1>1, <1>2, <2>1, StepWithoutCommand
  <1> QED
    BY <1>4, <1>5, <1>6, <1>7, <1>8, <1>9 DEF Step

LEMMA ServeQueues ==
    ASSUME IInv, Serve
    PROVE  /\ Queues'
           /\ \A i \in 1..Len(pipe') : pipe'[i].op # "SET"
           /\ pipe # <<>> /\ Head(pipe) = pipe[1] /\ 1 \in 1..Len(pipe)
           /\ Head(pipe) \in Command
           /\ Head(pipe).by \in Request => pc[Head(pipe).by] = Awaiting(Head(pipe).op)
  <1>1. TypeOK /\ Queues
    BY DEF IInv, Queues
  <1>2. pipe # <<>> /\ pipe' = Tail(pipe) /\ UNCHANGED <<offline, rejected>>
    BY DEF Serve, ServeSet, ServeGet, ServeGetdel, ServeDel
  <1>3. \A x \in Request : x # Head(pipe).by => pc'[x] = pc[x]
    <2>1. CASE ServeSet
      BY <2>1 DEF ServeSet
    <2>2. CASE ServeGet
      BY <1>1, <2>2 DEF ServeGet, ReadReturns, TypeOK
    <2>3. CASE ServeGetdel
      BY <1>1, <2>3 DEF ServeGetdel, BurnWithRedis, RefuseReplay, Arbitrate, TypeOK
    <2>4. CASE ServeDel
      BY <1>1, <2>4 DEF ServeDel, TypeOK
    <2> QED
      BY <2>1, <2>2, <2>3, <2>4 DEF Serve
  <1>4. Head(pipe) = pipe[1] /\ 1 \in 1..Len(pipe) /\ Head(pipe) \in Command
    BY <1>1, <1>2, TailElements, TailTyped DEF TypeOK
  <1>5. Head(pipe).by \in Request => pc[Head(pipe).by] = Awaiting(Head(pipe).op)
    BY <1>1, <1>4 DEF Queues, OneCommandEach, OwnCommand
  <1>6. Queues' /\ \A i \in 1..Len(pipe') : pipe'[i].op # "SET"
    BY <1>1, <1>2, <1>3, StepHeadLeaves
  <1> QED
    BY <1>2, <1>4, <1>5, <1>6

LEMMA FailureQueues ==
    ASSUME IInv,
           (\E c \in Caller \ {Nobody} : Timeout(c)) \/ ServeError \/ Flap \/ Flush
    PROVE  Queues'
  <1>1. TypeOK /\ Queues
    BY DEF IInv, Queues
  <1>2. ASSUME NEW c \in Caller \ {Nobody}, Timeout(c)
        PROVE  Queues'
    <2>1. /\ pipe' = TimeoutIn(pipe, c) /\ offline' = TimeoutIn(offline, c)
          /\ rejected' = rejected \cup ({c} \ {Drain}) /\ pc' = pc
      BY <1>2 DEF Timeout
    <2>2. /\ Len(pipe') = Len(pipe) /\ Len(offline') = Len(offline)
          /\ \A i \in 1..Len(pipe) :
                /\ pipe'[i].op = pipe[i].op
                /\ pipe'[i].by = IF pipe[i].by = c THEN Nobody ELSE pipe[i].by
          /\ \A i \in 1..Len(offline) :
                /\ offline'[i].op = offline[i].op
                /\ offline'[i].by = IF offline[i].by = c THEN Nobody ELSE offline[i].by
      BY <1>1, <2>1, TimeoutElements DEF TypeOK
    <2>3. OwnCommand(pipe)' /\ OwnCommand(offline)'
      BY <1>1, <2>1, <2>2, CallerAssumption, SMTT(30)
         DEF Queues, OneCommandEach, OwnCommand
    <2>4. NoDuplicates(pipe)' /\ NoDuplicates(offline)'
      BY <1>1, <2>2, CallerAssumption, SMTT(30)
         DEF Queues, OneCommandEach, NoDuplicates
    <2>5. \A i \in 1..Len(pipe'), j \in 1..Len(offline') :
             pipe'[i].by \in Request => pipe'[i].by # offline'[j].by
      BY <1>1, <2>2, CallerAssumption DEF Queues, OneCommandEach
    <2>6. c \in Request => pc[c] \in {"reading", "burning", "compensating"}
      <3>1. \/ \E i \in 1..Len(pipe) : pipe[i].by = c
            \/ \E i \in 1..Len(offline) : offline[i].by = c
        BY <1>1, <1>2, ConcatElements DEF Timeout, TypeOK
      <3> QED
        BY <1>1, <3>1, NoCommandUnlessWaiting DEF Queues
    <2>7. \A x \in Request \cap rejected' :
             pc'[x] \in {"reading", "burning", "compensating"}
      BY <1>1, <2>1, <2>6 DEF Queues, OneCommandEach
    <2>8. SetIsFirst'
      BY <1>1, <2>2 DEF Queues, SetIsFirst
    <2> QED
      BY <2>3, <2>4, <2>5, <2>7, <2>8 DEF Queues, OneCommandEach
  <1>3. CASE ServeError
    <2>1. /\ pipe # <<>> /\ pipe' = Tail(pipe) /\ UNCHANGED offline /\ pc' = pc
          /\ rejected' = rejected \cup Callers(<<Head(pipe)>>)
      BY <1>3 DEF ServeError
    <2> QED
      BY <1>1, <2>1, StepHeadLeaves
  <1>4. CASE Flap
    BY <1>1, <1>4 DEF Flap, Queues, OneCommandEach, OwnCommand, NoDuplicates, SetIsFirst
  <1>5. CASE Flush
    <2>1. \A x \in Request \cap Callers(pipe \o offline) :
             pc[x] \in {"reading", "burning", "compensating"}
      <3>1. \A x \in Callers(pipe \o offline) :
               \/ \E i \in 1..Len(pipe) : pipe[i].by = x
               \/ \E i \in 1..Len(offline) : offline[i].by = x
        BY <1>1, ConcatElements DEF TypeOK, Callers
      <3> QED
        BY <1>1, <3>1, NoCommandUnlessWaiting DEF Queues
    <2>2. \A x \in Callers(offline) : \E i \in 1..Len(offline) : offline[i].by = x
      BY <1>1 DEF TypeOK, Callers
    <2>3. \A x \in Request \cap Callers(offline) :
             pc[x] \in {"reading", "burning", "compensating"}
      BY <1>1, <2>2, NoCommandUnlessWaiting DEF Queues
    <2>4. offline' = <<>> /\ Len(offline') = 0 /\ pc' = pc
      BY <1>5 DEF Flush
    <2>5. CASE pipe' = <<>> /\ rejected' = rejected \cup Callers(pipe \o offline)
      BY <1>1, <2>1, <2>4, <2>5
         DEF Queues, OneCommandEach, OwnCommand, NoDuplicates, SetIsFirst
    <2>6. CASE pipe' = pipe /\ rejected' = rejected \cup Callers(offline)
      <3>1. OwnCommand(pipe)'
        BY <1>1, <2>2, <2>4, <2>6 DEF Queues, OneCommandEach, OwnCommand
      <3> QED
        BY <1>1, <2>3, <2>4, <2>6, <3>1
           DEF Queues, OneCommandEach, OwnCommand, NoDuplicates, SetIsFirst
    <2> QED
      BY <1>5, <2>5, <2>6 DEF Flush
  <1> QED
    BY <1>2, <1>3, <1>4, <1>5

\* The drain adds nobody's command but its own.
LEMMA DrainElements ==
    ASSUME NEW p \in Seq(Command), NEW q,
           q = p \o DrainQueue \/ q = p \o <<>> \/ q = p
    PROVE  \A i \in 1..Len(q) :
              \/ i \in 1..Len(p) /\ q[i] = p[i]
              \/ i = Len(p) + 1 /\ q[i] = Cmd("DEL", Drain)
  <1>1. <<>> \in Seq(Command) /\ Len(<<>>) = 0
    BY EmptyTyped
  <1>2. CASE q = p \o <<>> \/ q = p
    BY <1>1, <1>2, ConcatElements
  <1>3. CASE q = p \o <<Cmd("DEL", Drain)>>
    <2>1. Cmd("DEL", Drain) \in Command
      BY DEF Cmd, Command
    <2>2. <<Cmd("DEL", Drain)>> \in Seq(Command) /\ Len(<<Cmd("DEL", Drain)>>) = 1
          /\ <<Cmd("DEL", Drain)>>[1] = Cmd("DEL", Drain)
      BY <2>1
    <2> QED
      BY <1>3, <2>2, ConcatElements
  <1> QED
    BY <1>2, <1>3 DEF DrainQueue

LEMMA BackgroundQueues ==
    ASSUME IInv,
           Issue \/ RejectSet \/ Reconnect \/ CleanupTick \/ Restart
           \/ AdvanceClock \/ CalmDown
    PROVE  Queues'
  <1>1. TypeOK /\ Queues
    BY DEF IInv, Queues
  <1>2. Cmd("DEL", Drain).by \notin Request /\ Cmd("DEL", Drain).op = "DEL"
    BY CallerAssumption DEF Cmd
  <1>3. CASE Issue
    <2>1. pipe = <<>> /\ offline' = <<>> /\ pc' = pc /\ rejected' = rejected
      BY <1>3 DEF Issue, IInv, NotBeforeIssued, requestVars
    <2>2. Len(offline') = 0
      BY <2>1
    <2>3. Cmd("SET", Issuer) \in Command /\ Cmd("SET", Issuer).by \notin Request
      BY CallerAssumption DEF Cmd, Command
    <2>4. pipe' = pipe \/ pipe' = Append(pipe, Cmd("SET", Issuer))
      BY <1>3 DEF Issue
    <2>5. Len(pipe) = 0
      BY <2>1
    <2>6. \A i \in 1..Len(pipe') : i = 1 /\ pipe'[i].by \notin Request
      <3>1. CASE pipe' = pipe
        BY <2>5, <3>1
      <3>2. CASE pipe' = Append(pipe, Cmd("SET", Issuer))
        <4>1. Len(pipe') = 1 /\ pipe'[1] = Cmd("SET", Issuer)
          BY <1>1, <2>3, <2>5, <3>2, AppendElements DEF TypeOK
        <4> QED
          BY <2>3, <4>1
      <3> QED
        BY <2>4, <3>1, <3>2
    <2> QED
      BY <1>1, <2>1, <2>2, <2>6
         DEF Queues, OneCommandEach, OwnCommand, NoDuplicates, SetIsFirst
  <1>4. CASE RejectSet
    <2>1. UNCHANGED <<pipe, offline, pc>> /\ rejected' \subseteq rejected
      BY <1>4 DEF RejectSet, clientVars, requestVars
    <2> QED
      BY <1>1, <2>1 DEF Queues, OneCommandEach, OwnCommand, NoDuplicates, SetIsFirst
  <1>5. CASE Reconnect
    <2> DEFINE p == pipe \o offline
    <2>1. /\ offline' = <<>> /\ Len(offline') = 0
          /\ pc' = pc /\ rejected' = rejected
          /\ \/ pipe' = p \o DrainQueue
             \/ pipe' = p \o <<>>
      BY <1>5 DEF Reconnect, requestVars
    <2>2. p \in Seq(Command)
      BY <1>1, ConcatTyped DEF TypeOK
    <2>3. Len(pipe) \in Nat /\ Len(offline) \in Nat /\ Len(p) = Len(pipe) + Len(offline)
      BY <1>1 DEF TypeOK
    <2>4. \A i \in 1..Len(p) :
             \/ i \in 1..Len(pipe) /\ p[i] = pipe[i]
             \/ /\ i \notin 1..Len(pipe) /\ i - Len(pipe) \in 1..Len(offline)
                /\ p[i] = offline[i - Len(pipe)]
      BY <1>1, ConcatElements DEF TypeOK
    <2>5. \A i \in 1..Len(pipe') :
             \/ i \in 1..Len(p) /\ pipe'[i] = p[i]
             \/ i = Len(p) + 1 /\ pipe'[i] = Cmd("DEL", Drain)
      BY <2>1, <2>2, DrainElements
    <2> HIDE DEF p
    <2>6. OwnCommand(pipe)'
      BY <1>1, <1>2, <2>1, <2>4, <2>5, SMTT(30)
         DEF Queues, OneCommandEach, OwnCommand
    <2>7. NoDuplicates(pipe)'
      <3>1. ASSUME NEW i \in 1..Len(p), NEW j \in 1..Len(p),
                   p[i].by \in Request, p[i].by = p[j].by
            PROVE  i = j
        <4>1. CASE i \in 1..Len(pipe) /\ j \in 1..Len(pipe)
          BY <1>1, <2>4, <3>1, <4>1 DEF Queues, OneCommandEach, NoDuplicates
        <4>2. CASE i \notin 1..Len(pipe) /\ j \notin 1..Len(pipe)
          <5>1. i - Len(pipe) = j - Len(pipe)
            BY <1>1, <2>4, <3>1, <4>2 DEF Queues, OneCommandEach, NoDuplicates
          <5> QED
            BY <2>3, <5>1
        <4> QED
          BY <1>1, <2>4, <3>1, <4>1, <4>2 DEF Queues, OneCommandEach
      <3> QED
        BY <1>2, <2>5, <3>1 DEF NoDuplicates, Cmd
    <2>8. SetIsFirst'
      <3>1. \A i \in 1..Len(p) : p[i].op = "SET" => i = 1
        BY <1>1, <2>4 DEF Queues, SetIsFirst
      <3>2. \A i \in 1..Len(pipe') : pipe'[i].op = "SET" => i = 1
        BY <2>5, <3>1 DEF Cmd
      <3> QED
        BY <2>1, <3>2 DEF SetIsFirst
    <2> QED
      BY <1>1, <2>1, <2>6, <2>7, <2>8
         DEF Queues, OneCommandEach, OwnCommand, NoDuplicates
  <1>6. CASE CleanupTick
    <2>1. /\ UNCHANGED <<offline, pc, rejected>>
          /\ pipe' = pipe \o DrainQueue \/ pipe' = pipe
      BY <1>6 DEF CleanupTick, requestVars
    <2>2. \A i \in 1..Len(pipe') :
             (i \in 1..Len(pipe) /\ pipe'[i] = pipe[i]) \/ pipe'[i] = Cmd("DEL", Drain)
      BY <1>1, <2>1, DrainElements DEF TypeOK
    <2>3. OwnCommand(pipe)' /\ OwnCommand(offline)'
      BY <1>1, <1>2, <2>1, <2>2 DEF Queues, OneCommandEach, OwnCommand
    <2>4. NoDuplicates(pipe)' /\ NoDuplicates(offline)'
      BY <1>1, <1>2, <2>1, <2>2 DEF Queues, OneCommandEach, NoDuplicates
    <2>5. SetIsFirst'
      BY <1>1, <1>2, <2>1, <2>2 DEF Queues, SetIsFirst
    <2> QED
      BY <1>1, <1>2, <2>1, <2>2, <2>3, <2>4, <2>5 DEF Queues, OneCommandEach
  <1>7. CASE Restart
    BY <1>7 DEF Restart, Queues, OneCommandEach, OwnCommand, NoDuplicates, SetIsFirst
  <1>8. CASE AdvanceClock
    BY <1>1, <1>8 DEF AdvanceClock, clientVars, requestVars, Queues,
          OneCommandEach, OwnCommand, NoDuplicates, SetIsFirst
  <1>9. CASE CalmDown
    BY <1>1, <1>9 DEF CalmDown, clientVars, requestVars, Queues,
          OneCommandEach, OwnCommand, NoDuplicates, SetIsFirst
  <1> QED
    BY <1>3, <1>4, <1>5, <1>6, <1>7, <1>8, <1>9

(***************************************************************************)
(* The state part of the invariant, one lemma per kind of step.            *)
(***************************************************************************)

Tokens == IssuerAwaits /\ NotBeforeIssued /\ ProcessLocal /\ SampleIsCurrent
          /\ BackupKept /\ ReopenedOnce /\ SingleUse /\ LedgerGuards
          /\ LockExclusion /\ NoSpuriousRefusal

\* A command but the SET sent to a queue changes nothing about the issuer or
\* the canonical copy.
LEMMA SendKeeps ==
    ASSUME TypeOK, NEW r \in Request, NEW op \in {"GET", "GETDEL", "DEL"},
           Send(Cmd(op, r)), IssuerAwaits, phase' = phase, rejected' \subseteq rejected,
           rExp' = rExp
    PROVE  IssuerAwaits' /\ (Canonical' => Canonical)
  <1>1. Cmd(op, r) \in Command /\ Cmd(op, r).by # Issuer /\ Cmd(op, r).op # "SET"
    BY CallerAssumption DEF Cmd, Command
  <1>2. CASE up
    <2>1. /\ Len(pipe') = Len(pipe) + 1 /\ Len(pipe) \in Nat
          /\ \A i \in 1..Len(pipe) : pipe'[i] = pipe[i]
          /\ pipe'[Len(pipe) + 1] = Cmd(op, r)
      BY <1>1, <1>2, AppendElements, SMTT(30) DEF TypeOK, Send
    <2> QED
      BY <1>1, <2>1, SMTT(30) DEF IssuerAwaits, Canonical
  <1>3. CASE ~up
    <2>1. pipe' = pipe
      BY <1>3 DEF Send
    <2> QED
      BY <2>1 DEF IssuerAwaits, Canonical
  <1> QED
    BY <1>2, <1>3

\* The conjuncts that speak of pipe and rExp, when neither changes.
LEMMA NothingSent ==
    ASSUME IssuerAwaits, UNCHANGED <<pipe, rExp>>, phase' = phase,
           rejected' \subseteq rejected
    PROVE  IssuerAwaits' /\ (Canonical' => Canonical)
  BY DEF IssuerAwaits, Canonical

LEMMA BurnWithoutRedisTokens ==
    ASSUME IInv, NEW r \in Request, NEW alreadySpent \in BOOLEAN,
           BurnWithoutRedis(r, alreadySpent),
           \A x \in Request : x # r => pc[x] \notin {"burning", "compensating"},
           pc[r] \in {"read", "burning"},
           alreadySpent => burns > 0, ~alreadySpent => ~spent,
           UNCHANGED <<now, phase, rExp, exposed>>, rejected' \subseteq rejected,
           \A x \in Request : x # r => already'[x] = already[x]
    PROVE  Tokens'
  <1>1. phase \in {"issued", "inherited"} /\ burns \in Nat /\ TTL \in Nat \ {0}
    BY TtlAssumption DEF IInv, TypeOK, NotBeforeIssued, Phase
  <1>2. CASE alreadySpent
    <2>1. /\ memExp' = 0 /\ inFlight' = FALSE /\ UNCHANGED <<pipe, burns, spent>>
          /\ pc' = [pc EXCEPT ![r] = "refused"]
      BY <1>2 DEF BurnWithoutRedis, RefuseReplay, clientVars
    <2>2. pc'[r] = "refused" /\ \A x \in Request : x # r => pc'[x] = pc[x]
      BY <2>1 DEF IInv, TypeOK
    <2>3. IssuerAwaits' /\ (Canonical' => Canonical)
      BY <2>1, NothingSent DEF IInv
    <2>4. burns > 0
      BY <1>2
    <2>5. NotBeforeIssued' /\ ProcessLocal' /\ BackupKept' /\ NoSpuriousRefusal'
      BY <1>1, <2>1, <2>4 DEF IInv, NotBeforeIssued, ProcessLocal, BackupKept,
                              NoSpuriousRefusal
    <2>6. SampleIsCurrent' /\ LockExclusion'
      BY <2>1, <2>2 DEF SampleIsCurrent, LockExclusion
    <2>7. ReopenedOnce' /\ SingleUse' /\ LedgerGuards'
      BY <2>1, <2>3 DEF IInv, ReopenedOnce, SingleUse, LedgerGuards
    <2> QED
      BY <2>3, <2>5, <2>6, <2>7 DEF Tokens
  <1>3. CASE ~alreadySpent /\ memExp # 0
    <2>1. burns = 0 /\ phase = "issued" /\ ~exposed
      BY <1>1, <1>3 DEF IInv, ProcessLocal
    <2>2. /\ memExp' = 0 /\ inFlight' = TRUE /\ spent' = TRUE /\ burns' = 1
          /\ pc' = [pc EXCEPT ![r] = "compensating"]
          /\ Send(Cmd("DEL", r))
      BY <1>3, <2>1 DEF BurnWithoutRedis, WinInMemory
    <2>3. pc'[r] = "compensating" /\ \A x \in Request : x # r => pc'[x] = pc[x]
      BY <2>2 DEF IInv, TypeOK
    <2>4. IssuerAwaits'
      BY <2>2, SendKeeps DEF IInv
    <2>5. NotBeforeIssued' /\ ProcessLocal' /\ BackupKept' /\ NoSpuriousRefusal'
      BY <2>1, <2>2 DEF IInv, NotBeforeIssued, ProcessLocal, BackupKept,
                        NoSpuriousRefusal
    <2>6. SampleIsCurrent'
      BY <2>2, <2>3 DEF SampleIsCurrent
    <2>7. LockExclusion'
      BY <2>2, <2>3 DEF LockExclusion
    <2>8. ReopenedOnce' /\ SingleUse' /\ LedgerGuards'
      BY <2>2 DEF ReopenedOnce, SingleUse, LedgerGuards
    <2> QED
      BY <2>4, <2>5, <2>6, <2>7, <2>8 DEF Tokens
  <1>4. CASE ~alreadySpent /\ memExp = 0
    <2>1. /\ memExp' = memExp /\ inFlight' = FALSE /\ UNCHANGED <<pipe, burns, spent>>
          /\ pc' = [pc EXCEPT ![r] = "refused"]
      BY <1>4 DEF BurnWithoutRedis, Arbitrate, clientVars
    <2>2. pc'[r] = "refused" /\ \A x \in Request : x # r => pc'[x] = pc[x]
      BY <2>1 DEF IInv, TypeOK
    <2>3. IssuerAwaits' /\ (Canonical' => Canonical)
      BY <2>1, NothingSent DEF IInv
    <2>4. burns > 0 \/ now >= TTL \/ phase = "inherited"
      <3>1. now \in Nat
        BY BoundAssumption DEF IInv, TypeOK
      <3> QED
        BY <1>1, <1>4, <3>1 DEF IInv, BackupKept
    <2>5. NotBeforeIssued' /\ ProcessLocal' /\ BackupKept' /\ NoSpuriousRefusal'
      BY <1>1, <2>1, <2>4 DEF IInv, NotBeforeIssued, ProcessLocal, BackupKept,
                              NoSpuriousRefusal
    <2>6. SampleIsCurrent' /\ LockExclusion'
      BY <2>1, <2>2 DEF SampleIsCurrent, LockExclusion
    <2>7. ReopenedOnce' /\ SingleUse' /\ LedgerGuards'
      BY <2>1, <2>3 DEF IInv, ReopenedOnce, SingleUse, LedgerGuards
    <2> QED
      BY <2>3, <2>5, <2>6, <2>7 DEF Tokens
  <1> QED
    BY <1>2, <1>3, <1>4

\* A step that leaves the burn machinery alone: r, outside the lock, moves
\* outside the lock, and is refused only for a reason.
LEMMA OutsideTheLock ==
    ASSUME IInv, NEW r \in Request, NEW s \in {"reading", "read", "refused"},
           pc[r] \in {"idle", "reading", "read"}, pc' = [pc EXCEPT ![r] = s],
           s = "refused" => burns > 0 \/ inFlight \/ now >= TTL \/ phase = "inherited",
           phase \in {"issued", "inherited"},
           UNCHANGED <<now, phase, memExp, rExp, inFlight, spent, burns, exposed, already>>,
           IssuerAwaits', Canonical' => Canonical
    PROVE  Tokens'
  <1>1. pc'[r] = s /\ \A x \in Request : x # r => pc'[x] = pc[x]
    BY DEF IInv, TypeOK
  <1>2. NotBeforeIssued' /\ ProcessLocal' /\ BackupKept'
    BY DEF IInv, NotBeforeIssued, ProcessLocal, BackupKept
  <1>3. NoSpuriousRefusal'
    BY <1>1 DEF IInv, NoSpuriousRefusal
  <1>4. SampleIsCurrent' /\ LockExclusion'
    BY <1>1 DEF IInv, SampleIsCurrent, LockExclusion
  <1>5. ReopenedOnce' /\ SingleUse' /\ LedgerGuards'
    BY DEF IInv, ReopenedOnce, SingleUse, LedgerGuards
  <1> QED
    BY <1>2, <1>3, <1>4, <1>5 DEF Tokens

\* memStore answers a read that Redis could not, until the proof has lapsed.
LEMMA MissHasAReason ==
    ASSUME IInv, phase \in {"issued", "inherited"}, ~MemReadable
    PROVE  burns > 0 \/ inFlight \/ now >= TTL \/ phase = "inherited"
  <1>1. now \in Nat /\ TTL \in Nat /\ burns \in Nat
    BY BoundAssumption, TtlAssumption DEF IInv, TypeOK
  <1> QED
    BY <1>1 DEF IInv, BackupKept, MemReadable

\* Whoever has read the proof, or awaits a command, does so after issuance.
LEMMA OnceReturned ==
    ASSUME IInv, NEW r \in Request, pc[r] # "idle"
    PROVE  phase \in {"issued", "inherited"}
  BY DEF IInv, TypeOK, NotBeforeIssued, Phase

LEMMA StepTokens ==
    ASSUME IInv, NEW r \in Request, Step(r)
    PROVE  Tokens'
  <1>1. CASE Present(r)
    <2>1. /\ pc[r] = "idle" /\ phase \in {"issued", "inherited"}
          /\ UNCHANGED <<now, phase, memExp, rExp, rejected, inFlight, spent,
                         burns, exposed, already>>
      BY <1>1 DEF Present, storeVars, ledgerVars, historyVars
    <2>2. CASE up
      <3>1. Send(Cmd("GET", r)) /\ pc' = [pc EXCEPT ![r] = "reading"]
        BY <1>1, <2>2 DEF Present, Send
      <3>2. IssuerAwaits' /\ (Canonical' => Canonical)
        BY <2>1, <3>1, SendKeeps DEF IInv
      <3> QED
        BY <2>1, <3>1, <3>2, OutsideTheLock
    <2>3. CASE ~up
      <3>1. /\ pc' = [pc EXCEPT ![r] = IF MemReadable THEN "read" ELSE "refused"]
            /\ pipe' = pipe
        BY <1>1, <2>3 DEF Present, ReadReturns
      <3>2. IssuerAwaits' /\ (Canonical' => Canonical)
        BY <2>1, <3>1, NothingSent DEF IInv
      <3> QED
        BY <2>1, <3>1, <3>2, OutsideTheLock, MissHasAReason
    <2> QED
      BY <2>2, <2>3
  <1>2. CASE RejectGet(r)
    <2>1. /\ pc[r] = "reading" /\ rejected' \subseteq rejected
          /\ UNCHANGED <<now, phase, memExp, rExp, pipe, inFlight, spent,
                         burns, exposed, already>>
          /\ pc' = [pc EXCEPT ![r] = IF MemReadable THEN "read" ELSE "refused"]
      BY <1>2 DEF RejectGet, ReadReturns, storeVars, clientVars, ledgerVars, historyVars
    <2>2. IssuerAwaits' /\ (Canonical' => Canonical)
      BY <2>1, NothingSent DEF IInv
    <2> QED
      BY <2>1, <2>2, OutsideTheLock, MissHasAReason, OnceReturned
  <1>3. CASE RefuseLocked(r)
    <2>1. /\ pc[r] = "read" /\ inFlight /\ pc' = [pc EXCEPT ![r] = "refused"]
          /\ UNCHANGED <<now, phase, memExp, rExp, pipe, rejected, inFlight,
                         spent, burns, exposed, already>>
      BY <1>3 DEF RefuseLocked, storeVars, clientVars, ledgerVars, historyVars
    <2>2. IssuerAwaits' /\ (Canonical' => Canonical)
      BY <2>1, NothingSent DEF IInv
    <2> QED
      BY <2>1, <2>2, OutsideTheLock, OnceReturned
  <1>4. CASE Burn(r)
    <2>1. /\ pc[r] = "read" /\ ~inFlight
          /\ UNCHANGED <<now, phase, rExp, rejected, exposed>>
          /\ already' = [already EXCEPT ![r] = spent]
      BY <1>4 DEF Burn
    <2>2. \A x \in Request : pc[x] \notin {"burning", "compensating"}
      BY <2>1 DEF IInv, LockExclusion
    <2>3. already'[r] = spent /\ \A x \in Request : x # r => already'[x] = already[x]
      BY <2>1 DEF IInv, TypeOK
    <2>4. spent => burns > 0
      BY DEF IInv, ProcessLocal
    <2>5. CASE up
      <3>1. /\ Send(Cmd("GETDEL", r)) /\ inFlight' = TRUE
            /\ pc' = [pc EXCEPT ![r] = "burning"]
            /\ UNCHANGED <<memExp, spent, burns>>
        BY <1>4, <2>5 DEF Burn, Send
      <3>2. IssuerAwaits' /\ (Canonical' => Canonical)
        BY <2>1, <3>1, SendKeeps DEF IInv
      <3>3. pc'[r] = "burning" /\ \A x \in Request : x # r => pc'[x] = pc[x]
        BY <3>1 DEF IInv, TypeOK
      <3>4. NotBeforeIssued' /\ ProcessLocal' /\ BackupKept'
        BY <2>1, <3>1, OnceReturned
           DEF IInv, NotBeforeIssued, ProcessLocal, BackupKept
      <3>5. NoSpuriousRefusal'
        BY <3>1 DEF NoSpuriousRefusal
      <3>6. SampleIsCurrent' /\ LockExclusion'
        BY <2>2, <2>3, <2>4, <3>1, <3>3 DEF SampleIsCurrent, LockExclusion
      <3>7. ReopenedOnce' /\ SingleUse' /\ LedgerGuards'
        BY <2>1, <3>1, <3>2 DEF IInv, ReopenedOnce, SingleUse, LedgerGuards
      <3> QED
        BY <3>2, <3>4, <3>5, <3>6, <3>7 DEF Tokens
    <2>6. CASE ~up
      <3>1. BurnWithoutRedis(r, spent)
        BY <1>4, <2>6 DEF Burn
      <3>2. spent \in BOOLEAN
        BY DEF IInv, TypeOK
      <3> QED
        BY <2>1, <2>2, <2>3, <2>4, <3>1, <3>2, BurnWithoutRedisTokens
    <2> QED
      BY <2>5, <2>6
  <1>5. CASE RejectGetdel(r)
    <2>1. /\ pc[r] = "burning" /\ rejected' \subseteq rejected
          /\ UNCHANGED <<now, phase, rExp, already, exposed>>
          /\ BurnWithoutRedis(r, already[r])
      BY <1>5 DEF RejectGetdel
    <2>2. \A x \in Request : x # r => pc[x] \notin {"burning", "compensating"}
      BY <2>1 DEF IInv, LockExclusion
    <2>3. already[r] \in BOOLEAN
      BY DEF IInv, TypeOK
    <2>4. (already[r] => burns > 0) /\ (~already[r] => ~spent)
      BY <2>1 DEF IInv, SampleIsCurrent
    <2> QED
      BY <2>1, <2>2, <2>3, <2>4, BurnWithoutRedisTokens
  <1>6. CASE RejectDel(r)
    <2>1. /\ pc[r] = "compensating" /\ rejected' \subseteq rejected
          /\ inFlight' = FALSE /\ pc' = [pc EXCEPT ![r] = Verdict(r)]
          /\ UNCHANGED <<now, phase, memExp, rExp, pipe, spent, burns, exposed,
                         already>>
      BY <1>6 DEF RejectDel, storeVars, clientVars, historyVars
    <2>2. /\ pc'[r] \in {"mismatch", "authorised"}
          /\ \A x \in Request : x # r => pc'[x] = pc[x]
      BY <2>1 DEF IInv, TypeOK, Verdict
    <2>3. burns > 0
      BY <2>1 DEF IInv, SampleIsCurrent
    <2>4. IssuerAwaits' /\ (Canonical' => Canonical)
      BY <2>1, NothingSent DEF IInv
    <2>5. NotBeforeIssued' /\ ProcessLocal' /\ BackupKept' /\ NoSpuriousRefusal'
      BY <2>1, <2>3, OnceReturned DEF IInv, NotBeforeIssued, ProcessLocal,
                              BackupKept, NoSpuriousRefusal
    <2>6. SampleIsCurrent' /\ LockExclusion'
      BY <2>1, <2>2 DEF IInv, SampleIsCurrent, LockExclusion
    <2>7. ReopenedOnce' /\ SingleUse' /\ LedgerGuards'
      BY <2>1, <2>4 DEF IInv, ReopenedOnce, SingleUse, LedgerGuards
    <2> QED
      BY <2>4, <2>5, <2>6, <2>7 DEF Tokens
  <1> QED
    BY <1>1, <1>2, <1>3, <1>4, <1>5, <1>6 DEF Step

LEMMA ServeTokens ==
    ASSUME IInv, Serve
    PROVE  Tokens'
  <1> DEFINE r == Head(pipe).by
  <1>1. /\ \A i \in 1..Len(pipe') : pipe'[i].op # "SET"
        /\ pipe # <<>> /\ r = pipe[1].by /\ 1 \in 1..Len(pipe)
        /\ Head(pipe) \in Command /\ Head(pipe) = pipe[1]
        /\ r \in Request => pc[r] = Awaiting(Head(pipe).op)
    BY ServeQueues
  <1>2. TypeOK /\ rejected' = rejected /\ UNCHANGED <<now, exposed, already>>
    BY DEF IInv, Serve, ServeSet, ServeGet, ServeGetdel, ServeDel,
           requestVars, historyVars
  <1>3. \A i \in 1..Len(pipe') : pipe'[i].by # Issuer
    <2>1. pipe' = Tail(pipe)
      BY DEF Serve, ServeSet, ServeGet, ServeGetdel, ServeDel
    <2>2. \A i \in 1..Len(pipe') : pipe'[i] \in Command
      BY <1>1, <1>2, <2>1, TailTyped DEF TypeOK
    <2> QED
      BY <1>1, <2>2, CallerAssumption DEF Command
  <1>4. Canonical' => rExp' # 0
    BY <1>1 DEF Canonical
  <1>5. phase' = phase => IssuerAwaits'
    BY <1>2, <1>3 DEF IInv, IssuerAwaits
  <1>6. r \in Request => phase \in {"issued", "inherited"}
    BY <1>1, OnceReturned DEF Awaiting
  <1>7. CASE ServeSet
    <2>1. /\ Head(pipe).op = "SET" /\ phase' = IF r = Issuer THEN "issued" ELSE phase
          /\ UNCHANGED <<memExp, inFlight, spent, pc, burns>>
      BY <1>7 DEF ServeSet, ledgerVars, requestVars, historyVars
    <2>2. r = Issuer => phase = "setting" /\ Issuer \notin rejected
      BY <1>1 DEF IInv, IssuerAwaits
    <2>3. Canonical
      BY <1>1, <2>1 DEF Canonical
    <2>4. phase' \in {"issued", phase} /\ (phase' # phase => phase = "setting")
      BY <2>1, <2>2
    <2>5. IssuerAwaits'
      BY <1>2, <1>3, <1>5, <2>1, <2>2 DEF IssuerAwaits
    <2>6. phase # "none"
      BY <1>1 DEF IInv, NotBeforeIssued
    <2>7. NotBeforeIssued' /\ ProcessLocal' /\ BackupKept' /\ NoSpuriousRefusal'
      BY <1>2, <2>1, <2>4, <2>6 DEF IInv, NotBeforeIssued, ProcessLocal,
                                    BackupKept, NoSpuriousRefusal
    <2>8. SampleIsCurrent' /\ LockExclusion'
      BY <1>2, <2>1 DEF IInv, SampleIsCurrent, LockExclusion
    <2>9. ReopenedOnce' /\ SingleUse' /\ LedgerGuards'
      BY <1>2, <2>1, <2>3 DEF IInv, ReopenedOnce, SingleUse, LedgerGuards
    <2> QED
      BY <2>5, <2>7, <2>8, <2>9 DEF Tokens
  <1>8. CASE ServeGet
    <2>1. /\ Head(pipe).op = "GET"
          /\ UNCHANGED <<phase, memExp, rExp, inFlight, spent, burns>>
          /\ r = Nobody => pc' = pc
          /\ r # Nobody => pc' = [pc EXCEPT ![r] =
                                    IF Readable \/ MemReadable THEN "read" ELSE "refused"]
      BY <1>8 DEF ServeGet, ReadReturns, storeVars, ledgerVars, historyVars
    <2>2. rExp \in Nat /\ now \in Nat
      BY <1>2, BoundAssumption, TtlAssumption DEF TypeOK
    <2>3. IssuerAwaits' /\ (Canonical' => Canonical)
      BY <1>4, <1>5, <2>1 DEF Canonical
    <2>4. CASE r = Nobody
      <3>1. NotBeforeIssued' /\ ProcessLocal' /\ BackupKept' /\ NoSpuriousRefusal'
        <4>1. phase # "none"
          BY <1>1 DEF IInv, NotBeforeIssued
        <4> QED
          BY <1>2, <2>1, <2>4, <4>1 DEF IInv, NotBeforeIssued, ProcessLocal,
                                        BackupKept, NoSpuriousRefusal
      <3>2. SampleIsCurrent' /\ LockExclusion'
        BY <1>2, <2>1, <2>4 DEF IInv, SampleIsCurrent, LockExclusion
      <3>3. ReopenedOnce' /\ SingleUse' /\ LedgerGuards'
        BY <1>2, <2>1, <2>3 DEF IInv, ReopenedOnce, SingleUse, LedgerGuards
      <3> QED
        BY <2>3, <3>1, <3>2, <3>3 DEF Tokens
    <2>5. CASE r # Nobody
      <3>1. r \in Request
        BY <1>1, <2>1, <2>5 DEF Command
      <3>2. pc[r] = "reading"
        BY <1>1, <2>1, <3>1 DEF Awaiting
      <3> QED
        BY <1>2, <1>6, <2>1, <2>3, <2>5, <3>1, <3>2, OutsideTheLock, MissHasAReason
    <2> QED
      BY <2>4, <2>5
  <1>9. CASE ServeGetdel
    <2>1. Head(pipe).op = "GETDEL" /\ rExp' = 0 /\ phase' = phase
      BY <1>9 DEF ServeGetdel
    <2>2. ~Canonical' /\ IssuerAwaits'
      BY <1>4, <1>5, <2>1
    <2>3. phase # "none"
      BY <1>1 DEF IInv, NotBeforeIssued
    <2>4. CASE r = Nobody
      <3>1. UNCHANGED <<memExp, inFlight, spent, pc, burns>>
        BY <1>9, <2>4 DEF ServeGetdel, ledgerVars
      <3>2. NotBeforeIssued' /\ ProcessLocal' /\ BackupKept' /\ NoSpuriousRefusal'
        BY <1>2, <2>1, <2>3, <3>1 DEF IInv, NotBeforeIssued, ProcessLocal,
                                      BackupKept, NoSpuriousRefusal
      <3>3. SampleIsCurrent' /\ LockExclusion'
        BY <1>2, <3>1 DEF IInv, SampleIsCurrent, LockExclusion
      <3>4. ReopenedOnce' /\ SingleUse' /\ LedgerGuards'
        BY <1>2, <2>2, <3>1 DEF IInv, ReopenedOnce, SingleUse, LedgerGuards
      <3> QED
        BY <2>2, <3>2, <3>3, <3>4 DEF Tokens
    <2>5. CASE r # Nobody
      <3>1. r \in Request /\ pc[r] = "burning"
        BY <1>1, <2>1, <2>5 DEF Command, Awaiting
      <3>2. BurnWithRedis(r, Readable)
        BY <1>9, <2>5 DEF ServeGetdel
      <3>3. /\ memExp' = 0 /\ inFlight' = FALSE /\ burns \in Nat
            /\ spent' => spent
            /\ \A x \in Request : x # r => pc'[x] = pc[x]
            /\ pc'[r] \in {"refused", "mismatch", "authorised"}
        BY <1>2, <3>1, <3>2 DEF BurnWithRedis, RefuseReplay, Arbitrate, Verdict, TypeOK
      <3>4. \A x \in Request : x # r => pc[x] \notin {"burning", "compensating"}
        BY <3>1 DEF IInv, LockExclusion
      <3>5. CASE already[r]
        <4>1. burns' = burns /\ burns > 0 /\ spent' = FALSE
          BY <3>1, <3>2, <3>5 DEF BurnWithRedis, RefuseReplay, IInv, SampleIsCurrent
        <4>2. NotBeforeIssued' /\ ProcessLocal' /\ BackupKept' /\ NoSpuriousRefusal'
          BY <1>2, <1>6, <2>1, <3>1, <3>3, <4>1
             DEF IInv, NotBeforeIssued, ProcessLocal, BackupKept, NoSpuriousRefusal
        <4>3. SampleIsCurrent' /\ LockExclusion'
          BY <1>2, <3>3, <3>4, <4>1 DEF IInv, SampleIsCurrent, LockExclusion
        <4>4. ReopenedOnce' /\ SingleUse' /\ LedgerGuards'
          BY <1>2, <2>2, <4>1 DEF IInv, ReopenedOnce, SingleUse, LedgerGuards
        <4> QED
          BY <2>2, <4>2, <4>3, <4>4 DEF Tokens
      <3>6. CASE ~already[r] /\ (Readable \/ memExp # 0)
        <4>1. burns' = burns + 1 /\ spent' = spent /\ ~spent
          BY <3>1, <3>2, <3>6
             DEF BurnWithRedis, Arbitrate, IInv, SampleIsCurrent
        <4>2. burns > 0 => exposed /\ burns = 1
          <5>1. rExp \in Nat /\ now \in Nat
            BY <1>2, BoundAssumption, TtlAssumption DEF TypeOK
          <5>2. burns > 0 => Canonical
            BY <3>6, <5>1 DEF IInv, ProcessLocal, Readable, Canonical
          <5> QED
            BY <3>3, <4>1, <5>2 DEF IInv, LedgerGuards, ReopenedOnce
        <4>3. burns' > 0
          BY <3>3, <4>1
        <4>4. NotBeforeIssued' /\ ProcessLocal' /\ BackupKept' /\ NoSpuriousRefusal'
          BY <1>2, <1>6, <2>1, <3>1, <3>3, <4>1, <4>3
             DEF IInv, NotBeforeIssued, ProcessLocal, BackupKept, NoSpuriousRefusal
        <4>5. SampleIsCurrent' /\ LockExclusion'
          BY <1>2, <3>3, <3>4, <4>1, <4>3 DEF IInv, SampleIsCurrent, LockExclusion
        <4>6. SingleUse'
          BY <1>2, <3>3, <4>1, <4>2 DEF SingleUse
        <4>7. ReopenedOnce' /\ LedgerGuards'
          BY <2>2 DEF ReopenedOnce, LedgerGuards
        <4> QED
          BY <2>2, <4>4, <4>5, <4>6, <4>7 DEF Tokens
      <3>7. CASE ~already[r] /\ ~Readable /\ memExp = 0
        <4>1. burns' = burns /\ spent' = spent
          BY <3>2, <3>7 DEF BurnWithRedis, Arbitrate
        <4>2. burns > 0 \/ now >= TTL \/ phase = "inherited"
          <5>1. now \in Nat /\ TTL \in Nat \ {0}
            BY <1>2, BoundAssumption, TtlAssumption DEF TypeOK
          <5> QED
            BY <1>6, <3>1, <3>3, <3>7, <5>1 DEF IInv, BackupKept
        <4>3. NotBeforeIssued' /\ ProcessLocal' /\ BackupKept' /\ NoSpuriousRefusal'
          BY <1>2, <1>6, <2>1, <3>1, <3>3, <3>7, <4>1, <4>2
             DEF IInv, NotBeforeIssued, ProcessLocal, BackupKept, NoSpuriousRefusal
        <4>4. SampleIsCurrent' /\ LockExclusion'
          BY <1>2, <3>3, <3>4, <4>1 DEF IInv, SampleIsCurrent, LockExclusion
        <4>5. ReopenedOnce' /\ SingleUse' /\ LedgerGuards'
          BY <1>2, <2>2, <4>1 DEF IInv, ReopenedOnce, SingleUse, LedgerGuards
        <4> QED
          BY <2>2, <4>3, <4>4, <4>5 DEF Tokens
      <3> QED
        BY <3>5, <3>6, <3>7
    <2> QED
      BY <2>4, <2>5
  <1>10. CASE ServeDel
    <2>1. /\ Head(pipe).op = "DEL" /\ rExp' = 0 /\ UNCHANGED <<phase, memExp, burns>>
          /\ spent' => spent
          /\ IF r \in Request
               THEN inFlight' = FALSE /\ pc' = [pc EXCEPT ![r] = Verdict(r)]
               ELSE UNCHANGED <<inFlight, pc>>
      BY <1>10 DEF ServeDel, historyVars
    <2>2. ~Canonical' /\ IssuerAwaits'
      BY <1>4, <1>5, <2>1
    <2>3. phase # "none"
      BY <1>1 DEF IInv, NotBeforeIssued
    <2>4. ReopenedOnce' /\ SingleUse' /\ LedgerGuards'
      BY <1>2, <2>1, <2>2 DEF IInv, ReopenedOnce, SingleUse, LedgerGuards
    <2>5. CASE r \notin Request
      <3>1. NotBeforeIssued' /\ ProcessLocal' /\ BackupKept' /\ NoSpuriousRefusal'
        BY <1>2, <2>1, <2>3, <2>5 DEF IInv, NotBeforeIssued, ProcessLocal,
                                      BackupKept, NoSpuriousRefusal
      <3>2. SampleIsCurrent' /\ LockExclusion'
        BY <1>2, <2>1, <2>5 DEF IInv, SampleIsCurrent, LockExclusion
      <3> QED
        BY <2>2, <2>4, <3>1, <3>2 DEF Tokens
    <2>6. CASE r \in Request
      <3>1. pc[r] = "compensating"
        BY <1>1, <2>1, <2>6 DEF Awaiting
      <3>2. /\ inFlight' = FALSE /\ pc'[r] \in {"mismatch", "authorised"}
            /\ \A x \in Request : x # r => pc'[x] = pc[x]
        BY <1>2, <2>1, <2>6 DEF TypeOK, Verdict
      <3>3. burns > 0 /\ \A x \in Request : x # r => pc[x] \notin {"burning", "compensating"}
        BY <2>6, <3>1 DEF IInv, SampleIsCurrent, LockExclusion
      <3>4. NotBeforeIssued' /\ ProcessLocal' /\ BackupKept' /\ NoSpuriousRefusal'
        BY <1>2, <1>6, <2>1, <2>6, <3>3 DEF IInv, NotBeforeIssued, ProcessLocal,
                                      BackupKept, NoSpuriousRefusal
      <3>5. SampleIsCurrent' /\ LockExclusion'
        BY <3>2, <3>3 DEF SampleIsCurrent, LockExclusion
      <3> QED
        BY <2>2, <2>4, <3>4, <3>5 DEF Tokens
    <2> QED
      BY <2>5, <2>6
  <1> QED
    BY <1>7, <1>8, <1>9, <1>10 DEF Serve

\* A step of the environment: the conjuncts that do not speak of the queues or
\* the clock only need their own variables kept.
LEMMA EnvironmentStep ==
    ASSUME IInv, UNCHANGED <<now, phase, memExp, inFlight, spent, pc, already, burns, exposed>>,
           phase = "none" => pipe' = <<>> /\ offline' = <<>> /\ rExp' = 0,
           IssuerAwaits', Canonical' => Canonical
    PROVE  Tokens'
  <1>1. NotBeforeIssued' /\ ProcessLocal' /\ BackupKept' /\ NoSpuriousRefusal'
    BY DEF IInv, NotBeforeIssued, ProcessLocal, BackupKept, NoSpuriousRefusal
  <1>2. SampleIsCurrent' /\ LockExclusion'
    BY DEF IInv, SampleIsCurrent, LockExclusion
  <1>3. ReopenedOnce' /\ SingleUse' /\ LedgerGuards'
    BY DEF IInv, ReopenedOnce, SingleUse, LedgerGuards
  <1> QED
    BY <1>1, <1>2, <1>3 DEF Tokens

\* What the server may have run unseen revives nothing.
LEMMA KeyAfterKeeps ==
    ASSUME TypeOK, NEW k \in 0..Len(pipe), rExp' = KeyAfter(k)
    PROVE  rExp' # 0 => Canonical
  <1>1. Len(pipe) \in Nat /\ \A i \in 1..k : i \in 1..Len(pipe)
    BY DEF TypeOK
  <1> QED
    BY <1>1 DEF KeyAfter, Canonical

\* Before the issue there is nothing to fail, resend or drain.
LEMMA NothingBeforeIssue ==
    ASSUME IInv, phase = "none",
           (\E c \in Caller \ {Nobody} : Timeout(c)) \/ ServeError \/ Flap \/ Flush
           \/ Reconnect \/ CleanupTick \/ CalmDown
    PROVE  pipe' = <<>> /\ offline' = <<>> /\ rExp' = 0
  <1>1. pipe = <<>> /\ offline = <<>> /\ rExp = 0 /\ ~spent
    BY DEF IInv, NotBeforeIssued, ProcessLocal
  <1>2. Len(<<>>) = 0 /\ <<>> \o <<>> = <<>> /\ <<>> \o <<>> \o <<>> = <<>>
    OBVIOUS
  <1>3. ~(\E c \in Caller \ {Nobody} : Timeout(c))
    <2>1. pipe \o offline \in Seq(Command) /\ Len(pipe \o offline) = 0
      BY <1>1, <1>2, EmptyTyped
    <2> QED
      BY <2>1 DEF Timeout
  <1>4. ~ServeError
    BY <1>1 DEF ServeError
  <1>5. CASE Flap
    <2>1. PICK k \in 0..0 : rExp' = KeyAfter(k)
      BY <1>1, <1>2, <1>5 DEF Flap
    <2>2. KeyAfter(k) = rExp
      BY DEF KeyAfter
    <2> QED
      BY <1>1, <1>5, <2>1, <2>2 DEF Flap
  <1>6. CASE Flush
    BY <1>1, <1>6 DEF Flush, storeVars
  <1>7. CASE Reconnect
    <2>1. DrainQueue = <<>>
      BY <1>1 DEF DrainQueue
    <2> QED
      BY <1>1, <1>2, <1>7, <2>1 DEF Reconnect, storeVars
  <1>8. CASE CleanupTick
    <2>1. DrainQueue = <<>>
      BY <1>1 DEF DrainQueue
    <2> QED
      BY <1>1, <1>2, <1>8, <2>1 DEF CleanupTick
  <1>9. CASE CalmDown
    BY <1>1, <1>9 DEF CalmDown, storeVars, clientVars
  <1> QED
    BY <1>3, <1>4, <1>5, <1>6, <1>7, <1>8, <1>9

LEMMA FailureTokens ==
    ASSUME IInv,
           (\E c \in Caller \ {Nobody} : Timeout(c)) \/ ServeError \/ Flap \/ Flush
    PROVE  Tokens'
  <1>1. /\ UNCHANGED <<now, phase, memExp, inFlight, spent, pc, already, burns, exposed>>
        /\ TypeOK
        /\ phase = "none" => pipe' = <<>> /\ offline' = <<>> /\ rExp' = 0
    BY NothingBeforeIssue DEF Timeout, ServeError, Flap, Flush, IInv, storeVars,
           ledgerVars, requestVars, historyVars
  <1>2. ASSUME NEW c \in Caller \ {Nobody}, Timeout(c)
        PROVE  Tokens'
    <2>1. /\ pipe' = TimeoutIn(pipe, c) /\ rExp' = rExp
          /\ rejected' = rejected \cup ({c} \ {Drain})
          /\ \E i \in DOMAIN (pipe \o offline) : (pipe \o offline)[i].by = c
      BY <1>2 DEF Timeout, storeVars
    <2>2. /\ Len(pipe') = Len(pipe)
          /\ \A i \in 1..Len(pipe) :
                /\ pipe'[i].op = pipe[i].op
                /\ pipe'[i].by = IF pipe[i].by = c THEN Nobody ELSE pipe[i].by
      BY <1>1, <2>1, TimeoutElements DEF TypeOK
    <2>3. Canonical' => Canonical
      BY <2>1, <2>2 DEF Canonical
    <2>4. c = Issuer => \E i \in 1..Len(pipe) : pipe[i].by = Issuer
      <3>1. \A i \in 1..Len(offline) : offline[i].by # Issuer
        <4>1. \A i \in 1..Len(offline) : offline[i] \in Command
          BY <1>1 DEF TypeOK
        <4> QED
          BY <4>1, CallerAssumption DEF IInv, SetIsFirst, Command
      <3>2. \/ \E i \in 1..Len(pipe) : pipe[i].by = c
            \/ \E i \in 1..Len(offline) : offline[i].by = c
        BY <1>1, <2>1, ConcatElements DEF TypeOK
      <3> QED
        BY <3>1, <3>2
    <2>5. IssuerAwaits'
      BY <1>1, <2>1, <2>2, <2>4, CallerAssumption DEF IInv, IssuerAwaits
    <2> QED
      BY <1>1, <2>3, <2>5, EnvironmentStep
  <1>3. CASE ServeError
    <2>1. /\ pipe # <<>> /\ pipe' = Tail(pipe) /\ rExp' = rExp
          /\ rejected' = rejected \cup Callers(<<Head(pipe)>>)
      BY <1>3 DEF ServeError, storeVars
    <2>2. /\ Len(pipe) \in Nat /\ Len(pipe) > 0 /\ Head(pipe) = pipe[1]
          /\ Len(pipe') = Len(pipe) - 1
          /\ \A i \in 1..Len(pipe') : pipe'[i] = pipe[i + 1] /\ i + 1 \in 1..Len(pipe)
      BY <1>1, <2>1, TailElements DEF TypeOK
    <2>3. \A i \in 1..Len(pipe') : pipe'[i].op # "SET"
      BY <2>2 DEF IInv, SetIsFirst
    <2>4. \A i \in 1..Len(pipe') : pipe'[i].by # Issuer
      <3>1. \A i \in 1..Len(pipe) : pipe[i] \in Command
        BY <1>1 DEF TypeOK
      <3> QED
        BY <2>2, <2>3, <3>1, CallerAssumption DEF Command
    <2>5. Issuer \in rejected' => Issuer \in rejected \/ pipe[1].by = Issuer
      BY <2>1, <2>2 DEF Callers
    <2>6. IssuerAwaits'
      BY <1>1, <2>2, <2>4, <2>5 DEF IInv, IssuerAwaits
    <2>7. Canonical' => Canonical
      BY <2>1, <2>3 DEF Canonical
    <2> QED
      BY <1>1, <2>6, <2>7, EnvironmentStep
  <1>4. CASE Flap
    <2>1. /\ pipe' = pipe /\ rejected' = rejected
          /\ \E k \in 0..Len(pipe) : rExp' = KeyAfter(k)
      BY <1>4 DEF Flap
    <2>2. rExp' # 0 => Canonical
      BY <1>1, <2>1, KeyAfterKeeps
    <2>3. Canonical' => Canonical
      BY <2>1, <2>2 DEF Canonical
    <2>4. IssuerAwaits'
      BY <1>1, <2>1 DEF IInv, IssuerAwaits
    <2> QED
      BY <1>1, <2>3, <2>4, EnvironmentStep
  <1>5. CASE Flush
    <2>1. /\ rExp' = rExp /\ Len(<<>>) = 0
          /\ \/ pipe' = <<>> /\ rejected' = rejected \cup Callers(pipe \o offline)
             \/ pipe' = pipe /\ rejected' = rejected \cup Callers(offline)
      BY <1>5 DEF Flush, storeVars
    <2>2. \A i \in 1..Len(offline) : offline[i].by # Issuer
      <3>1. \A i \in 1..Len(offline) : offline[i] \in Command
        BY <1>1 DEF TypeOK
      <3> QED
        BY <3>1, CallerAssumption DEF IInv, SetIsFirst, Command
    <2>3. Issuer \notin Callers(offline)
      BY <1>1, <2>2 DEF Callers, TypeOK
    <2>4. Issuer \in Callers(pipe \o offline) => \E i \in 1..Len(pipe) : pipe[i].by = Issuer
      BY <1>1, <2>2, ConcatElements DEF Callers, TypeOK
    <2>5. CASE pipe' = <<>> /\ rejected' = rejected \cup Callers(pipe \o offline)
      <3>1. Len(pipe') = 0
        BY <2>1, <2>5
      <3>2. IssuerAwaits'
        BY <1>1, <2>4, <2>5, <3>1 DEF IInv, IssuerAwaits
      <3>3. Canonical' => Canonical
        BY <2>1, <3>1 DEF Canonical
      <3> QED
        BY <1>1, <3>2, <3>3, EnvironmentStep
    <2>6. CASE pipe' = pipe /\ rejected' = rejected \cup Callers(offline)
      <3>1. IssuerAwaits' /\ (Canonical' => Canonical)
        BY <1>1, <2>1, <2>3, <2>6 DEF IInv, IssuerAwaits, Canonical
      <3> QED
        BY <1>1, <3>1, EnvironmentStep
    <2> QED
      BY <2>1, <2>5, <2>6
  <1> QED
    BY <1>2, <1>3, <1>4, <1>5

LEMMA BackgroundTokens ==
    ASSUME IInv,
           Issue \/ RejectSet \/ Reconnect \/ CleanupTick \/ Restart
           \/ AdvanceClock \/ CalmDown
    PROVE  Tokens'
  <1>1. /\ TypeOK /\ TTL \in Nat \ {0} /\ now \in Nat
        /\ Cmd("DEL", Drain).by # Issuer /\ Cmd("DEL", Drain).op = "DEL"
    BY BoundAssumption, TtlAssumption, CallerAssumption DEF IInv, TypeOK, Cmd
  <1>2. CASE Issue
    <2>1. /\ phase = "none" /\ phase' \in {"setting", "issued"} /\ memExp' = TTL
          /\ UNCHANGED <<now, rExp, rejected, inFlight, spent, pc, already,
                         burns, exposed>>
          /\ pipe' # pipe => phase' = "setting"
      BY <1>2 DEF Issue, ledgerVars, requestVars, historyVars
    <2>2. /\ \A r \in Request : pc[r] = "idle"
          /\ burns = 0 /\ ~inFlight /\ Len(pipe) = 0 /\ ~spent /\ ~exposed
          /\ Issuer \notin rejected
      BY <2>1 DEF IInv, NotBeforeIssued, ProcessLocal, IssuerAwaits
    <2>3. IssuerAwaits'
      BY <2>1, <2>2 DEF IssuerAwaits
    <2>4. NotBeforeIssued' /\ ProcessLocal' /\ BackupKept'
      BY <2>1, <2>2 DEF NotBeforeIssued, ProcessLocal, BackupKept
    <2>5. SampleIsCurrent' /\ LockExclusion' /\ NoSpuriousRefusal'
      BY <2>1, <2>2 DEF SampleIsCurrent, LockExclusion, NoSpuriousRefusal
    <2>6. ReopenedOnce' /\ SingleUse' /\ LedgerGuards'
      BY <2>1, <2>2 DEF ReopenedOnce, SingleUse, LedgerGuards
    <2> QED
      BY <2>3, <2>4, <2>5, <2>6 DEF Tokens
  <1>3. CASE RejectSet
    <2>1. /\ Issuer \in rejected /\ rejected' = rejected \ {Issuer} /\ phase' = "issued"
          /\ UNCHANGED <<now, memExp, rExp, pipe, inFlight, spent, pc, already,
                         burns, exposed>>
      BY <1>3 DEF RejectSet, storeVars, clientVars, ledgerVars, requestVars, historyVars
    <2>2. phase = "setting" /\ \A i \in 1..Len(pipe) : pipe[i].by # Issuer
      BY <2>1 DEF IInv, IssuerAwaits
    <2>3. IssuerAwaits' /\ (Canonical' => Canonical)
      BY <2>1, <2>2 DEF IssuerAwaits, Canonical
    <2>4. NotBeforeIssued' /\ ProcessLocal' /\ BackupKept' /\ NoSpuriousRefusal'
      BY <2>1, <2>2 DEF IInv, NotBeforeIssued, ProcessLocal, BackupKept,
                        NoSpuriousRefusal
    <2>5. SampleIsCurrent' /\ LockExclusion'
      BY <2>1 DEF IInv, SampleIsCurrent, LockExclusion
    <2>6. ReopenedOnce' /\ SingleUse' /\ LedgerGuards'
      BY <2>1, <2>3 DEF IInv, ReopenedOnce, SingleUse, LedgerGuards
    <2> QED
      BY <2>3, <2>4, <2>5, <2>6 DEF Tokens
  <1>4. CASE Reconnect
    <2>1. /\ UNCHANGED <<now, phase, memExp, rExp, rejected, inFlight, spent,
                         pc, already, burns, exposed>>
          /\ \/ pipe' = (pipe \o offline) \o DrainQueue
             \/ pipe' = (pipe \o offline) \o <<>>
      BY <1>4 DEF Reconnect, storeVars, ledgerVars, requestVars, historyVars
    <2>2. \A i \in 1..Len(pipe') :
             \/ \E j \in 1..Len(pipe \o offline) : pipe'[i] = (pipe \o offline)[j]
             \/ pipe'[i] = Cmd("DEL", Drain)
      BY <1>1, <2>1, ConcatTyped, DrainElements DEF TypeOK
    <2>3. \A j \in 1..Len(pipe \o offline) :
             \/ \E i \in 1..Len(pipe) : (pipe \o offline)[j] = pipe[i]
             \/ \E i \in 1..Len(offline) : (pipe \o offline)[j] = offline[i]
      BY <1>1, ConcatElements DEF TypeOK
    <2>4. \A i \in 1..Len(offline) : offline[i].by # Issuer /\ offline[i].op # "SET"
      <3>1. \A i \in 1..Len(offline) : offline[i] \in Command
        BY <1>1 DEF TypeOK
      <3> QED
        BY <3>1, CallerAssumption DEF IInv, SetIsFirst, Command
    <2>5. \A i \in 1..Len(pipe') :
             pipe'[i].by = Issuer \/ pipe'[i].op = "SET" =>
               \E j \in 1..Len(pipe) : pipe'[i] = pipe[j]
      BY <1>1, <2>2, <2>3, <2>4
    <2>6. IssuerAwaits' /\ (Canonical' => Canonical)
      BY <2>1, <2>5 DEF IInv, IssuerAwaits, Canonical
    <2>7. phase = "none" => pipe' = <<>> /\ offline' = <<>> /\ rExp' = 0
      BY <1>4, NothingBeforeIssue
    <2> QED
      BY <2>1, <2>6, <2>7, EnvironmentStep
  <1>5. CASE CleanupTick
    <2>1. /\ UNCHANGED <<now, phase, rExp, rejected, inFlight, spent,
                         pc, already, burns, exposed>>
          /\ pipe' = pipe \o DrainQueue \/ pipe' = pipe
          /\ memExp' = IF memExp <= now THEN 0 ELSE memExp
      BY <1>5 DEF CleanupTick, clientVars, ledgerVars, requestVars, historyVars
    <2>2. \A i \in 1..Len(pipe') :
             (i \in 1..Len(pipe) /\ pipe'[i] = pipe[i]) \/ pipe'[i] = Cmd("DEL", Drain)
      BY <1>1, <2>1, DrainElements DEF TypeOK
    <2>3. IssuerAwaits' /\ (Canonical' => Canonical)
      BY <1>1, <2>1, <2>2 DEF IInv, IssuerAwaits, Canonical
    <2>4. phase = "none" => pipe' = <<>> /\ offline' = <<>> /\ rExp' = 0
      BY <1>5, NothingBeforeIssue
    <2>5. NotBeforeIssued' /\ ProcessLocal' /\ NoSpuriousRefusal'
      BY <2>1, <2>4 DEF IInv, NotBeforeIssued, ProcessLocal, NoSpuriousRefusal
    <2>6. BackupKept'
      BY <1>1, <2>1 DEF IInv, BackupKept
    <2>7. SampleIsCurrent' /\ LockExclusion'
      BY <2>1 DEF IInv, SampleIsCurrent, LockExclusion
    <2>8. ReopenedOnce' /\ SingleUse' /\ LedgerGuards'
      BY <2>1, <2>3 DEF IInv, ReopenedOnce, SingleUse, LedgerGuards
    <2> QED
      BY <2>3, <2>5, <2>6, <2>7, <2>8 DEF Tokens
  <1>6. CASE Restart
    <2>1. /\ phase' = CASE phase = "setting" -> "lost"
                        [] phase = "issued"  -> "inherited"
                        [] OTHER             -> phase
          /\ pipe' = <<>> /\ offline' = <<>> /\ rejected' = {} /\ memExp' = 0
          /\ inFlight' = FALSE /\ spent' = FALSE
          /\ exposed' = (exposed \/ spent)
          /\ pc' = [r \in Request |-> IF pc[r] \in Active THEN "dead" ELSE pc[r]]
          /\ now' = now /\ burns' = burns
      BY <1>6 DEF Restart
    <2>2. PICK k \in 0..Len(pipe) : rExp' = IF up THEN KeyAfter(k) ELSE rExp
      BY <1>6 DEF Restart
    <2>3. Len(pipe') = 0
      BY <2>1
    <2>4. Canonical' => Canonical
      <3>1. rExp' # 0 => Canonical
        BY <1>1, <2>2, KeyAfterKeeps DEF Canonical
      <3> QED
        BY <2>3, <3>1 DEF Canonical
    <2>5. IssuerAwaits'
      BY <2>1, <2>3 DEF IssuerAwaits
    <2>6. \A r \in Request :
             /\ pc'[r] \notin {"burning", "compensating"}
             /\ pc'[r] = "refused" => pc[r] = "refused"
             /\ pc[r] = "idle" => pc'[r] = "idle"
      BY <2>1 DEF Active
    <2>7. NotBeforeIssued'
      <3>1. phase' \in {"none", "setting", "lost"} => phase \in {"none", "setting", "lost"}
        BY <1>1, <2>1 DEF TypeOK, Phase
      <3>2. phase' = "none" => rExp' = 0
        <4>1. ASSUME phase = "none" PROVE ~Canonical
          <5>1. Len(pipe) = 0 /\ rExp = 0
            BY <4>1 DEF IInv, NotBeforeIssued
          <5> QED
            BY <5>1 DEF Canonical
        <4>2. phase' = "none" => phase = "none"
          BY <1>1, <2>1 DEF TypeOK, Phase
        <4>3. rExp' # 0 => Canonical
          BY <2>4 DEF Canonical
        <4> QED
          BY <4>1, <4>2, <4>3
      <3> QED
        BY <2>1, <2>6, <3>1, <3>2 DEF IInv, NotBeforeIssued
    <2>8. ProcessLocal' /\ BackupKept'
      <3>1. exposed' => phase' = "inherited" /\ burns' > 0
        BY <2>1 DEF IInv, ProcessLocal
      <3>2. phase' \notin {"setting", "issued"}
        BY <1>1, <2>1 DEF TypeOK, Phase
      <3> QED
        BY <2>1, <3>1, <3>2 DEF ProcessLocal, BackupKept
    <2>9. SampleIsCurrent' /\ LockExclusion'
      BY <2>1, <2>6 DEF SampleIsCurrent, LockExclusion
    <2>10. NoSpuriousRefusal'
      <3>1. ASSUME NEW r \in Request, pc[r] = "refused"
            PROVE  phase' = "inherited"
        BY <2>1, <3>1, OnceReturned
      <3> QED
        BY <2>6, <3>1 DEF NoSpuriousRefusal
    <2>11. ReopenedOnce' /\ SingleUse' /\ LedgerGuards'
      BY <2>1, <2>4 DEF IInv, ReopenedOnce, SingleUse, LedgerGuards, TypeOK
    <2> QED
      BY <2>5, <2>7, <2>8, <2>9, <2>10, <2>11 DEF Tokens
  <1>7. CASE AdvanceClock
    <2>1. /\ phase # "none" /\ now' = now + 1
          /\ UNCHANGED <<phase, memExp, rExp, pipe, rejected, inFlight, spent,
                         pc, already, burns, exposed>>
      BY <1>7 DEF AdvanceClock, storeVars, clientVars, ledgerVars, requestVars, historyVars
    <2>2. IssuerAwaits' /\ (Canonical' => Canonical)
      BY <2>1 DEF IInv, IssuerAwaits, Canonical
    <2>3. NotBeforeIssued' /\ ProcessLocal'
      BY <2>1 DEF IInv, NotBeforeIssued, ProcessLocal
    <2>4. BackupKept'
      BY <1>1, <2>1 DEF IInv, BackupKept
    <2>5. NoSpuriousRefusal'
      <3>1. now >= TTL => now' >= TTL
        BY <1>1, <2>1
      <3> QED
        BY <2>1, <3>1 DEF IInv, NoSpuriousRefusal
    <2>6. SampleIsCurrent' /\ LockExclusion'
      BY <2>1 DEF IInv, SampleIsCurrent, LockExclusion
    <2>7. ReopenedOnce' /\ SingleUse' /\ LedgerGuards'
      BY <2>1, <2>2 DEF IInv, ReopenedOnce, SingleUse, LedgerGuards
    <2> QED
      BY <2>2, <2>3, <2>4, <2>5, <2>6, <2>7 DEF Tokens
  <1>8. CASE CalmDown
    <2>1. UNCHANGED <<now, phase, memExp, rExp, pipe, rejected, inFlight, spent,
                      pc, already, burns, exposed>>
      BY <1>8 DEF CalmDown, storeVars, clientVars, ledgerVars, requestVars, historyVars
    <2>2. IssuerAwaits' /\ (Canonical' => Canonical)
      BY <2>1 DEF IInv, IssuerAwaits, Canonical
    <2> QED
      BY <1>8, <2>1, <2>2, NothingBeforeIssue, EnvironmentStep
  <1> QED
    BY <1>2, <1>3, <1>4, <1>5, <1>6, <1>7, <1>8

(***************************************************************************)
(* The safety theorems.                                                    *)
(***************************************************************************)

LEMMA InitIInv == Init => IInv
  <1> SUFFICES ASSUME Init PROVE IInv
    OBVIOUS
  <1>1. TypeOK
    BY InitTyped
  <1>2. Len(pipe) = 0 /\ Len(offline) = 0 /\ rejected = {} /\ rExp = 0
        /\ \A r \in Request : pc[r] = "idle"
    BY DEF Init
  <1>3. OneCommandEach /\ SetIsFirst
    BY <1>2 DEF OneCommandEach, OwnCommand, NoDuplicates, SetIsFirst
  <1>4. IssuerAwaits /\ NotBeforeIssued /\ ProcessLocal /\ SampleIsCurrent /\ BackupKept
    BY <1>2 DEF Init, IssuerAwaits, NotBeforeIssued, ProcessLocal, SampleIsCurrent, BackupKept
  <1>5. ReopenedOnce /\ SingleUse /\ LedgerGuards
    BY DEF Init, ReopenedOnce, SingleUse, LedgerGuards
  <1>6. LockExclusion /\ NoSpuriousRefusal
    BY <1>2 DEF Init, LockExclusion, NoSpuriousRefusal
  <1> QED
    BY <1>1, <1>3, <1>4, <1>5, <1>6 DEF IInv

LEMMA NextIInv == IInv /\ TypeOK' /\ [Next]_vars => IInv'
  <1> SUFFICES ASSUME IInv, TypeOK', [Next]_vars PROVE IInv'
    OBVIOUS
  <1>1. Queues' /\ Tokens'
    <2>1. CASE \E r \in Request : Step(r)
      BY <2>1, StepQueues, StepTokens
    <2>2. CASE Serve
      BY <2>2, ServeQueues, ServeTokens
    <2>3. CASE (\E c \in Caller \ {Nobody} : Timeout(c)) \/ ServeError \/ Flap \/ Flush
      BY <2>3, FailureQueues, FailureTokens
    <2>4. CASE Issue \/ RejectSet \/ Reconnect \/ CleanupTick \/ Restart
               \/ AdvanceClock \/ CalmDown
      BY <2>4, BackgroundQueues, BackgroundTokens
    <2>5. CASE UNCHANGED vars
      <3>1. Queues'
        BY <2>5 DEF IInv, vars, clientVars, requestVars, Queues, OneCommandEach,
                    OwnCommand, NoDuplicates, SetIsFirst
      <3>2. IssuerAwaits' /\ NotBeforeIssued' /\ ProcessLocal' /\ SampleIsCurrent'
            /\ BackupKept'
        BY <2>5 DEF IInv, vars, clientVars, storeVars, ledgerVars, requestVars,
                    historyVars, IssuerAwaits, NotBeforeIssued, ProcessLocal,
                    SampleIsCurrent, BackupKept
      <3>3. ReopenedOnce' /\ SingleUse' /\ LedgerGuards' /\ LockExclusion'
            /\ NoSpuriousRefusal'
        BY <2>5 DEF IInv, vars, clientVars, storeVars, ledgerVars, requestVars,
                    historyVars, ReopenedOnce, SingleUse, LedgerGuards, Canonical,
                    LockExclusion, NoSpuriousRefusal
      <3> QED
        BY <3>1, <3>2, <3>3 DEF Tokens
    <2> QED
      BY <2>1, <2>2, <2>3, <2>4, <2>5 DEF Next
  <1> QED
    BY <1>1 DEF IInv, Queues, Tokens

\* IInv: the inductive invariant holds for any number of presentations, any TTL
\* and any interleaving with the failures of Redis and of the process.
THEOREM Inductive == Spec => []IInv
  BY InitIInv, NextIInv, TypeCorrect, PTL DEF Spec

\* SingleUse: consumeFreshAuthToken burns a consent-op proof once, and once more
\* only after a restart lost the ledger entry of an unconfirmed delete.
THEOREM BurnedOnce == Spec => []SingleUse
  <1>1. IInv => SingleUse
    BY DEF IInv
  <1> QED
    BY <1>1, Inductive, PTL

\* LedgerGuards: spentConsentOps covers every canonical copy that outlived its
\* burn, or that a resent SET may still bring back.
THEOREM SurvivorsRefused == Spec => []LedgerGuards
  <1>1. IInv => LedgerGuards
    BY DEF IInv
  <1> QED
    BY <1>1, Inductive, PTL

\* LockExclusion: inFlightConsumes admits one burner and is released on every
\* way out of burnConsentOp.
THEOREM OneBurner == Spec => []LockExclusion
  <1>1. IInv => LockExclusion
    BY DEF IInv
  <1> QED
    BY <1>1, Inductive, PTL

\* NoSpuriousRefusal: memStore's backup answers for Redis, so a flap alone never
\* costs the owner a live proof.
THEOREM BackupServes == Spec => []NoSpuriousRefusal
  <1>1. IInv => NoSpuriousRefusal
    BY DEF IInv
  <1> QED
    BY <1>1, Inductive, PTL

(***************************************************************************)
(* The refinement: each step of the two-tier store is a step of the        *)
(* one-shot proof, or leaves the proof and the outcomes as they are.       *)
(***************************************************************************)

\* The abstract outcome of a request in state s.
OutcomeOf(s) ==
    CASE s = "compensating" -> "redeemed"
      [] s = "authorised"   -> "granted"
      [] s \in {"refused", "mismatch", "dead"} -> "denied"
      [] OTHER -> "pending"

LEMMA OutcomeStep ==
    ASSUME TypeOK, NEW r \in Request, NEW s, pc' = [pc EXCEPT ![r] = s]
    PROVE  AbstractOutcome' = [AbstractOutcome EXCEPT ![r] = OutcomeOf(s)]
  BY DEF AbstractOutcome, OutcomeOf, TypeOK

LEMMA Stutters ==
    ASSUME UNCHANGED <<pc, burns, exposed>>, phase' = "none" <=> phase = "none"
    PROVE  UNCHANGED OneShot!vars
  BY DEF OneShot!vars, AbstractProof, AbstractOutcome

\* A request that moves on without an answer, or is refused.
LEMMA MovesOrDenied ==
    ASSUME TypeOK, NEW r \in Request, NEW s,
           s \in {"reading", "read", "burning", "refused"},
           pc[r] \in {"idle", "reading", "read", "burning"},
           pc' = [pc EXCEPT ![r] = s], UNCHANGED <<phase, burns, exposed>>
    PROVE  [OneShot!Next]_OneShot!vars
  <1>1. AbstractOutcome[r] = "pending" /\ AbstractOutcome \in [Request -> {"redeemed", "granted", "denied", "pending"}]
    BY DEF AbstractOutcome
  <1>2. AbstractOutcome' = [AbstractOutcome EXCEPT ![r] = OutcomeOf(s)]
    BY OutcomeStep
  <1>3. AbstractProof' = AbstractProof
    BY DEF AbstractProof
  <1>4. CASE s = "refused"
    <2>1. OutcomeOf(s) = "denied"
      BY <1>4 DEF OutcomeOf
    <2> QED
      BY <1>1, <1>2, <1>3, <2>1 DEF OneShot!Next, OneShot!Deny
  <1>5. CASE s # "refused"
    <2>1. OutcomeOf(s) = "pending"
      BY <1>5 DEF OutcomeOf
    <2>2. AbstractOutcome' = AbstractOutcome
      BY <1>1, <1>2, <2>1
    <2> QED
      BY <1>3, <2>2 DEF OneShot!vars
  <1> QED
    BY <1>4, <1>5

\* A won burn.
LEMMA WinRedeems ==
    ASSUME TypeOK, NEW r \in Request, NEW s,
           s \in {"compensating", "mismatch", "authorised"},
           pc[r] \in {"read", "burning"}, pc' = [pc EXCEPT ![r] = s],
           phase # "none", (burns = 0 /\ ~exposed) \/ (burns = 1 /\ exposed),
           burns' = burns + 1, UNCHANGED <<phase, exposed>>
    PROVE  OneShot!Next
  <1>1. AbstractOutcome[r] = "pending"
    BY DEF AbstractOutcome
  <1>2. AbstractOutcome' = [AbstractOutcome EXCEPT ![r] = OutcomeOf(s)]
    BY OutcomeStep
  <1>3. OutcomeOf(s) \in {"redeemed", "granted", "denied"}
    BY DEF OutcomeOf
  <1>4. AbstractProof = "live" /\ AbstractProof' = "spent"
    <2>1. CASE burns = 0 /\ ~exposed
      BY <2>1 DEF AbstractProof
    <2>2. CASE burns = 1 /\ exposed
      BY <2>2 DEF AbstractProof
    <2> QED
      BY <2>1, <2>2
  <1> QED
    BY <1>1, <1>2, <1>3, <1>4 DEF OneShot!Next, OneShot!Redeem

\* The end of a burn whose compensating DEL was awaited.
LEMMA CompensatedAnswers ==
    ASSUME TypeOK, NEW r \in Request, pc[r] = "compensating",
           pc' = [pc EXCEPT ![r] = Verdict(r)], UNCHANGED <<phase, burns, exposed>>
    PROVE  OneShot!Next
  <1>1. AbstractOutcome[r] = "redeemed"
    BY DEF AbstractOutcome
  <1>2. AbstractOutcome' = [AbstractOutcome EXCEPT ![r] = OutcomeOf(Verdict(r))]
    BY OutcomeStep
  <1>3. OutcomeOf(Verdict(r)) \in {"granted", "denied"}
    BY DEF OutcomeOf, Verdict
  <1>4. AbstractProof' = AbstractProof
    BY DEF AbstractProof
  <1> QED
    BY <1>1, <1>2, <1>3, <1>4 DEF OneShot!Next, OneShot!Answer

LEMMA BurnWithoutRedisRefines ==
    ASSUME IInv, NEW r \in Request, NEW alreadySpent,
           BurnWithoutRedis(r, alreadySpent), pc[r] \in {"read", "burning"},
           UNCHANGED <<phase, exposed>>
    PROVE  [OneShot!Next]_OneShot!vars
  <1>1. TypeOK /\ phase \in {"issued", "inherited"}
    BY OnceReturned DEF IInv
  <1>2. CASE ~alreadySpent /\ memExp # 0
    <2>1. burns = 0 /\ ~exposed
      BY <1>1, <1>2 DEF IInv, ProcessLocal
    <2>2. pc' = [pc EXCEPT ![r] = "compensating"] /\ burns' = burns + 1
      BY <1>2 DEF BurnWithoutRedis, WinInMemory
    <2>3. /\ (burns = 0 /\ ~exposed) \/ (burns = 1 /\ exposed)
          /\ phase # "none"
      BY <1>1, <2>1
    <2> QED
      BY <1>1, <2>2, <2>3, WinRedeems
  <1>3. CASE alreadySpent \/ memExp = 0
    <2>1. pc' = [pc EXCEPT ![r] = "refused"] /\ burns' = burns
      BY <1>3 DEF BurnWithoutRedis, RefuseReplay, Arbitrate
    <2> QED
      BY <1>1, <2>1, MovesOrDenied
  <1> QED
    BY <1>2, <1>3

LEMMA StepRefines ==
    ASSUME IInv, NEW r \in Request, Step(r)
    PROVE  [OneShot!Next]_OneShot!vars
  <1>1. TypeOK
    BY DEF IInv
  <1>2. CASE Present(r) \/ RejectGet(r) \/ RefuseLocked(r)
    <2>1. pc[r] \in {"idle", "reading", "read"} /\ UNCHANGED <<phase, burns, exposed>>
      BY <1>2 DEF Present, RejectGet, RefuseLocked, historyVars
    <2>2. \/ pc' = [pc EXCEPT ![r] = "reading"]
          \/ pc' = [pc EXCEPT ![r] = "read"]
          \/ pc' = [pc EXCEPT ![r] = "refused"]
      BY <1>2 DEF Present, RejectGet, RefuseLocked, ReadReturns
    <2> QED
      BY <1>1, <2>1, <2>2, MovesOrDenied
  <1>3. CASE Burn(r)
    <2>1. pc[r] = "read" /\ UNCHANGED <<phase, exposed>>
      BY <1>3 DEF Burn
    <2>2. CASE up
      <3>1. pc' = [pc EXCEPT ![r] = "burning"] /\ burns' = burns
        BY <1>3, <2>2 DEF Burn
      <3> QED
        BY <1>1, <2>1, <3>1, MovesOrDenied
    <2>3. CASE ~up
      <3>1. BurnWithoutRedis(r, spent)
        BY <1>3, <2>3 DEF Burn
      <3> QED
        BY <2>1, <3>1, BurnWithoutRedisRefines
    <2> QED
      BY <2>2, <2>3
  <1>4. CASE RejectGetdel(r)
    <2>1. /\ pc[r] = "burning" /\ UNCHANGED <<phase, exposed>>
          /\ BurnWithoutRedis(r, already[r])
      BY <1>4 DEF RejectGetdel
    <2> QED
      BY <2>1, BurnWithoutRedisRefines
  <1>5. CASE RejectDel(r)
    <2>1. /\ pc[r] = "compensating" /\ pc' = [pc EXCEPT ![r] = Verdict(r)]
          /\ UNCHANGED <<phase, burns, exposed>>
      BY <1>5 DEF RejectDel, historyVars
    <2> QED
      BY <1>1, <2>1, CompensatedAnswers
  <1> QED
    BY <1>2, <1>3, <1>4, <1>5 DEF Step

LEMMA ServeRefines ==
    ASSUME IInv, Serve
    PROVE  [OneShot!Next]_OneShot!vars
  <1> DEFINE r == Head(pipe).by
  <1>1. /\ TypeOK /\ pipe # <<>> /\ Head(pipe) \in Command
        /\ r \in Request => pc[r] = Awaiting(Head(pipe).op)
    BY ServeQueues DEF IInv
  <1>2. r \in Request => phase \in {"issued", "inherited"}
    BY <1>1, OnceReturned DEF Awaiting
  <1>3. CASE ServeSet
    <2>1. UNCHANGED <<pc, burns, exposed>> /\ phase' \in {phase, "issued"}
      BY <1>3 DEF ServeSet, requestVars, historyVars
    <2>2. phase # "none"
      BY <1>1 DEF IInv, NotBeforeIssued
    <2> QED
      BY <2>1, <2>2, Stutters
  <1>4. CASE ServeGet
    <2>1. UNCHANGED <<phase, burns, exposed>> /\ Head(pipe).op = "GET"
      BY <1>4 DEF ServeGet, historyVars
    <2>2. CASE r = Nobody
      <3>1. pc' = pc
        BY <1>4, <2>2 DEF ServeGet
      <3> QED
        BY <2>1, <3>1, Stutters
    <2>3. CASE r # Nobody
      <3>1. r \in Request /\ pc[r] = "reading"
        BY <1>1, <2>1, <2>3 DEF Command, Awaiting
      <3>2. pc' = [pc EXCEPT ![r] = "read"] \/ pc' = [pc EXCEPT ![r] = "refused"]
        BY <1>4, <2>3 DEF ServeGet, ReadReturns
      <3> QED
        BY <1>1, <2>1, <3>1, <3>2, MovesOrDenied
    <2> QED
      BY <2>2, <2>3
  <1>5. CASE ServeGetdel
    <2>1. UNCHANGED <<phase, exposed>> /\ Head(pipe).op = "GETDEL"
      BY <1>5 DEF ServeGetdel
    <2>2. CASE r = Nobody
      <3>1. UNCHANGED <<pc, burns>>
        BY <1>5, <2>2 DEF ServeGetdel
      <3> QED
        BY <2>1, <3>1, Stutters
    <2>3. CASE r # Nobody
      <3>1. r \in Request /\ pc[r] = "burning" /\ BurnWithRedis(r, Readable)
        BY <1>1, <1>5, <2>1, <2>3 DEF Command, Awaiting, ServeGetdel
      <3>2. CASE already[r] \/ ~(Readable \/ memExp # 0)
        <4>1. pc' = [pc EXCEPT ![r] = "refused"] /\ burns' = burns
          BY <3>1, <3>2 DEF BurnWithRedis, RefuseReplay, Arbitrate
        <4> QED
          BY <1>1, <2>1, <3>1, <4>1, MovesOrDenied
      <3>3. CASE ~already[r] /\ (Readable \/ memExp # 0)
        <4>1. pc' = [pc EXCEPT ![r] = Verdict(r)] /\ burns' = burns + 1
          BY <3>1, <3>3 DEF BurnWithRedis, Arbitrate
        <4>2. Verdict(r) \in {"compensating", "mismatch", "authorised"}
          BY DEF Verdict
        <4>3. ~spent
          BY <3>1, <3>3 DEF IInv, SampleIsCurrent
        <4>4. (burns = 0 /\ ~exposed) \/ (burns = 1 /\ exposed)
          <5>1. CASE burns = 0
            BY <5>1 DEF IInv, ProcessLocal
          <5>2. CASE burns # 0
            <6>1. burns \in Nat /\ rExp \in Nat /\ now \in Nat
              BY <1>1, BoundAssumption, TtlAssumption DEF TypeOK
            <6>2. Canonical
              BY <3>3, <5>2, <6>1 DEF IInv, ProcessLocal, Readable, Canonical
            <6>3. exposed
              BY <4>3, <5>2, <6>1, <6>2 DEF IInv, LedgerGuards
            <6>4. burns = 1
              BY <5>2, <6>1, <6>2 DEF IInv, ReopenedOnce
            <6> QED
              BY <6>3, <6>4
          <5> QED
            BY <5>1, <5>2
        <4>5. phase # "none"
          BY <1>2, <3>1
        <4> QED
          BY <1>1, <2>1, <3>1, <4>1, <4>2, <4>4, <4>5, WinRedeems
      <3> QED
        BY <3>2, <3>3
    <2> QED
      BY <2>2, <2>3
  <1>6. CASE ServeDel
    <2>1. UNCHANGED <<phase, burns, exposed>> /\ Head(pipe).op = "DEL"
      BY <1>6 DEF ServeDel, historyVars
    <2>2. CASE r \notin Request
      <3>1. pc' = pc
        BY <1>6, <2>2 DEF ServeDel
      <3> QED
        BY <2>1, <3>1, Stutters
    <2>3. CASE r \in Request
      <3>1. pc[r] = "compensating" /\ pc' = [pc EXCEPT ![r] = Verdict(r)]
        BY <1>1, <1>6, <2>1, <2>3 DEF ServeDel, Awaiting
      <3> QED
        BY <1>1, <2>1, <2>3, <3>1, CompensatedAnswers
    <2> QED
      BY <2>2, <2>3
  <1> QED
    BY <1>3, <1>4, <1>5, <1>6 DEF Serve

LEMMA RestartRefines ==
    ASSUME IInv, Restart
    PROVE  OneShot!Next
  <1> DEFINE dying == {r \in Request : pc[r] \in Active}
  <1>1. /\ TypeOK /\ exposed' = (exposed \/ spent) /\ burns' = burns
        /\ pc' = [r \in Request |-> IF pc[r] \in Active THEN "dead" ELSE pc[r]]
    BY DEF Restart, IInv
  <1>2. phase' = "none" <=> phase = "none"
    BY <1>1 DEF Restart, TypeOK, Phase
  <1>3. AbstractOutcome' =
           [r \in Request |-> IF r \in dying THEN "denied" ELSE AbstractOutcome[r]]
    BY <1>1 DEF AbstractOutcome, Active
  <1>4. dying \in SUBSET {r \in Request : AbstractOutcome[r] \in {"pending", "redeemed"}}
    BY DEF AbstractOutcome, Active
  <1>5. \/ UNCHANGED <<AbstractProof, exposed>>
        \/ ~exposed /\ exposed' = TRUE /\ AbstractProof = "spent" /\ AbstractProof' = "live"
    <2>1. CASE spent /\ ~exposed
      <3>1. exposed' = TRUE
        BY <1>1, <2>1
      <3>2. burns > 0 /\ phase = "issued"
        BY <2>1 DEF IInv, ProcessLocal
      <3>3. burns \in Nat /\ burns <= 1
        BY <1>1, <2>1 DEF IInv, SingleUse, TypeOK
      <3>4. burns = 1 /\ burns' = 1
        BY <1>1, <3>2, <3>3
      <3>5. AbstractProof = "spent"
        BY <2>1, <3>2, <3>4 DEF AbstractProof
      <3>6. AbstractProof' = "live"
        BY <1>2, <3>1, <3>2, <3>4 DEF AbstractProof
      <3> QED
        BY <2>1, <3>1, <3>5, <3>6
    <2>2. CASE ~spent \/ exposed
      <3>1. exposed' = exposed
        BY <1>1, <2>2 DEF TypeOK
      <3> QED
        BY <1>1, <1>2, <3>1 DEF AbstractProof
    <2> QED
      BY <2>1, <2>2
  <1> QED
    BY <1>3, <1>4, <1>5 DEF OneShot!Next, OneShot!Crash

LEMMA EnvironmentRefines ==
    ASSUME IInv,
           \/ (\E c \in Caller \ {Nobody} : Timeout(c)) \/ ServeError \/ Flap \/ Flush
           \/ Reconnect \/ CleanupTick \/ AdvanceClock \/ CalmDown \/ RejectSet
    PROVE  UNCHANGED OneShot!vars
  <1>1. UNCHANGED <<pc, burns, exposed>>
    BY DEF Timeout, ServeError, Flap, Flush, Reconnect, CleanupTick,
           AdvanceClock, CalmDown, RejectSet, requestVars, historyVars
  <1>2. phase' = "none" <=> phase = "none"
    <2>1. CASE RejectSet
      <3>1. phase = "setting" /\ phase' = "issued"
        BY <2>1 DEF RejectSet, IInv, IssuerAwaits
      <3> QED
        BY <3>1
    <2>2. CASE ~RejectSet
      BY <2>2 DEF Timeout, ServeError, Flap, Flush, Reconnect, CleanupTick,
                  AdvanceClock, CalmDown
    <2> QED
      BY <2>1, <2>2
  <1> QED
    BY <1>1, <1>2, Stutters

\* ImplementsOneShotProof: whatever the two tiers, the client and the restarts
\* do, the routes see a proof that is minted once and redeemed once, reopened at
\* most once and by a restart only.
THEOREM Refinement == Spec => ImplementsOneShotProof
  <1>1. Init => OneShot!Init
    BY DEF Init, OneShot!Init, AbstractProof, AbstractOutcome
  <1>2. IInv /\ [Next]_vars => [OneShot!Next]_OneShot!vars
    <2> SUFFICES ASSUME IInv, [Next]_vars PROVE [OneShot!Next]_OneShot!vars
      OBVIOUS
    <2>1. CASE Issue
      <3>1. /\ phase = "none" /\ phase' # "none" /\ UNCHANGED <<pc, burns, exposed>>
        BY <2>1 DEF Issue, requestVars, historyVars
      <3>2. burns = 0
        BY <3>1 DEF IInv, NotBeforeIssued
      <3>3. AbstractProof = "unminted" /\ AbstractProof' = "live"
        BY <3>1, <3>2 DEF AbstractProof
      <3>4. UNCHANGED <<AbstractOutcome, exposed>>
        BY <3>1 DEF AbstractOutcome
      <3> QED
        BY <3>3, <3>4 DEF OneShot!Next, OneShot!Mint
    <2>2. CASE \E r \in Request : Step(r)
      BY <2>2, StepRefines
    <2>3. CASE Serve
      BY <2>3, ServeRefines
    <2>4. CASE \/ (\E c \in Caller \ {Nobody} : Timeout(c)) \/ ServeError \/ Flap \/ Flush
               \/ Reconnect \/ CleanupTick \/ AdvanceClock \/ CalmDown \/ RejectSet
      BY <2>4, EnvironmentRefines
    <2>5. CASE Restart
      BY <2>5, RestartRefines
    <2>6. CASE UNCHANGED vars
      BY <2>6, Stutters DEF vars, requestVars, historyVars
    <2> QED
      BY <2>1, <2>2, <2>3, <2>4, <2>5, <2>6 DEF Next
  <1> QED
    BY <1>1, <1>2, Inductive, PTL DEF Spec, OneShot!Spec, ImplementsOneShotProof
==============================================================================
