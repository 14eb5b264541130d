------------------------ MODULE SessionWindow_proofs ------------------------
(* Proofs about SessionWindow, for any number of requests, tokens and windows, *)
(* any clock and any bounds: no request is let through on a token or a window  *)
(* older than the rotation it began after, and none past a window's cap.       *)
EXTENDS SessionWindow, TLAPS

(***************************************************************************)
(* The inductive invariant.                                                *)
(***************************************************************************)

\* Stages of a request that was let through on a bearer token, and of one that has a window.
Bearing == {"authed", "read", "accepted", "verified", "reminting"}
Holding == {"authed", "read", "accepted", "storing", "indexing"}

\* Such requests have what they were let through on.
Carried ==
  \A r \in Req :
    /\ req[r].pc \in Bearing => req[r].jwt \in Jwt /\ jwt[req[r].jwt] # None
    /\ req[r].pc \in Holding => req[r].win \in Win

\* What a copy of a window says of its opening, wherever it is.
CopyAt(t, e) == t # 0 /\ e.issued = t /\ e.abs = t + Cap
CopyOf(w, e) == CopyAt(born[w], e)

\* The copies in the two tiers, in commands on their way, and in the hands of requests.
Copies ==
  /\ \A w \in Win : /\ red[w] # None => CopyOf(w, red[w])
                    /\ mem[w] # None => CopyOf(w, mem[w])
  /\ \A i \in 1..Len(pipe) : pipe[i].op = "slide" => CopyOf(pipe[i].win, pipe[i].entry)
  /\ \A r \in Req : req[r].pc \in {"storing", "indexing", "read"} =>
       req[r].entry \in Entry /\ CopyOf(req[r].win, req[r].entry)

\* A token says the second it was signed in.
Dated == \A j \in Jwt : jwt[j] # None => jwt[j].iat = Second(jwt[j].born)

IInv == TypeOK /\ now > 0 /\ Carried /\ Copies /\ Dated /\ RevokedStaysOut

(***************************************************************************)
(* Typing.                                                                 *)
(***************************************************************************)

\* A later instant is in the same second or a later one.
LEMMA Seconds ==
    ASSUME NEW a \in Nat, NEW b \in Nat, a <= b
    PROVE  Second(a) <= Second(b) /\ Second(a) \in Nat /\ Second(a) <= a
  BY SessionAssumption DEF Second

\* The clock's values, for the provers.
LEMMA Times ==
    /\ MaxNow \in Nat /\ Cap \in Nat \ {0} /\ Idle \in Nat \ {0}
    /\ Time \subseteq Nat /\ Time \subseteq Deadline /\ 0 \in Time
    /\ \A t \in Time : Second(t) \in Time /\ t + Cap \in Deadline /\ t + Idle \in Deadline
  <1>1. MaxNow \in Nat /\ Cap \in Nat \ {0} /\ Idle \in Nat \ {0}
    BY SessionAssumption
  <1>2. \A t \in Time : Second(t) \in Time
    BY <1>1, Seconds DEF Time
  <1> QED
    BY <1>1, <1>2 DEF Time, Deadline

\* The records the steps give a request.
LEMMA Requests ==
    ASSUME NEW pc \in Stages
    PROVE  /\ \A j \in Jwt \cup {None}, w \in Win \cup {None}, saw \in Time,
                 e \in Entry \cup {None}, cached \in BOOLEAN :
                 Action(pc, j, w, saw, e, cached) \in Request
           /\ \A stamp \in Time, listed \in SUBSET Win : Rotation(pc, stamp, listed) \in Request
  BY Times DEF Action, Rotation, Request

\* What a request holds.
LEMMA Held ==
    ASSUME TypeOK, NEW r \in Req
    PROVE  /\ req[r].pc \in Stages /\ req[r].jwt \in Jwt \cup {None}
           /\ req[r].win \in Win \cup {None} /\ req[r].saw \in Time
           /\ req[r].entry \in Entry \cup {None} /\ req[r].cached \in BOOLEAN
           /\ req[r].stamp \in Time /\ req[r].listed \subseteq Win
  BY DEF TypeOK, Request

\* What a token that is signed now says.
LEMMA Minted ==
    ASSUME TypeOK, NEW j \in Jwt, NEW re \in Time, jwt' = Mint(j, re)
    PROVE  /\ jwt' \in [Jwt -> Token \cup {None}]
           /\ jwt'[j] = [iat |-> Second(now), re |-> re, born |-> now]
           /\ \A k \in Jwt \ {j} : jwt'[k] = jwt[k]
  <1>1. [iat |-> Second(now), re |-> re, born |-> now] \in Token
    BY Times DEF Token, TypeOK
  <1> QED
    BY <1>1 DEF Mint, TypeOK

\* The entry of a window that is opened or slid now.
LEMMA Entries ==
    ASSUME TypeOK
    PROVE  /\ Opened \in Entry
           /\ \A e \in Entry : Slid(e) \in Entry
  <1>1. \A t \in Time, d \in Deadline : Least(now + Idle, d) \in Deadline
    BY Times DEF TypeOK, Least, Deadline, Time
  <1>2. now \in Time /\ now + Cap \in Deadline
    BY Times DEF TypeOK
  <1> QED
    BY <1>1, <1>2 DEF Opened, Slid, Entry

\* A request that becomes another of its kind.
LEMMA Become ==
    ASSUME TypeOK, NEW r \in Req, NEW request \in Request, Becomes(r, request)
    PROVE  /\ req' \in [Req -> Request] /\ req'[r] = request
           /\ \A q \in Req \ {r} : req'[q] = req[q]
  BY DEF TypeOK, Becomes

\* Every request that acts or rotates, and the resting one.
LEMMA Kinds ==
    ASSUME TypeOK
    PROVE  /\ Resting \in Request
           /\ \A pc \in Stages, j \in Jwt, w \in Win \cup {None} : Admitted(pc, j, w) \in Request
  <1>1. "idle" \in Stages /\ 0 \in Time /\ epoch \in Time /\ FALSE \in BOOLEAN
    BY Times DEF Stages, TypeOK
  <1> QED
    BY <1>1, Requests DEF Resting, Admitted

\* A command leaves the pipe, or enters it.
LEMMA Pipe ==
    ASSUME pipe \in Seq(Command)
    PROVE  /\ pipe # <<>> => Tail(pipe) \in Seq(Command) /\ Head(pipe) \in Command
           /\ pipe # <<>> => Head(pipe) = pipe[1] /\ Len(pipe) > 0
           /\ pipe # <<>> => \A i \in 1..Len(Tail(pipe)) : i + 1 \in 1..Len(pipe) /\ Tail(pipe)[i] = pipe[i + 1]
           /\ \A c \in Command : /\ Append(pipe, c) \in Seq(Command)
                                 /\ \A i \in 1..Len(Append(pipe, c)) :
                                       Append(pipe, c)[i] = c \/ (i \in 1..Len(pipe) /\ Append(pipe, c)[i] = pipe[i])
  OBVIOUS

\* The commands a consume sends.
LEMMA Commands ==
    ASSUME NEW w \in Win, NEW e \in Entry
    PROVE  /\ [op |-> "slide", win |-> w, entry |-> e] \in Command
           /\ [op |-> "drop", win |-> w] \in Command
  BY DEF Command

\* Every step keeps every variable in its type.
LEMMA Typing ==
    ASSUME TypeOK, Carried, Copies, [Next]_vars
    PROVE  TypeOK'
  <1>0. /\ now \in Time /\ epoch \in Time /\ jwt \in [Jwt -> Token \cup {None}]
        /\ red \in [Win -> Entry \cup {None}] /\ mem \in [Win -> Entry \cup {None}]
        /\ idx \subseteq Win /\ known \subseteq Win /\ pipe \in Seq(Command) /\ up \in BOOLEAN
        /\ req \in [Req -> Request] /\ born \in [Win -> Time]
        /\ cuts \in 0..MaxCuts /\ faults \in 0..MaxFaults
    BY DEF TypeOK
  <1>1. ASSUME Fault \/ NoFault
        PROVE  faults' \in 0..MaxFaults
    BY <1>0, <1>1, SessionAssumption DEF Fault, NoFault
  <1>H. \A r \in Req : req[r].pc \in Holding => req[r].win \in Win
    BY DEF Carried
  <1>2. CASE UNCHANGED vars
    BY <1>0, <1>2 DEF vars, TypeOK
  <1>3. ASSUME NEW r \in Req, NEW j \in Jwt, Login(r, j)
        PROVE  TypeOK'
    BY <1>0, <1>3, Minted, Times DEF Login, TypeOK
  <1>4. ASSUME NEW r \in Req, NEW j \in Jwt, AuthenticateSession(r, j)
        PROVE  TypeOK'
    BY <1>0, <1>4, Kinds, Become DEF AuthenticateSession, TypeOK, Stages
  <1>5. ASSUME NEW r \in Req, NEW j \in Jwt, RemintSession(r, j)
        PROVE  TypeOK'
    BY <1>0, <1>5, Kinds, Become, Minted, Times DEF RemintSession, TypeOK, Rest
  <1>6. ASSUME NEW r \in Req, NEW j \in Jwt, AuthenticateOpen(r, j)
        PROVE  TypeOK'
    BY <1>0, <1>6, Kinds, Become DEF AuthenticateOpen, TypeOK, Stages
  <1>7. ASSUME NEW r \in Req, NEW w \in Win, Open(r, w)
        PROVE  TypeOK'
    <2>1. /\ Opened \in Entry /\ "storing" \in Stages /\ FALSE \in BOOLEAN
          /\ req[r].jwt \in Jwt \cup {None} /\ req[r].saw \in Time
      BY Entries, Held DEF Stages
    <2>2. Action("storing", req[r].jwt, w, req[r].saw, Opened, FALSE) \in Request
      BY <2>1, Requests
    <2>3. req' \in [Req -> Request]
      BY <1>7, <2>2, Kinds, Become DEF Open, Rest
    <2> QED
      BY <1>0, <1>7, <2>1, <2>3 DEF Open, TypeOK
  <1>8. ASSUME NEW r \in Req, Store(r)
        PROVE  TypeOK'
    <2>1. Action("indexing", req[r].jwt, req[r].win, req[r].saw, req[r].entry, FALSE) \in Request
      BY Held, Requests DEF Stages
    <2>2. req' \in [Req -> Request]
      BY <1>8, <2>1, Become DEF Store
    <2> QED
      BY <1>0, <1>8, <2>2, Held DEF Store, TypeOK
  <1>9. ASSUME NEW r \in Req, StoreFails(r)
        PROVE  TypeOK'
    BY <1>0, <1>1, <1>9, <1>H, Held, Kinds, Become DEF StoreFails, TypeOK, Rest, Holding
  <1>10. ASSUME NEW r \in Req, Index(r)
         PROVE  TypeOK'
    BY <1>0, <1>1, <1>10, <1>H, Held, Kinds, Become DEF Index, TypeOK, Rest, Holding
  <1>11. ASSUME NEW r \in Req, NEW j \in Jwt, NEW w \in Win, Authenticate(r, j, w)
         PROVE  TypeOK'
    BY <1>0, <1>11, Kinds, Become DEF Authenticate, TypeOK, Stages
  <1>12. ASSUME NEW r \in Req, NEW e \in Entry, NEW cached \in BOOLEAN, Read(r, e, cached)
         PROVE  req' \in [Req -> Request]
    <2>1. Action("read", req[r].jwt, req[r].win, req[r].saw, e, cached) \in Request
      BY Held, Requests DEF Stages
    <2> QED
      BY <1>12, <2>1, Become DEF Read
  <1>13. ASSUME NEW r \in Req, ReadRedis(r)
         PROVE  TypeOK'
    <2>1. red[req[r].win] \in Entry /\ FALSE \in BOOLEAN
      BY <1>0, <1>H, <1>13 DEF ReadRedis, Holding
    <2>2. req' \in [Req -> Request]
      BY <1>12, <1>13, <2>1 DEF ReadRedis
    <2> QED
      BY <1>0, <1>13, <2>2 DEF ReadRedis, TypeOK
  <1>14. ASSUME NEW r \in Req, ReadMemory(r)
         PROVE  TypeOK'
    <2>1. Cached(req[r].win) => mem[req[r].win] \in Entry
      BY <1>0, <1>H, <1>14 DEF ReadMemory, Holding, Cached
    <2>2. TRUE \in BOOLEAN
      OBVIOUS
    <2>3. req' \in [Req -> Request]
      BY <1>12, <1>14, <2>1, <2>2, Kinds, Become DEF ReadMemory, Rest
    <2>4. faults' \in 0..MaxFaults
      BY <1>1, <1>14 DEF ReadMemory
    <2> QED
      BY <1>0, <1>14, <2>3, <2>4 DEF ReadMemory, TypeOK
  <1>15. ASSUME NEW r \in Req, Consume(r)
         PROVE  TypeOK'
    <2>1. req[r].win \in Win /\ req[r].pc = "read"
      BY <1>H, <1>15 DEF Consume, Holding
    <2>2. Action("accepted", req[r].jwt, req[r].win, req[r].saw, req[r].entry, req[r].cached) \in Request
      BY Held, Requests DEF Stages
    <2>3. req' \in [Req -> Request]
      BY <1>15, <2>2, Become DEF Consume
    <2>4. Slid(req[r].entry) \in Entry
      BY <2>1, Entries DEF Copies
    <2>5. mem' \in [Win -> Entry \cup {None}]
      BY <1>0, <1>15, <2>1, <2>4 DEF Consume
    <2>6. pipe' \in Seq(Command)
      BY <1>0, <1>15, <2>1, <2>4, Commands, Pipe DEF Consume
    <2> QED
      BY <1>0, <1>15, <2>3, <2>5, <2>6 DEF Consume, TypeOK
  <1>16. ASSUME NEW r \in Req, Refuse(r)
         PROVE  TypeOK'
    <2>1. req[r].win \in Win
      BY <1>H, <1>16 DEF Refuse, Holding
    <2>2. PICK e \in Entry : TRUE
      BY Entries
    <2>3. pipe' \in Seq(Command)
      BY <1>0, <1>16, <2>1, <2>2, Commands, Pipe DEF Refuse
    <2> QED
      BY <1>0, <1>16, <2>1, <2>3, Kinds, Become DEF Refuse, TypeOK, Rest
  <1>17. ASSUME NEW r \in Req, Finish(r)
         PROVE  TypeOK'
    BY <1>0, <1>17, Kinds, Become DEF Finish, TypeOK, Rest
  <1>18. ASSUME NEW r \in Req, Reset(r)
         PROVE  TypeOK'
    <2>1. Rotation("listing", 0, {}) \in Request
      BY Requests, Times DEF Stages
    <2> QED
      BY <1>0, <1>18, <2>1, Become, SessionAssumption DEF Reset, TypeOK
  <1>19. ASSUME NEW r \in Req, Stamp(r)
         PROVE  TypeOK'
    <2>1. Rotation("stamped", now, {}) \in Request
      BY <1>0, Requests, Times DEF Stages
    <2> QED
      BY <1>0, <1>19, <2>1, Become, SessionAssumption DEF Stamp, TypeOK
  <1>20. ASSUME NEW r \in Req, Recover(r)
         PROVE  TypeOK'
    <2>1. Rotation("listing", req[r].stamp, {}) \in Request
      BY Held, Requests DEF Stages
    <2> QED
      BY <1>0, <1>20, <2>1, Become, Held DEF Recover, TypeOK
  <1>21. ASSUME NEW r \in Req, List(r)
         PROVE  TypeOK'
    <2>1. Rotation("deleting", req[r].stamp, idx) \in Request
      BY <1>0, Held, Requests DEF Stages
    <2> QED
      BY <1>0, <1>21, <2>1, Become DEF List, TypeOK
  <1>22. ASSUME NEW r \in Req, NEW j \in Jwt, Sweep(r, j)
         PROVE  /\ mem' \in [Win -> Entry \cup {None}] /\ jwt' \in [Jwt -> Token \cup {None}]
                /\ req' \in [Req -> Request]
    <2>1. jwt' \in [Jwt -> Token \cup {None}]
      BY <1>0, <1>22, Held, Minted DEF Sweep
    <2> QED
      BY <1>22, <2>1, Kinds, Become DEF Sweep, Rest
  <1>23. ASSUME NEW r \in Req, NEW j \in Jwt, Delete(r, j)
         PROVE  TypeOK'
    <2>1. red' \in [Win -> Entry \cup {None}]
      BY <1>0, <1>23 DEF Delete
    <2> QED
      BY <1>0, <1>22, <1>23, <2>1 DEF Delete, TypeOK
  <1>24. ASSUME NEW r \in Req, NEW j \in Jwt, InvalidateFails(r, j)
         PROVE  TypeOK'
    <2>1. faults' \in 0..MaxFaults
      BY <1>1, <1>24 DEF InvalidateFails
    <2> QED
      BY <1>0, <1>22, <1>24, <2>1 DEF InvalidateFails, TypeOK
  <1>25. ASSUME Tick
         PROVE  TypeOK'
    BY <1>0, <1>25, SessionAssumption DEF Tick, TypeOK, Time
  <1>26. ASSUME ServePipe
         PROVE  TypeOK'
    <2> DEFINE c == Head(pipe)
    <2>1. c \in Command /\ pipe' \in Seq(Command)
      BY <1>0, <1>26, Pipe DEF ServePipe
    <2>2. CASE c.op = "slide"
      <3>1. c.win \in Win /\ c.entry \in Entry
        BY <2>1, <2>2 DEF Command
      <3>2. Slide(c) /\ UNCHANGED idx
        BY <1>26, <2>2 DEF ServePipe
      <3>3. red' \in [Win -> Entry \cup {None}] /\ mem' \in [Win -> Entry \cup {None}]
        BY <1>0, <3>1, <3>2 DEF Slide
      <3>4. faults' \in 0..MaxFaults
        BY <1>1, <3>2 DEF Slide
      <3> QED
        BY <1>0, <1>26, <2>1, <3>2, <3>3, <3>4 DEF ServePipe, TypeOK
    <2>3. CASE c.op # "slide"
      <3>1. /\ red' = [red EXCEPT ![c.win] = None] /\ idx' = idx \ {c.win}
            /\ UNCHANGED mem /\ NoFault
        BY <1>26, <2>3 DEF ServePipe
      <3> QED
        BY <1>0, <1>1, <1>26, <2>1, <3>1 DEF ServePipe, TypeOK
    <2> QED
      BY <2>2, <2>3
  <1>27. ASSUME Flap \/ Reconnect
         PROVE  TypeOK'
    <2>1. <<>> \in Seq(Command) /\ FALSE \in BOOLEAN /\ TRUE \in BOOLEAN
      OBVIOUS
    <2>2. CASE Flap
      BY <1>0, <1>1, <2>1, <2>2 DEF Flap, TypeOK
    <2>3. CASE Reconnect
      BY <1>0, <2>1, <2>3 DEF Reconnect, TypeOK
    <2> QED
      BY <1>27, <2>2, <2>3
  <1>28. ASSUME Evict
         PROVE  TypeOK'
    BY <1>0, <1>1, <1>28 DEF Evict, TypeOK
  <1>29. ASSUME Restart
         PROVE  TypeOK'
    BY <1>0, <1>1, <1>29, Kinds DEF Restart, TypeOK
  <1> QED
    BY <1>2, <1>3, <1>4, <1>5, <1>6, <1>7, <1>8, <1>9, <1>10, <1>11, <1>13, <1>14, <1>15, <1>16,
       <1>17, <1>18, <1>19, <1>20, <1>21, <1>23, <1>24, <1>25, <1>26, <1>27, <1>28, <1>29
       DEF Next, Environment, Minting, Opening, Acting, Rotating

(***************************************************************************)
(* What the steps may do.                                                  *)
(***************************************************************************)

\* A token says what it said when it was signed, and the second of it.
LEMMA TokenSteps ==
    ASSUME TypeOK, [Next]_vars, NEW j \in Jwt
    PROVE  \/ jwt'[j] = jwt[j]
           \/ jwt[j] = None /\ jwt'[j].iat = Second(now) /\ jwt'[j].born = now
  <1>1. ASSUME NEW k \in Jwt, NEW re \in Time, NextToken(k), jwt' = Mint(k, re)
        PROVE  \/ jwt'[j] = jwt[j]
               \/ jwt[j] = None /\ jwt'[j].iat = Second(now) /\ jwt'[j].born = now
    <2>1. CASE j = k
      <3>1. jwt'[k] = [iat |-> Second(now), re |-> re, born |-> now]
        BY <1>1, Minted
      <3> QED
        BY <1>1, <2>1, <3>1 DEF NextToken
    <2>2. CASE j # k
      BY <1>1, <2>2, Minted
    <2> QED
      BY <2>1, <2>2
  <1>2. \/ UNCHANGED jwt
        \/ \E k \in Jwt, re \in Time : NextToken(k) /\ jwt' = Mint(k, re)
    <2>1. ASSUME NEW r \in Req, Minting(r)
          PROVE  UNCHANGED jwt \/ \E k \in Jwt, re \in Time : NextToken(k) /\ jwt' = Mint(k, re)
      BY <2>1, Times DEF Minting, Login, AuthenticateSession, RemintSession
    <2>2. ASSUME NEW r \in Req, Opening(r) \/ Acting(r)
          PROVE  UNCHANGED jwt
      BY <2>2 DEF Opening, AuthenticateOpen, Open, Store, StoreFails, Index,
                  Acting, Authenticate, ReadRedis, ReadMemory, Consume, Refuse, Finish
    <2>3. ASSUME NEW r \in Req, NEW k \in Jwt, Sweep(r, k)
          PROVE  UNCHANGED jwt \/ \E re \in Time : NextToken(k) /\ jwt' = Mint(k, re)
      BY <2>3, Held DEF Sweep
    <2>4. ASSUME NEW r \in Req, Rotating(r)
          PROVE  UNCHANGED jwt \/ \E k \in Jwt, re \in Time : NextToken(k) /\ jwt' = Mint(k, re)
      BY <2>3, <2>4 DEF Rotating, Reset, Stamp, Recover, List, Delete, InvalidateFails
    <2>5. ASSUME Environment \/ UNCHANGED vars
          PROVE  UNCHANGED jwt
      BY <2>5 DEF Environment, Tick, ServePipe, Flap, Reconnect, Evict, Restart, vars
    <2> QED
      BY <2>1, <2>2, <2>4, <2>5 DEF Next
  <1> QED
    BY <1>1, <1>2

\* A window is opened once, now; the clock does not go back.
LEMMA WindowSteps ==
    ASSUME TypeOK, [Next]_vars
    PROVE  /\ \A w \in Win : born'[w] = born[w] \/ (born[w] = 0 /\ born'[w] = now)
           /\ now' \in {now, now + 1}
  <1>1. ASSUME NEW r \in Req, Minting(r) \/ Acting(r) \/ Rotating(r)
        PROVE  UNCHANGED <<born, now>>
    <2>1. CASE Minting(r)
      BY <2>1 DEF Minting, Login, AuthenticateSession, RemintSession
    <2>2. CASE Acting(r)
      BY <2>2 DEF Acting, Authenticate, ReadRedis, ReadMemory, Consume, Refuse, Finish
    <2>3. CASE Rotating(r)
      BY <2>3 DEF Rotating, Reset, Stamp, Recover, List, Delete, InvalidateFails
    <2> QED
      BY <1>1, <2>1, <2>2, <2>3
  <1>2. ASSUME NEW r \in Req, Opening(r)
        PROVE  UNCHANGED now /\ \A w \in Win : born'[w] = born[w] \/ (born[w] = 0 /\ born'[w] = now)
    <2>1. ASSUME NEW v \in Win, Open(r, v)
          PROVE  UNCHANGED now /\ \A w \in Win : born'[w] = born[w] \/ (born[w] = 0 /\ born'[w] = now)
      BY <2>1 DEF Open, NextWindow, TypeOK
    <2>2. ASSUME ~ \E v \in Win : Open(r, v)
          PROVE  UNCHANGED <<born, now>>
      BY <1>2, <2>2 DEF Opening, AuthenticateOpen, Store, StoreFails, Index
    <2> QED
      BY <2>1, <2>2
  <1>3. ASSUME Environment \/ UNCHANGED vars
        PROVE  UNCHANGED born /\ now' \in {now, now + 1}
    BY <1>3 DEF Environment, Tick, ServePipe, Flap, Reconnect, Evict, Restart, vars
  <1> QED
    BY <1>1, <1>2, <1>3 DEF Next


\* A request is let through, opens a window, writes it, reads a copy, passes.
LetIn(r) ==
  \E j \in Jwt, w \in Win \cup {None}, pc \in {"authed", "reminting", "verified"} :
    /\ jwt[j] # None /\ ~Revoked(j) /\ (pc = "authed" => w \in Win)
    /\ UNCHANGED jwt /\ req'[r] = Admitted(pc, j, w)
Opens(r) ==
  \E w \in Win :
    /\ Open(r, w) /\ req[r].pc = "verified"
    /\ req'[r] = Action("storing", req[r].jwt, w, req[r].saw, Opened, FALSE)
Stores(r) ==
  /\ req[r].pc = "storing" /\ UNCHANGED <<born, jwt>>
  /\ req'[r] = Action("indexing", req[r].jwt, req[r].win, req[r].saw, req[r].entry, FALSE)
ReadsCopy(r) ==
  \E e \in Entry, cached \in BOOLEAN :
    /\ req[r].pc = "authed" /\ UNCHANGED <<born, jwt>>
    /\ e # None /\ e \in {red[req[r].win], mem[req[r].win]}
    /\ req'[r] = Action("read", req[r].jwt, req[r].win, req[r].saw, e, cached)
Passes(r) ==
  /\ req[r].pc = "read" /\ PastEpoch(r) /\ InTime(req[r].entry) /\ UNCHANGED <<born, jwt>>
  /\ req'[r] = Action("accepted", req[r].jwt, req[r].win, req[r].saw, req[r].entry, req[r].cached)
Course(r) ==
  \/ req'[r] = req[r]
  \/ req'[r].pc \in {"idle", "stamped", "listing", "deleting"}
  \/ LetIn(r) \/ Opens(r) \/ Stores(r) \/ ReadsCopy(r) \/ Passes(r)

\* What a step does to a request: nothing, it rests or rotates, it is let through, or it goes on.
LEMMA RequestSteps ==
    ASSUME TypeOK, Carried, [Next]_vars, NEW r \in Req
    PROVE  Course(r)
  <1>0. req \in [Req -> Request]
    BY DEF TypeOK
  <1>1. ASSUME NEW q \in Req, NEW request, Becomes(q, request)
        PROVE  req'[r] = req[r] \/ (q = r /\ req'[r] = request)
    BY <1>0, <1>1 DEF Becomes
  <1>2. Resting.pc = "idle"
    BY DEF Resting, Action
  <1>3. ASSUME NEW q \in Req, Rest(q)
        PROVE  Course(r)
    BY <1>1, <1>2, <1>3 DEF Rest, Course
  <1>4. ASSUME NEW q \in Req, NEW pc \in {"stamped", "listing", "deleting"}, NEW stamp, NEW listed,
               Becomes(q, Rotation(pc, stamp, listed))
        PROVE  Course(r)
    <2>1. Rotation(pc, stamp, listed).pc = pc
      BY DEF Rotation
    <2> QED
      BY <1>1, <1>4, <2>1 DEF Course
  <1>5. ASSUME NEW q \in Req, Minting(q)
        PROVE  Course(r)
    <2>1. ASSUME NEW j \in Jwt, Login(q, j)
          PROVE  Course(r)
      BY <2>1 DEF Login, Course
    <2>2. ASSUME NEW j \in Jwt, AuthenticateSession(q, j)
          PROVE  Course(r)
      BY <1>1, <2>2 DEF AuthenticateSession, Course, LetIn, Admits
    <2>3. ASSUME NEW j \in Jwt, RemintSession(q, j)
          PROVE  Course(r)
      BY <1>3, <2>3 DEF RemintSession
    <2> QED
      BY <1>5, <2>1, <2>2, <2>3 DEF Minting
  <1>6. ASSUME NEW q \in Req, Opening(q)
        PROVE  Course(r)
    <2>1. ASSUME NEW j \in Jwt, AuthenticateOpen(q, j)
          PROVE  Course(r)
      BY <1>1, <2>1 DEF AuthenticateOpen, Course, LetIn, Admits
    <2>2. ASSUME NEW w \in Win, Open(q, w)
          PROVE  Course(r)
      <3>1. CASE Rest(q)
        BY <1>3, <3>1
      <3>2. CASE ~Rest(q)
        <4>1. /\ req[q].pc = "verified"
              /\ Becomes(q, Action("storing", req[q].jwt, w, req[q].saw, Opened, FALSE))
          BY <2>2, <3>2 DEF Open
        <4> QED
          BY <1>1, <2>2, <4>1 DEF Course, Opens
      <3> QED
        BY <3>1, <3>2
    <2>3. CASE Store(q)
      <3>1. /\ req[q].pc = "storing" /\ UNCHANGED <<born, jwt>>
            /\ Becomes(q, Action("indexing", req[q].jwt, req[q].win, req[q].saw, req[q].entry, FALSE))
        BY <2>3 DEF Store
      <3> QED
        <4>1. \/ req'[r] = req[r]
              \/ /\ q = r
                 /\ req'[r] = Action("indexing", req[q].jwt, req[q].win, req[q].saw, req[q].entry, FALSE)
          BY <1>1, <3>1
        <4> QED
          BY <3>1, <4>1 DEF Course, Stores
    <2>4. CASE StoreFails(q) \/ Index(q)
      BY <1>3, <2>4 DEF StoreFails, Index
    <2> QED
      BY <1>6, <2>1, <2>2, <2>3, <2>4 DEF Opening
  <1>7. ASSUME NEW q \in Req, Acting(q)
        PROVE  Course(r)
    <2>1. ASSUME NEW j \in Jwt, NEW w \in Win, Authenticate(q, j, w)
          PROVE  Course(r)
      BY <1>1, <2>1 DEF Authenticate, Course, LetIn, Admits
    <2>2. ASSUME NEW e, NEW cached \in BOOLEAN, e # None, req[q].pc = "authed", UNCHANGED <<born, jwt>>,
                 e \in {red[req[q].win], mem[req[q].win]}, Read(q, e, cached)
          PROVE  Course(r)
      <3>1. e \in Entry
        BY <2>2 DEF Carried, Holding, TypeOK
      <3> QED
        BY <1>1, <2>2, <3>1 DEF Read, Course, ReadsCopy
    <2>3. CASE ReadRedis(q)
      BY <2>2, <2>3 DEF ReadRedis
    <2>4. CASE ReadMemory(q)
      <3>1. CASE Rest(q)
        BY <1>3, <3>1
      <3>2. CASE ~Rest(q)
        <4>1. mem[req[q].win] # None /\ Read(q, mem[req[q].win], TRUE)
          BY <2>4, <3>2 DEF ReadMemory, Cached
        <4>2. req[q].pc = "authed" /\ UNCHANGED <<born, jwt>> /\ TRUE \in BOOLEAN
          BY <2>4 DEF ReadMemory
        <4> QED
          BY <2>2, <4>1, <4>2
      <3> QED
        BY <3>1, <3>2
    <2>5. CASE Consume(q)
      BY <1>1, <2>5 DEF Consume, Usable, Course, Passes
    <2>6. CASE Refuse(q) \/ Finish(q)
      BY <1>3, <2>6 DEF Refuse, Finish
    <2> QED
      BY <1>7, <2>1, <2>3, <2>4, <2>5, <2>6 DEF Acting
  <1>8. ASSUME NEW q \in Req, Rotating(q)
        PROVE  Course(r)
    <2>1. CASE Reset(q) \/ Stamp(q) \/ Recover(q) \/ List(q)
      BY <1>4, <2>1 DEF Reset, Stamp, Recover, List
    <2>2. ASSUME NEW j \in Jwt, Delete(q, j) \/ InvalidateFails(q, j)
          PROVE  Course(r)
      BY <1>3, <2>2 DEF Delete, InvalidateFails, Sweep
    <2> QED
      BY <1>8, <2>1, <2>2 DEF Rotating
  <1>9. CASE Environment \/ UNCHANGED vars
    <2>1. CASE Restart
      BY <1>2, <2>1 DEF Restart, Course
    <2>2. CASE ~Restart
      <3>1. UNCHANGED req
        BY <1>9, <2>2 DEF Environment, Tick, ServePipe, Flap, Reconnect, Evict, vars
      <3> QED
        BY <3>1 DEF Course
    <2> QED
      BY <2>1, <2>2
  <1> QED
    BY <1>5, <1>6, <1>7, <1>8, <1>9 DEF Next

(***************************************************************************)
(* The parts of the invariant.                                             *)
(***************************************************************************)

\* Every step leaves the requests what they were let through on.
LEMMA CarriedKept ==
    ASSUME TypeOK, Carried, [Next]_vars
    PROVE  Carried'
  <1> SUFFICES ASSUME NEW r \in Req
               PROVE  /\ req'[r].pc \in Bearing => req'[r].jwt \in Jwt /\ jwt'[req'[r].jwt] # None
                      /\ req'[r].pc \in Holding => req'[r].win \in Win
    BY DEF Carried
  <1>0. /\ req[r].pc \in Bearing => req[r].jwt \in Jwt /\ jwt[req[r].jwt] # None
        /\ req[r].pc \in Holding => req[r].win \in Win
    BY DEF Carried
  <1>1. ASSUME NEW j \in Jwt, jwt[j] # None
        PROVE  jwt'[j] # None
    BY <1>1, TokenSteps
  <1>2. CASE req'[r] = req[r]
    BY <1>0, <1>1, <1>2
  <1>3. CASE req'[r].pc \in {"idle", "stamped", "listing", "deleting"}
    BY <1>3 DEF Bearing, Holding
  <1>4. CASE LetIn(r)
    BY <1>4 DEF LetIn, Admitted, Action, Holding
  <1>5. CASE Opens(r)
    BY <1>0, <1>1, <1>5 DEF Opens, Action, Bearing, Holding
  <1>6. CASE Stores(r)
    BY <1>0, <1>6 DEF Stores, Action, Bearing, Holding
  <1>7. CASE ReadsCopy(r)
    BY <1>0, <1>7 DEF ReadsCopy, Action, Bearing, Holding
  <1>8. CASE Passes(r)
    BY <1>0, <1>8 DEF Passes, Action, Bearing, Holding
  <1> QED
    BY <1>2, <1>3, <1>4, <1>5, <1>6, <1>7, <1>8, RequestSteps DEF Course

\* Every step leaves the tokens dated.
LEMMA DatedKept ==
    ASSUME TypeOK, Dated, [Next]_vars
    PROVE  Dated'
  <1> SUFFICES ASSUME NEW j \in Jwt, jwt'[j] # None
               PROVE  jwt'[j].iat = Second(jwt'[j].born)
    BY DEF Dated, Second
  <1> QED
    BY TokenSteps DEF Dated

\* A token that passes the check was signed after the epoch, or is the one its rotation returned.
LEMMA Spared ==
    ASSUME TypeOK, Dated, NEW j \in Jwt, jwt[j] # None, ~Revoked(j), epoch # 0
    PROVE  jwt[j].born > epoch \/ jwt[j].re = epoch
  <1>1. /\ jwt[j] \in Token /\ epoch \in Nat /\ jwt[j].born \in Nat
        /\ jwt[j].iat = Second(jwt[j].born)
    BY Times DEF TypeOK, Dated, Token
  <1>2. CASE jwt[j].born <= epoch
    <2>1. Second(jwt[j].born) <= Second(epoch)
      BY <1>1, <1>2, Seconds
    <2> QED
      BY <1>1, <2>1 DEF Revoked
  <1> QED
    BY <1>1, <1>2

\* A copy of a window stays one.
LEMMA CopyLasts ==
    ASSUME TypeOK, [Next]_vars, NEW w \in Win, NEW e, CopyOf(w, e)
    PROVE  CopyAt(born'[w], e) /\ born'[w] = born[w]
  BY WindowSteps DEF CopyOf, CopyAt

\* Every step keeps out those whom a rotation shut out: the epoch a request saw stands, the token
\* it came with and the window it passes under are younger.
LEMMA RevokedKept ==
    ASSUME TypeOK, Carried, Copies, Dated, RevokedStaysOut, [Next]_vars
    PROVE  RevokedStaysOut'
  <1> SUFFICES ASSUME NEW r \in Req
               PROVE  /\ req'[r].pc \in Bearing /\ req'[r].saw # 0 =>
                           \/ jwt'[req'[r].jwt].born > req'[r].saw
                           \/ jwt'[req'[r].jwt].re = req'[r].saw
                      /\ req'[r].pc = "accepted" /\ req'[r].saw # 0 => born'[req'[r].win] > req'[r].saw
    BY DEF RevokedStaysOut, Bearing
  <1>0. /\ req[r].pc \in Bearing /\ req[r].saw # 0 =>
             jwt[req[r].jwt].born > req[r].saw \/ jwt[req[r].jwt].re = req[r].saw
        /\ req[r].pc = "accepted" /\ req[r].saw # 0 => born[req[r].win] > req[r].saw
    BY DEF RevokedStaysOut, Bearing
  <1>1. /\ req[r].pc \in Bearing => req[r].jwt \in Jwt /\ jwt[req[r].jwt] # None
        /\ req[r].pc \in Holding => req[r].win \in Win
    BY DEF Carried
  <1>2. req[r].pc \in Bearing => jwt'[req[r].jwt] = jwt[req[r].jwt]
    BY <1>1, TokenSteps
  <1>3. CASE req'[r] = req[r]
    <2>1. req[r].pc = "accepted" /\ req[r].saw # 0 => born'[req[r].win] = born[req[r].win]
      <3>1. req[r].pc = "accepted" => req[r].win \in Win
        BY <1>1 DEF Holding
      <3>2. req[r].saw \in Nat
        BY Held, Times
      <3>3. \A w \in Win : born[w] \in Nat
        BY Times DEF TypeOK
      <3> QED
        BY <1>0, <3>1, <3>2, <3>3, WindowSteps
    <2> QED
      BY <1>0, <1>2, <1>3, <2>1
  <1>4. CASE req'[r].pc \in {"idle", "stamped", "listing", "deleting"}
    BY <1>4 DEF Bearing
  <1>5. CASE LetIn(r)
    BY <1>5, Spared DEF LetIn, Admitted, Action
  <1>6. CASE Opens(r)
    BY <1>6 DEF Opens, Action, Bearing
  <1>7. CASE Stores(r)
    BY <1>7 DEF Stores, Action, Bearing
  <1>8. CASE ReadsCopy(r)
    BY <1>0, <1>8 DEF ReadsCopy, Action, Bearing
  <1>9. CASE Passes(r)
    <2>1. CopyOf(req[r].win, req[r].entry)
      BY <1>9 DEF Passes, Copies
    <2> QED
      BY <1>0, <1>9, <2>1 DEF Passes, PastEpoch, Action, Bearing, CopyOf, CopyAt
  <1> QED
    BY <1>3, <1>4, <1>5, <1>6, <1>7, <1>8, <1>9, RequestSteps DEF Course

\* A slide leaves the birth and the cap of a window.
LEMMA SlidCopies == \A w \in Win, e \in Entry : CopyOf(w, e) => CopyOf(w, Slid(e))
  BY DEF CopyAt, CopyOf, Slid

\* Every step keeps the copies in the two tiers true,
LEMMA TiersKept ==
    ASSUME TypeOK, now > 0, Carried, Copies, [Next]_vars, NEW w \in Win
    PROVE  /\ red'[w] # None => CopyAt(born'[w], red'[w])
           /\ mem'[w] # None => CopyAt(born'[w], mem'[w])
  <1>0. /\ red \in [Win -> Entry \cup {None}] /\ mem \in [Win -> Entry \cup {None}]
        /\ red[w] # None => CopyAt(born'[w], red[w])
        /\ mem[w] # None => CopyAt(born'[w], mem[w])
    BY CopyLasts DEF TypeOK, Copies
  <1>1. \A r \in Req : req[r].pc \in {"storing", "indexing", "read"} /\ req[r].win = w =>
           req[r].entry \in Entry /\ CopyOf(w, req[r].entry) /\ CopyAt(born'[w], req[r].entry)
    BY CopyLasts DEF Copies
  <1>2. ASSUME UNCHANGED <<red, mem>>
        PROVE  /\ red'[w] # None => CopyAt(born'[w], red'[w])
               /\ mem'[w] # None => CopyAt(born'[w], mem'[w])
    BY <1>0, <1>2
  <1>3. ASSUME NEW r \in Req, Minting(r)
        PROVE  UNCHANGED <<red, mem>>
    BY <1>3 DEF Minting, Login, AuthenticateSession, RemintSession
  <1>4. ASSUME NEW r \in Req, Opening(r)
        PROVE  /\ red'[w] # None => CopyAt(born'[w], red'[w])
               /\ mem'[w] # None => CopyAt(born'[w], mem'[w])
    <2>1. ASSUME NEW v \in Win, Open(r, v)
          PROVE  /\ red'[w] # None => CopyAt(born'[w], red'[w])
                 /\ mem'[w] # None => CopyAt(born'[w], mem'[w])
      <3>1. /\ mem' = [mem EXCEPT ![v] = Opened] /\ red' = red
            /\ born' = [born EXCEPT ![v] = now]
        BY <2>1 DEF Open
      <3>2. CASE v = w
        <4>1. born'[w] = now /\ mem'[w] = Opened
          BY <1>0, <3>1, <3>2 DEF TypeOK
        <4>2. CopyAt(now, Opened)
          BY Times DEF TypeOK, CopyAt, Opened
        <4> QED
          BY <1>0, <3>1, <4>1, <4>2
      <3>3. CASE v # w
        BY <1>0, <3>1, <3>3
      <3> QED
        BY <3>2, <3>3
    <2>2. ASSUME NEW v \in Win, red' = [red EXCEPT ![v] = req[r].entry], UNCHANGED mem,
                 req[r].pc = "storing", req[r].win = v
          PROVE  /\ red'[w] # None => CopyAt(born'[w], red'[w])
                 /\ mem'[w] # None => CopyAt(born'[w], mem'[w])
      BY <1>0, <1>1, <2>2
    <2>3. req[r].pc = "storing" => req[r].win \in Win
      BY DEF Carried, Holding
    <2>4. CASE Store(r) \/ StoreFails(r)
      <3>1. /\ req[r].pc = "storing" /\ UNCHANGED mem
            /\ red' = red \/ red' = [red EXCEPT ![req[r].win] = req[r].entry]
        BY <2>4 DEF Store, StoreFails
      <3> QED
        BY <1>2, <2>2, <2>3, <3>1
    <2>5. CASE Index(r) \/ \E j \in Jwt : AuthenticateOpen(r, j)
      BY <1>2, <2>5 DEF Index, AuthenticateOpen
    <2> QED
      BY <1>4, <2>1, <2>4, <2>5 DEF Opening
  <1>5. ASSUME NEW r \in Req, Acting(r)
        PROVE  /\ red'[w] # None => CopyAt(born'[w], red'[w])
               /\ mem'[w] # None => CopyAt(born'[w], mem'[w])
    <2>1. CASE Consume(r)
      <3>1. /\ mem' = [mem EXCEPT ![req[r].win] = Slid(req[r].entry)] /\ red' = red
            /\ req[r].pc = "read"
        BY <2>1 DEF Consume
      <3>2. CASE req[r].win = w
        <4>1. CopyOf(w, Slid(req[r].entry))
          BY <1>1, <3>1, <3>2, SlidCopies
        <4> QED
          BY <1>0, <3>1, <3>2, <4>1, CopyLasts
      <3>3. CASE req[r].win # w
        BY <1>0, <3>1, <3>3
      <3> QED
        BY <3>2, <3>3
    <2>2. CASE Refuse(r)
      BY <1>0, <2>2 DEF Refuse
    <2>3. CASE ~Consume(r) /\ ~Refuse(r)
      BY <1>2, <1>5, <2>3 DEF Acting, Authenticate, ReadRedis, ReadMemory, Finish
    <2> QED
      BY <2>1, <2>2, <2>3
  <1>6. ASSUME NEW r \in Req, Rotating(r)
        PROVE  /\ red'[w] # None => CopyAt(born'[w], red'[w])
               /\ mem'[w] # None => CopyAt(born'[w], mem'[w])
    <2>1. CASE Reset(r) \/ Stamp(r) \/ Recover(r) \/ List(r)
      BY <1>2, <2>1 DEF Reset, Stamp, Recover, List
    <2>2. ASSUME NEW j \in Jwt, Delete(r, j) \/ InvalidateFails(r, j)
          PROVE  /\ red'[w] # None => CopyAt(born'[w], red'[w])
                 /\ mem'[w] # None => CopyAt(born'[w], mem'[w])
      BY <1>0, <2>2 DEF Delete, InvalidateFails, Sweep
    <2> QED
      BY <1>6, <2>1, <2>2 DEF Rotating
  <1>7. CASE ServePipe
    <2> DEFINE c == Head(pipe)
    <2>1. c \in Command /\ pipe # <<>> /\ c = pipe[1] /\ 1 \in 1..Len(pipe)
      BY <1>7, Pipe DEF ServePipe, TypeOK
    <2>2. CASE c.op = "slide"
      <3>1. c.win \in Win /\ CopyOf(c.win, c.entry)
        BY <2>1, <2>2 DEF Command, Copies
      <3>2. Slide(c)
        BY <1>7, <2>2 DEF ServePipe
      <3>3. CopyAt(born'[c.win], c.entry)
        BY <3>1, CopyLasts
      <3> QED
        BY <1>0, <3>1, <3>2, <3>3 DEF Slide
    <2>3. CASE c.op # "slide"
      BY <1>0, <1>7, <2>3 DEF ServePipe
    <2> QED
      BY <2>2, <2>3
  <1>8. CASE Tick \/ Flap \/ Reconnect \/ Evict \/ Restart \/ UNCHANGED vars
    BY <1>0, <1>8 DEF Tick, Flap, Reconnect, Evict, Restart, vars
  <1> QED
    BY <1>2, <1>3, <1>4, <1>5, <1>6, <1>7, <1>8 DEF Next, Environment

\* ... those that commands carry,
LEMMA PipeKept ==
    ASSUME TypeOK, Carried, Copies, [Next]_vars, NEW i \in 1..Len(pipe'), pipe'[i].op = "slide"
    PROVE  CopyAt(born'[pipe'[i].win], pipe'[i].entry)
  <1>0. /\ pipe \in Seq(Command)
        /\ \A k \in 1..Len(pipe) : pipe[k].op = "slide" => pipe[k].win \in Win /\ CopyOf(pipe[k].win, pipe[k].entry)
    BY DEF TypeOK, Copies, Command
  <1>1. \A k \in 1..Len(pipe) : pipe[k].op = "slide" => CopyAt(born'[pipe[k].win], pipe[k].entry)
    BY <1>0, CopyLasts
  <1>2. CASE UNCHANGED pipe
    BY <1>1, <1>2
  <1>3. CASE pipe' = <<>>
    BY <1>3
  <1>4. ASSUME NEW r \in Req, Consume(r)
        PROVE  CopyAt(born'[pipe'[i].win], pipe'[i].entry)
    <2> DEFINE e == Slid(req[r].entry)
               c == [op |-> "slide", win |-> req[r].win, entry |-> e]
    <2>1. req[r].pc = "read" /\ req[r].win \in Win /\ req[r].entry \in Entry
      BY <1>4 DEF Consume, Carried, Holding, Copies
    <2>2. CopyOf(req[r].win, req[r].entry)
      BY <2>1 DEF Copies
    <2>3. CopyOf(req[r].win, e) /\ e \in Entry
      BY <2>1, <2>2, SlidCopies, Entries
    <2>4. CopyAt(born'[req[r].win], e) /\ c \in Command
      BY <2>1, <2>3, CopyLasts, Commands
    <2>5. pipe' = pipe \/ pipe' = Append(pipe, c)
      BY <1>4 DEF Consume
    <2>6. c.win = req[r].win /\ c.entry = e
      OBVIOUS
    <2> HIDE DEF c, e
    <2>7. CASE pipe' = Append(pipe, c)
      <3>1. pipe'[i] = c \/ (i \in 1..Len(pipe) /\ pipe'[i] = pipe[i])
        BY <1>0, <2>4, <2>7, Pipe
      <3> QED
        BY <1>1, <2>4, <2>6, <3>1
    <2> QED
      BY <1>2, <2>5, <2>7
  <1>5. ASSUME NEW r \in Req, Refuse(r)
        PROVE  CopyAt(born'[pipe'[i].win], pipe'[i].entry)
    <2> DEFINE c == [op |-> "drop", win |-> req[r].win]
    <2>1. req[r].win \in Win
      BY <1>5 DEF Refuse, Carried, Holding
    <2>2. c \in Command /\ c.op # "slide"
      BY <2>1, Entries, Commands DEF Command
    <2>3. pipe' = pipe \/ pipe' = Append(pipe, c)
      BY <1>5 DEF Refuse
    <2> HIDE DEF c
    <2>4. CASE pipe' = Append(pipe, c)
      <3>1. pipe'[i] = c \/ (i \in 1..Len(pipe) /\ pipe'[i] = pipe[i])
        BY <1>0, <2>2, <2>4, Pipe
      <3> QED
        BY <1>1, <2>2, <3>1
    <2> QED
      BY <1>2, <2>3, <2>4
  <1>6. CASE ServePipe
    <2>1. pipe # <<>> /\ pipe' = Tail(pipe)
      BY <1>6 DEF ServePipe
    <2>2. i + 1 \in 1..Len(pipe) /\ pipe'[i] = pipe[i + 1]
      BY <1>0, <2>1, Pipe
    <2> QED
      BY <1>1, <2>2
  <1>7. ASSUME NEW r \in Req, Minting(r) \/ Opening(r) \/ Rotating(r)
        PROVE  UNCHANGED pipe
    <2>1. CASE Minting(r) \/ Opening(r)
      BY <2>1 DEF Minting, Login, AuthenticateSession, RemintSession,
                  Opening, AuthenticateOpen, Open, Store, StoreFails, Index
    <2>2. CASE Rotating(r)
      BY <2>2 DEF Rotating, Reset, Stamp, Recover, List, Delete, InvalidateFails
    <2> QED
      BY <1>7, <2>1, <2>2
  <1>8. ASSUME NEW r \in Req, Acting(r), ~Consume(r), ~Refuse(r)
        PROVE  UNCHANGED pipe
    BY <1>8 DEF Acting, Authenticate, ReadRedis, ReadMemory, Finish
  <1>9. Tick \/ Flap \/ Reconnect \/ Evict \/ Restart \/ UNCHANGED vars => pipe' = pipe \/ pipe' = <<>>
    BY DEF Tick, Flap, Reconnect, Evict, Restart, vars
  <1> QED
    BY <1>2, <1>3, <1>4, <1>5, <1>6, <1>7, <1>8, <1>9 DEF Next, Environment

\* ... and those that requests hold.
LEMMA HeldKept ==
    ASSUME TypeOK, now > 0, Carried, Copies, [Next]_vars, NEW r \in Req,
           req'[r].pc \in {"storing", "indexing", "read"}
    PROVE  req'[r].entry \in Entry /\ CopyAt(born'[req'[r].win], req'[r].entry)
  <1>0. /\ req[r].pc \in {"storing", "indexing", "read"} => req[r].entry \in Entry /\ CopyOf(req[r].win, req[r].entry)
        /\ req[r].pc \in Holding => req[r].win \in Win
    BY DEF Copies, Carried
  <1>1. req[r].pc \in {"storing", "indexing", "read"} =>
           CopyAt(born'[req[r].win], req[r].entry) /\ req[r].entry \in Entry
    BY <1>0, CopyLasts DEF Holding
  <1>2. CASE req'[r] = req[r]
    BY <1>1, <1>2
  <1>3. CASE LetIn(r)
    BY <1>3 DEF LetIn, Admitted, Action
  <1>4. CASE Opens(r)
    <2>1. PICK w \in Win : Open(r, w) /\ req'[r] = Action("storing", req[r].jwt, w, req[r].saw, Opened, FALSE)
      BY <1>4 DEF Opens
    <2>2. born'[w] = now
      BY <2>1 DEF Open, TypeOK
    <2>3. CopyAt(now, Opened)
      BY Times DEF TypeOK, CopyAt, Opened
    <2>4. req'[r].win = w /\ req'[r].entry = Opened
      BY <2>1 DEF Action
    <2> QED
      BY <2>2, <2>3, <2>4, Entries
  <1>5. CASE Stores(r)
    BY <1>1, <1>5 DEF Stores, Action
  <1>6. CASE ReadsCopy(r)
    <2>1. PICK e \in Entry : /\ req[r].pc = "authed" /\ e # None /\ e \in {red[req[r].win], mem[req[r].win]}
                             /\ req'[r].win = req[r].win /\ req'[r].entry = e
      BY <1>6 DEF ReadsCopy, Action
    <2>2. req[r].win \in Win /\ CopyOf(req[r].win, e)
      BY <1>0, <2>1 DEF Holding, Copies
    <2> QED
      BY <2>1, <2>2, CopyLasts
  <1>7. CASE Passes(r)
    BY <1>7 DEF Passes, Action
  <1> QED
    BY <1>2, <1>3, <1>4, <1>5, <1>6, <1>7, RequestSteps DEF Course

(***************************************************************************)
(* The theorems.                                                           *)
(***************************************************************************)

\* The invariant holds where no token is signed and no window open.
LEMMA InitHolds == Init => IInv
  <1> SUFFICES ASSUME Init
               PROVE  IInv
    OBVIOUS
  <1>1. Resting \in Request /\ Resting.pc = "idle"
    <2>1. "idle" \in Stages /\ 0 \in Time /\ FALSE \in BOOLEAN
      BY Times DEF Stages
    <2>2. Resting \in Request
      BY <2>1, Requests DEF Resting
    <2> QED
      BY <2>2 DEF Resting, Action
  <1>2. req \in [Req -> Request] /\ \A r \in Req : req[r].pc = "idle"
    BY <1>1 DEF Init
  <1>3. /\ jwt \in [Jwt -> Token \cup {None}] /\ \A j \in Jwt : jwt[j] = None
        /\ red \in [Win -> Entry \cup {None}] /\ mem \in [Win -> Entry \cup {None}]
        /\ \A w \in Win : red[w] = None /\ mem[w] = None
    BY DEF Init
  <1>4. pipe = <<>> /\ pipe \in Seq(Command) /\ up \in BOOLEAN
    BY DEF Init
  <1>5. TypeOK /\ now > 0
    <2>1. now \in Time /\ now > 0 /\ epoch \in Time
      BY SessionAssumption DEF Init, Time
    <2>2. born \in [Win -> Time] /\ cuts \in 0..MaxCuts /\ faults \in 0..MaxFaults
      BY SessionAssumption DEF Init, Time
    <2>3. idx \subseteq Win /\ known \subseteq Win
      BY DEF Init
    <2> QED
      BY <1>2, <1>3, <1>4, <2>1, <2>2, <2>3 DEF TypeOK
  <1>6. Carried /\ Dated /\ RevokedStaysOut
    BY <1>2, <1>3 DEF Carried, Dated, RevokedStaysOut, Bearing, Holding
  <1>7. Copies
    BY <1>2, <1>3, <1>4 DEF Copies
  <1> QED
    BY <1>5, <1>6, <1>7 DEF IInv

\* Each step keeps the invariant.
LEMMA NextKeeps == IInv /\ [Next]_vars => IInv'
  <1> SUFFICES ASSUME IInv, [Next]_vars
               PROVE  IInv'
    OBVIOUS
  <1> USE DEF IInv
  <1>1. TypeOK' /\ Carried' /\ Dated' /\ RevokedStaysOut'
    BY Typing, CarriedKept, DatedKept, RevokedKept
  <1>2. now' > 0
    BY WindowSteps, Times DEF TypeOK
  <1>3. Copies'
    BY TiersKept, PipeKept, HeldKept DEF Copies, CopyOf
  <1> QED
    BY <1>1, <1>2, <1>3

\* A step lets a request pass only on a copy that is in time, before the cap of its window.
LEMMA StepsInTime ==
    ASSUME IInv, [Next]_vars, NEW r \in Req, req[r].pc = "read", req'[r].pc = "accepted"
    PROVE  now < born[req[r].win] + Cap
  <1>1. Course(r)
    BY RequestSteps DEF IInv
  <1>2. Passes(r)
    <2>1. \A j, w : \A pc \in {"authed", "reminting", "verified"} :
             Admitted(pc, j, w).pc # "accepted"
      BY DEF Admitted, Action
    <2>2. ~LetIn(r)
      BY <2>1 DEF LetIn
    <2>3. ~Opens(r) /\ ~Stores(r) /\ ~ReadsCopy(r)
      BY DEF Opens, Stores, ReadsCopy
    <2> QED
      BY <1>1, <2>2, <2>3 DEF Course
  <1>3. CopyOf(req[r].win, req[r].entry)
    BY DEF IInv, Copies
  <1> QED
    BY <1>2, <1>3 DEF Passes, InTime, CopyOf, CopyAt

\* The inductive invariant behind the theorems: whatever requests, clients, Redis, the clock and
\* restarts do, in any order.
THEOREM Invariance == Spec => []IInv
  <1>1. IInv /\ [Next]_vars => IInv'
    BY NextKeeps
  <1> QED
    BY InitHolds, <1>1, PTL DEF Spec

\* Every variable stays in its type.
THEOREM Typed == Spec => []TypeOK
  <1>1. IInv => TypeOK
    BY DEF IInv
  <1> QED
    BY Invariance, <1>1, PTL

\* verifyHiveSignature and consumeSessionWindow: no request is let through on a bearer token, and
\* none passes under a window, that existed when the epoch it began under was stamped; and none
\* passes later than the cap of its window, whatever was slid and whichever tier answered.
THEOREM Sessions == Spec => SessionsHold
  <1>1. IInv /\ [Next]_vars => [RevokedStaysOut' /\ \A r \in Req : WithinCap(r)]_vars
    <2>1. IInv /\ [Next]_vars => IInv'
      BY NextKeeps
    <2>2. IInv' => RevokedStaysOut'
      BY DEF IInv
    <2> QED
      BY <2>1, <2>2, StepsInTime DEF WithinCap
  <1> QED
    BY Invariance, <1>1, PTL DEF Spec, SessionsHold
=============================================================================
