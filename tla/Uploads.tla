------------------------------- MODULE Uploads -------------------------------
(* File uploads to IPFS: the single-use upload token, the pin and its tracking *)
(* row, and the sweep that releases pins nobody published.                     *)
(*                                                                             *)
(* A token is kept in the memory of the process and in Redis; a presentation   *)
(* awaits GETDEL, then takes the memory copy, then deletes the Redis copy it   *)
(* may have left.  An admitted file is pinned to Kubo, or to Pinata when Kubo  *)
(* fails, and recorded in pending_ipfs_uploads; the row goes once a post       *)
(* references the file, or with the pin after a day.  One file is modelled:    *)
(* rows and pins are keyed by its CID and files do not interact.               *)
EXTENDS Integers, FiniteSets

CONSTANTS Req,       \* concurrent upload requests
          Kubo, Pinata,  \* the node a file is pinned to, and the fallback
          None,      \* no row, no backend
          MaxTok,    \* bound on the tokens issued
          MaxFaults  \* bound on failed calls and crashes

Backend == {Kubo, Pinata}
Row == [backend : Backend, old : BOOLEAN,
        undercut : BOOLEAN]   \* history: the pin was released, or was about to be, before the row was there

\* What an instance must give them.
UploadsAssumption ==
  /\ Req \subseteq Nat /\ MaxTok \in Nat /\ MaxFaults \in Nat
  /\ Kubo # Pinata /\ None \notin Backend \cup Row

Token == 1..MaxTok

VARIABLES
  issued,  \* tokens issued so far
  tok,     \* the copies of each in memory and in Redis
  used,    \* history: how many uploads each token let through
  req,     \* the upload requests
  pins,    \* the backends that hold the file
  row,     \* its tracking row, None when there is none
  sweep,   \* the cleanup job
  post,    \* whether a post references the file, and HAF shows it
  faults   \* history: faults so far

vars == <<issued, tok, used, req, pins, row, sweep, post, faults>>

Copies == [mem : BOOLEAN, redis : BOOLEAN]
Request == [pc : {"idle", "burning", "clearing", "pinning", "recording", "checking", "releasing"},
            tok : Token \cup {0}, fits : BOOLEAN, hit : BOOLEAN, backend : Backend \cup {None},
            undercut : BOOLEAN]   \* history: as in a row
Sweep == [pc : {"idle", "asking", "unpinning", "deleting"}, backend : Backend \cup {None}]

IdleRequest == [pc |-> "idle", tok |-> 0, fits |-> FALSE, hit |-> FALSE, backend |-> None,
                undercut |-> FALSE]
IdleSweep == [pc |-> "idle", backend |-> None]

TypeOK ==
  /\ issued \in 0..MaxTok
  /\ tok \in [Token -> Copies]
  /\ used \in [Token -> 0..2]
  /\ req \in [Req -> Request]
  /\ pins \subseteq Backend
  /\ row \in Row \cup {None}
  /\ sweep \in Sweep
  /\ post \in {"none", "posted", "indexed"}
  /\ faults \in 0..MaxFaults

Ends(r) == req' = [req EXCEPT ![r] = IdleRequest]
Goes(r, pc) == req' = [req EXCEPT ![r].pc = pc]
Fault == faults < MaxFaults /\ faults' = faults + 1
TokensStay == UNCHANGED <<issued, tok, used>>
FileStays == UNCHANGED <<pins, row, sweep, post>>

-----------------------------------------------------------------------------
(* The token *)

\* issueUploadToken: into memory, then into Redis; the SET is best-effort.
Issue ==
  /\ issued < MaxTok /\ issued' = issued + 1
  /\ \/ tok' = [tok EXCEPT ![issued'] = [mem |-> TRUE, redis |-> TRUE]] /\ UNCHANGED faults
     \/ tok' = [tok EXCEPT ![issued'] = [mem |-> TRUE, redis |-> FALSE]] /\ Fault
  /\ UNCHANGED <<used, req>> /\ FileStays

\* Seeded fault: no lock around a presentation.
InFlight_None(t) == FALSE

\* inFlightConsumes: the token is being presented by another request.
InFlight(t) == \E q \in Req : req[q].tok = t /\ req[q].pc \in {"burning", "clearing"}

\* POST /upload, after validation and the accreditation check, and the GETDEL of
\* consumeUploadToken.  A GETDEL that throws may have run or not.  "fits": the
\* token is this account's and was declared for this file.
Present(r, t) ==
  /\ req[r].pc = "idle" /\ ~InFlight(t)
  /\ tok[t].mem \/ tok[t].redis
  /\ \A q \in Req : q < r => req[q].pc # "idle"   \* requests are interchangeable
  /\ \E fits \in BOOLEAN, ran \in BOOLEAN, replied \in BOOLEAN :
       /\ IF ran /\ replied THEN UNCHANGED faults ELSE Fault
       /\ tok' = [tok EXCEPT ![t].redis = @ /\ ~ran]
       /\ req' = [req EXCEPT ![r] = [IdleRequest EXCEPT !.pc = "burning", !.tok = t,
                                     !.fits = fits, !.hit = ran /\ replied /\ tok[t].redis]]
  /\ UNCHANGED <<issued, used>> /\ FileStays

\* Let through, if the token is this account's and declared for this file.
Admit(r) ==
  IF req[r].fits
    THEN /\ used' = [used EXCEPT ![req[r].tok] = @ + 1]
         /\ req' = [req EXCEPT ![r] = [IdleRequest EXCEPT !.pc = "pinning"]]
    ELSE Ends(r) /\ UNCHANGED used

\* The memory copy goes, after a hit as after a miss.
DropMem(r) == tok' = [tok EXCEPT ![req[r].tok].mem = FALSE]

\* A hit admits; a miss is answered from memory, and then the Redis copy that the
\* GETDEL may have left is to be deleted.
Burn(r) ==
  /\ req[r].pc = "burning"
  /\ DropMem(r)
  /\ IF req[r].hit THEN Admit(r)
     ELSE /\ IF tok[req[r].tok].mem THEN Goes(r, "clearing") ELSE Ends(r)
          /\ UNCHANGED used
  /\ UNCHANGED <<issued, faults>> /\ FileStays

\* The compensating DEL, best-effort.
Clear(r) ==
  /\ req[r].pc = "clearing"
  /\ \/ tok' = [tok EXCEPT ![req[r].tok].redis = FALSE] /\ UNCHANGED faults
     \/ UNCHANGED tok /\ Fault
  /\ Admit(r) /\ UNCHANGED issued /\ FileStays

\* A copy reaches its TTL.
TokenLapses(t) ==
  /\ \/ tok[t].mem /\ tok' = [tok EXCEPT ![t].mem = FALSE]
     \/ tok[t].redis /\ tok' = [tok EXCEPT ![t].redis = FALSE]
  /\ UNCHANGED <<issued, used, req, faults>> /\ FileStays

-----------------------------------------------------------------------------
(* The pin and its row *)

\* pinToIpfs: Kubo first, Pinata when it fails; a call that fails may have pinned.
Pin(r) ==
  /\ req[r].pc = "pinning"
  /\ \/ /\ pins' = pins \cup {Kubo}
        /\ req' = [req EXCEPT ![r].pc = "recording", ![r].backend = Kubo]
        /\ UNCHANGED faults
     \/ /\ Fault /\ pins' \in {pins \cup {Pinata}, pins \cup Backend}
        /\ req' = [req EXCEPT ![r].pc = "recording", ![r].backend = Pinata]
     \/ Fault /\ Ends(r) /\ pins' \in {pins \cup s : s \in SUBSET Backend}
  /\ TokensStay /\ UNCHANGED <<row, sweep, post>>

\* INSERT ... ON CONFLICT (cid) DO NOTHING: an existing row keeps its age and backend.
Insert(r) ==
  row' = IF row # None THEN row
         ELSE [backend |-> req[r].backend, old |-> FALSE,
               undercut |-> req[r].undercut \/ \E q \in Req : req[q].pc = "releasing"]

\* The insert, and the answer 200; or it throws, having committed or not.
Record(r) ==
  /\ req[r].pc = "recording"
  /\ \/ Insert(r) /\ Ends(r) /\ UNCHANGED faults
     \/ (Insert(r) \/ UNCHANGED row) /\ Goes(r, "checking") /\ Fault
  /\ TokensStay /\ UNCHANGED <<pins, sweep, post>>

\* Seeded fault: the compensation does not look first.
Absent_Assumed == TRUE

Absent == row = None

\* After a failed insert: only a row confirmed absent lets the pin be released.
Check(r) ==
  /\ req[r].pc = "checking"
  /\ \/ (IF Absent THEN Goes(r, "releasing") ELSE Ends(r)) /\ UNCHANGED faults
     \/ Ends(r) /\ Fault
  /\ TokensStay /\ FileStays

\* pin/rm is not refcounted: it takes the pin of uploads that are about to record theirs.
Unpin(backend) == pins' = pins \ {backend}
Undercut(reqs) == [q \in Req |-> [reqs[q] EXCEPT !.undercut = @ \/ reqs[q].pc \in {"recording", "checking"}]]

\* unpinFromIpfs at the backend that pinned; an absent pin is no error.  One whose
\* answer is late takes effect later: the request stays here until it has.
Release(r) ==
  /\ req[r].pc = "releasing"
  /\ \/ /\ Unpin(req[r].backend) /\ UNCHANGED faults
        /\ req' = [Undercut(req) EXCEPT ![r] = IdleRequest]
     \/ UNCHANGED pins /\ Fault /\ Ends(r)
  /\ TokensStay /\ UNCHANGED <<row, sweep, post>>

Handle(r) == \/ \E t \in Token : Present(r, t)
             \/ Burn(r) \/ Clear(r) \/ Pin(r) \/ Record(r) \/ Check(r) \/ Release(r)

-----------------------------------------------------------------------------
(* The sweep and the surroundings *)

SweepGoes(pc) == sweep' = [sweep EXCEPT !.pc = pc]
SweepEnds == sweep' = IdleSweep

Due == row # None /\ row.old

\* runCleanup selects the rows older than a day, every half hour.  A sweep that takes longer,
\* and overlaps the next one, is left out.
SweepTakes ==
  /\ sweep.pc = "idle" /\ Due
  /\ sweep' = [pc |-> "asking", backend |-> row.backend]
  /\ UNCHANGED <<req, pins, row, post, faults>> /\ TokensStay

\* cidReferencedInHaf: a referenced file only loses its row; an error keeps it.
SweepAsks ==
  /\ sweep.pc = "asking"
  /\ \/ SweepGoes(IF post = "indexed" THEN "deleting" ELSE "unpinning") /\ UNCHANGED faults
     \/ SweepEnds /\ Fault
  /\ UNCHANGED <<req, pins, row, post>> /\ TokensStay

SweepUnpins ==
  /\ sweep.pc = "unpinning"
  /\ \/ Unpin(sweep.backend) /\ SweepGoes("deleting") /\ UNCHANGED faults
     \/ (Unpin(sweep.backend) \/ UNCHANGED pins) /\ SweepEnds /\ Fault
  /\ req' = Undercut(req)
  /\ UNCHANGED <<row, post>> /\ TokensStay

\* DELETE FROM pending_ipfs_uploads WHERE cid = $1.
SweepDeletes ==
  /\ sweep.pc = "deleting"
  /\ \/ row' = None /\ UNCHANGED faults
     \/ UNCHANGED row /\ Fault
  /\ SweepEnds /\ UNCHANGED <<req, pins, post>> /\ TokensStay

DayPasses ==
  /\ row # None /\ ~row.old /\ row' = [row EXCEPT !.old = TRUE]
  /\ UNCHANGED <<req, pins, sweep, post, faults>> /\ TokensStay

\* A post that references an uploaded file is broadcast, and indexed later.
Publish ==
  /\ \/ post = "none" /\ row # None /\ post' = "posted"
     \/ post = "posted" /\ post' = "indexed"
  /\ UNCHANGED <<req, pins, row, sweep, faults>> /\ TokensStay

\* The process dies and loses its memory.
Crash ==
  /\ Fault
  /\ req' = [r \in Req |-> IdleRequest] /\ SweepEnds
  /\ tok' = [t \in Token |-> [tok[t] EXCEPT !.mem = FALSE]]
  /\ UNCHANGED <<issued, used, pins, row, post>>

Init ==
  /\ issued = 0 /\ used = [t \in Token |-> 0]
  /\ tok = [t \in Token |-> [mem |-> FALSE, redis |-> FALSE]]
  /\ req = [r \in Req |-> IdleRequest]
  /\ pins = {} /\ row = None /\ sweep = IdleSweep /\ post = "none" /\ faults = 0

Next == \/ Issue
        \/ \E r \in Req : Handle(r)
        \/ \E t \in Token : TokenLapses(t)
        \/ SweepTakes \/ SweepAsks \/ SweepUnpins \/ SweepDeletes
        \/ DayPasses \/ Publish \/ Crash

Spec == Init /\ [][Next]_vars

-----------------------------------------------------------------------------
(* Properties *)

\* A token lets a second upload through only after two calls to Redis have failed:
\* no single failed, lost or unexecuted call, restart or concurrent presentation
\* makes the two copies of a token count twice.
OneUploadPerToken == \A t \in Token : used[t] > 1 => faults > 1

\* An upload that was answered 200 is still pinned where its row says until the row
\* is a day old, whatever uploads of the same file fail and are compensated and
\* whatever the sweep does: except when the pin was released between the pinning
\* and the commit of the row, or a compensation had looked for the row before it.
FreshRowKeepsPin ==
  row # None /\ ~row.old => row.backend \in pins \/ row.undercut

\* ipfs.ts:366-371 names two states a live pin may be in, in pending_ipfs_uploads
\* or referenced on-chain, and ipfs.ts:380-394 has the compensation spare what others depend on.
\* It looks at the table alone, and the row of a published file is gone: a failed
\* insert of a repeated upload releases the pin of a published file.
CompensationSparesPublished ==
  [][\A r \in Req : Release(r) /\ pins' # pins => post # "indexed"]_vars
=============================================================================
