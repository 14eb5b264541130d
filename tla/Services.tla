------------------------------ MODULE Services ------------------------------
(* The services whose promises are proved: session windows, whose names stand  *)
(* for themselves, custody broadcasts, signup, accreditation by email, the     *)
(* admin roster, what a handler stands behind and the reputation batch.  They  *)
(* share no state, and each may be of any size.                                *)
EXTENDS SessionWindow

CONSTANTS
  Call,                                        \* concurrent requests, to any service
  MaxSent,                                     \* bound on what is broadcast, or mailed
  Key, Target, Proof, ProofTarget, MaxTxOps,   \* custody broadcasts
  Person, Choice, Foreign, MaxTok,             \* signup
  MailCap,                                     \* accreditation by email
  Account, Root, Acts, Ttl, FirstOps,          \* the admin roster
  MaxOps, MaxRosterNow, MaxRosterFaults,
  Header, Signed, Limiter, MaxEras,            \* rate limits and signed requests
  Rated, Weights, MaxCycle, MaxGov, MaxHands,  \* the reputation batch
  MaxBatchFaults

VARIABLES
  cAccount, cUnspent, cReq, cTx, cCache, cClaimed, cFaults,
  gRow, gToks, gReq, gLock, gChain, gFlight, gMade, gGone, gFaults,
  eToken, eCount, eSpare, eQueued, eDone, eReq, eOps, eStanding, eFaults,
  mNow, mChain, mFlight, mHaf, mSince, mCache, mReq, mFaults, mStale,
  qLimiter, qUp, qFresh, qSeen, qHeard, qCount, qPrimed, qStamps, qReq, qEra, qLeaked,
  qLate, qDropped, qExcused, qFaults,
  bAccredited, bWeights, bElapsed, bProd, bStaged, bMembers, bLast, bStamp, bLock, bRun,
  bHand, bCommitted, bMoved, bExcused, bLapsed, bReverted, bGovs, bHands, bFaults

Custody == INSTANCE CustodyBroadcast WITH
  account <- cAccount, unspent <- cUnspent, req <- cReq, tx <- cTx, cache <- cCache,
  claimed <- cClaimed, faults <- cFaults, Req <- Call, MaxOps <- MaxTxOps

Signups == INSTANCE Signup WITH
  row <- gRow, toks <- gToks, req <- gReq, lock <- gLock, chain <- gChain,
  flight <- gFlight, made <- gMade, gone <- gGone, faults <- gFaults, Req <- Call

Email == INSTANCE AccreditByEmail WITH
  token <- eToken, count <- eCount, spare <- eSpare, queued <- eQueued, done <- eDone,
  req <- eReq, ops <- eOps, standing <- eStanding, faults <- eFaults, Req <- Call,
  Cap <- MailCap

Roster == INSTANCE AdminRoster WITH
  now <- mNow, chain <- mChain, flight <- mFlight, haf <- mHaf, since <- mSince,
  cache <- mCache, req <- mReq, faults <- mFaults, stale <- mStale, Req <- Call,
  MaxNow <- MaxRosterNow, MaxFaults <- MaxRosterFaults, Start <- FirstOps

Gate == INSTANCE RequestGate WITH
  limiter <- qLimiter, up <- qUp, fresh <- qFresh, seen <- qSeen, heard <- qHeard,
  count <- qCount, primed <- qPrimed, stamps <- qStamps, req <- qReq, era <- qEra,
  leaked <- qLeaked, late <- qLate, dropped <- qDropped, excused <- qExcused,
  faults <- qFaults, Req <- Call

Scores == INSTANCE ReputationBatch WITH
  accredited <- bAccredited, weights <- bWeights, elapsed <- bElapsed, prod <- bProd,
  staged <- bStaged, members <- bMembers, last <- bLast, stamp <- bStamp, lock <- bLock,
  run <- bRun, hand <- bHand, committed <- bCommitted, moved <- bMoved,
  excused <- bExcused, lapsed <- bLapsed, reverted <- bReverted, govs <- bGovs,
  hands <- bHands, faults <- bFaults, User <- Rated, MaxFaults <- MaxBatchFaults

-----------------------------------------------------------------------------
(* What they promise *)

\* A custody transaction that carries a gated op carries one, under a proof minted for that
\* op and used by no other transaction; and what HAF had indexed under an idempotency key is
\* not broadcast again unless the lookup failed.
BroadcastOnce == Custody!SentOnce

\* The binding of a confirmed signup is of the browser that knows the row's password, and a
\* Hive account a signup created is activated, or its row can still be confirmed.
SignupsSound == Signups!BoundToPassword /\ Signups!NeverStranded

\* An email token whose op HAF had indexed sends no other, unless the lookup failed, and of
\* one that is unspent at most MailCap broadcasts are in flight while nothing fails.
MailAccreditsOnce == Email!TokenAccreditsOnce /\ Email!BurstCapped

\* No administrator reaches above the own level but by a view of the roster that did not show
\* the level yet, and a level that was taken away admits nobody beyond the life of the cache.
RosterSound == Roster!ReachHolds /\ Roster!LapseBounded

\* A signature header lets one request through, but for one that neither store could refuse; and of
\* the slots of a limiter each is held by a request or given back once, but for those a
\* failure took or gave back for nobody.
RequestsHold == Gate!AcceptedOnce /\ Gate!SlotsBalance

\* No reader sees half a cycle of reputation, every score was computed from scores of
\* earlier cycles under the same weights, and a score key that could outlive its
\* accreditation is in the index the prune goes by.
ScoresWhole == Scores!WholeCycles /\ Scores!IndexCovers
=============================================================================
