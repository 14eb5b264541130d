------------------------------- MODULE Content -------------------------------
(* The parts under the content routes whose promises are proved: the query     *)
(* cache, whose names stand for themselves, uploads, the semaphore of argon2,  *)
(* the round trip to ORCID, the claims of a paper, and what an account is told *)
(* of.  They share no state, and each may be of any size.                      *)
EXTENDS QueryCache

CONSTANTS
  Upload, Kubo, Pinata, MaxTok, MaxUploadFaults,         \* uploads
  Hasher, Cap, MaxQueue, MaxAborts,                      \* the semaphore of argon2
  Flow, Try, Code, Account, Orcid, Mode, Signer,               \* the round trip to ORCID
  MaxTripFaults,
  Claimant, Admin, Bridge, Paper, FirstOps,              \* the claims of a paper
  MaxOps, MaxFlight,
  Post, Vote, Notice, Tab, Enrols, FetchCap, Limit,      \* the feed and the digest
  Window, MaxBlock, MaxNoticeFaults

VARIABLES
  uIssued, uTok, uUsed, uReq, uPins, uRow, uSweep, uPost, uFaults,
  sInFlight, sQueueDepth, sAbortCount, sWaiters, sMicro, sClosing, sReq, sThrown,
  oFlow, oState, oCode, oCb, oRows, oChain, oNonce, oSigner, oRedisUp, oFaults, oOut,
  oProven, oCrossed, oPassed, oMail,
  lAuthor, lChain, lHaf, lFlight, lClear,
  nChain, nHead, nCached, nCursor, nPoll, nPrefs, nRun, nFaults, nGot, nExcused

Files == INSTANCE Uploads WITH
  issued <- uIssued, tok <- uTok, used <- uUsed, req <- uReq, pins <- uPins,
  row <- uRow, sweep <- uSweep, post <- uPost, faults <- uFaults, Req <- Upload,
  MaxFaults <- MaxUploadFaults

Hashing == INSTANCE Argon2Semaphore WITH
  inFlight <- sInFlight, queueDepth <- sQueueDepth, abortCount <- sAbortCount,
  waiters <- sWaiters, micro <- sMicro, closing <- sClosing, req <- sReq,
  thrown <- sThrown, Req <- Hasher

OAuth == INSTANCE OrcidOAuth WITH
  flow <- oFlow, state <- oState, code <- oCode, cb <- oCb, rows <- oRows,
  chain <- oChain, nonce <- oNonce, signer <- oSigner, redisUp <- oRedisUp,
  faults <- oFaults, out <- oOut, proven <- oProven, crossed <- oCrossed,
  passed <- oPassed, mail <- oMail, MaxFaults <- MaxTripFaults

Claims == INSTANCE ClaimRoutes WITH
  author <- lAuthor, chain <- lChain, haf <- lHaf, flight <- lFlight, clear <- lClear,
  Account <- Claimant, Start <- FirstOps

Tidings == INSTANCE Notifications WITH
  chain <- nChain, head <- nHead, cached <- nCached, cursor <- nCursor, poll <- nPoll,
  prefs <- nPrefs, run <- nRun, faults <- nFaults, got <- nGot, excused <- nExcused,
  Cap <- FetchCap, MaxFaults <- MaxNoticeFaults

ASSUME PartsAssumption ==
  /\ Files!UploadsAssumption
  /\ Hashing!SemaphoreAssumption
  /\ OAuth!OAuthAssumption
  /\ Claims!RoutesAssumption
  /\ Tidings!NotificationsAssumption

-----------------------------------------------------------------------------
(* What they promise *)

\* A second upload passes under one token only after two failed calls to Redis, and an
\* upload answered 200 stays pinned where its row says until the row is a day old.
FilesKept == Files!OneUploadPerToken /\ Files!FreshRowKeepsPin

\* At most Cap argon2 operations run, promised slots included, and no wakeup is lost:
\* callers wait only while every slot is taken.
SlotsSound == Hashing!SlotsSound

\* A code of ORCID comes to one outcome, for the account that began the round trip, and a
\* round trip that has let a callback through serves none that comes after it; a row carries
\* no ORCID its account did not prove, and none beside an unverified email but where a
\* re-issue crossed its verification; and a verification admits one signup.
OrcidSound == OAuth!OutcomeIsOwn /\ OAuth!RowsProven /\ OAuth!OneSignup

\* Co-authors, who approve claims under the key of the bridge, cannot bring back an authority
\* that was taken from all of them.
ClaimsRooted == Claims!Rooted

\* The feed and the digest pass over no event they held without telling of it, and the
\* digest tells of none twice while nothing fails.
ToldOnce == Tidings!FeedWhole /\ Tidings!DigestWhole
=============================================================================
