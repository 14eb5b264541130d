----------------------------- MODULE MCServices -----------------------------
(* Services, and with them the registration watch.  They share no state here:  *)
(* a behaviour picks the one it exercises, the others rest.                    *)
EXTENDS Services, TLC

CONSTANTS r1, r2

VARIABLES
  focus,   \* the service the behaviour exercises
  aNow, aRow, aChain, aCursor, aSeen, aTick, aFaults, aSaid, aTop, aExcused

custodyVars == <<cAccount, cUnspent, cReq, cTx, cCache, cClaimed, cFaults>>
signupVars == <<gRow, gToks, gReq, gLock, gChain, gFlight, gMade, gGone, gFaults>>
emailVars == <<eToken, eCount, eSpare, eQueued, eDone, eReq, eOps, eStanding, eFaults>>
scoresVars == <<bAccredited, bWeights, bElapsed, bProd, bStaged, bMembers, bLast,
                 bStamp, bLock, bRun, bHand, bCommitted, bMoved, bExcused, bLapsed,
                 bReverted, bGovs, bHands, bFaults>>
windowsVars == <<now, epoch, jwt, red, mem, idx, known, pipe, up, req, born, cuts,
                  faults>>
watchVars == <<aNow, aRow, aChain, aCursor, aSeen, aTick, aFaults, aSaid, aTop,
                aExcused>>
rosterVars == <<mNow, mChain, mFlight, mHaf, mSince, mCache, mReq, mFaults, mStale>>
gateVars == <<qLimiter, qUp, qFresh, qSeen, qHeard, qCount, qPrimed, qStamps, qReq,
               qEra, qLeaked, qLate, qDropped, qExcused, qFaults>>

\* Requests, people and users are interchangeable.
Symmetry == Permutations({r1, r2})

(* Values of the constants *)
OneProof == [p \in {"p1"} |-> "t1"]
TwoKeys == [user : {"u"}, keys : {"k1", "k2"}]
Named(who, level) ==
  [act |-> "grant", by |-> "root", cap |-> "root", who |-> who, level |-> level, seen |-> 0]
TwoAdmins == <<Named("a", "super_admin"), Named("b", "admin")>>
OneHeader == [r \in {1, 2} |-> "h"]
OneSlot == {[max |-> 1, skipFailed |-> TRUE, refundCodes |-> {}]}

Watch == INSTANCE RegistrationWatch WITH
  now <- aNow, row <- aRow, chain <- aChain, cursor <- aCursor, seen <- aSeen,
  tick <- aTick, faults <- aFaults, said <- aSaid, top <- aTop, excused <- aExcused,
  Person <- {"p", "q"}, MaxEvents <- 1, MaxEmbeds <- 1, Lookback <- 1, MaxRows <- 2,
  MaxBlock <- 0, MaxFaults <- 1

Crowd == INSTANCE RegistrationWatch WITH
  now <- aNow, row <- aRow, chain <- aChain, cursor <- aCursor, seen <- aSeen,
  tick <- aTick, faults <- aFaults, said <- aSaid, top <- aTop, excused <- aExcused,
  Person <- {"p", "q"}, MaxEvents <- 1, MaxEmbeds <- 1, Lookback <- 1, MaxRows <- 1,
  MaxBlock <- 1, MaxFaults <- 2

Lapse == INSTANCE AdminRoster WITH
  now <- mNow, chain <- mChain, flight <- mFlight, haf <- mHaf, since <- mSince,
  cache <- mCache, req <- mReq, faults <- mFaults, stale <- mStale, Req <- {1},
  Acts <- {"grant", "revoke", "sanction"}, Ttl <- 2, Start <- FirstOps, MaxOps <- 3,
  MaxNow <- 4, MaxFaults <- 1

Bearer == INSTANCE RequestGate WITH
  limiter <- qLimiter, up <- qUp, fresh <- qFresh, seen <- qSeen, heard <- qHeard,
  count <- qCount, primed <- qPrimed, stamps <- qStamps, req <- qReq, era <- qEra,
  leaked <- qLeaked, late <- qLate, dropped <- qDropped, excused <- qExcused,
  faults <- qFaults, Req <- Call, Signed <- [r \in {1, 2} |-> None],
  Limiter <- {[max |-> 1, skipFailed |-> FALSE, refundCodes |-> {503, 504}]}

Longer == INSTANCE SessionWindow WITH
  Req <- {r1, r2}, Jwt <- {1, 2}, Win <- {1}, PerSecond <- 2, Idle <- 2, Cap <- 3,
  MaxNow <- 4, MaxCuts <- 0, MaxFaults <- 0

ASSUME ServicesAssumption ==
  /\ Custody!CustodyAssumption
  /\ Signups!SignupAssumption
  /\ Email!EmailAssumption
  /\ Scores!BatchAssumption
  /\ Watch!WatchAssumption
  /\ Crowd!WatchAssumption
  /\ Roster!RosterAssumption
  /\ Lapse!RosterAssumption
  /\ Gate!GateAssumption
  /\ Bearer!GateAssumption
  /\ Longer!SessionAssumption

ServicesInit ==
  /\ focus \in {"custody", "signup", "email", "scores", "windows", "watch", "crowd",
                "roster", "lapse", "gate", "bearer", "longer"}
  /\ Custody!Init
  /\ Signups!Init
  /\ Email!Init
  /\ Scores!Init
  /\ \/ focus \notin {"longer"} /\ Init
     \/ focus = "longer" /\ Longer!Init
  /\ \/ focus \notin {"crowd"} /\ Watch!Init
     \/ focus = "crowd" /\ Crowd!Init
  /\ \/ focus \notin {"lapse"} /\ Roster!Init
     \/ focus = "lapse" /\ Lapse!Init
  /\ \/ focus \notin {"bearer"} /\ Gate!Init
     \/ focus = "bearer" /\ Bearer!Init

ServicesNext ==
  /\ UNCHANGED focus
  /\ \/ focus = "custody" /\ Custody!Next
        /\ UNCHANGED <<signupVars, emailVars, scoresVars, windowsVars, watchVars,
                      rosterVars, gateVars>>
     \/ focus = "signup" /\ Signups!Next
        /\ UNCHANGED <<custodyVars, emailVars, scoresVars, windowsVars, watchVars,
                      rosterVars, gateVars>>
     \/ focus = "email" /\ Email!Next
        /\ UNCHANGED <<custodyVars, signupVars, scoresVars, windowsVars, watchVars,
                      rosterVars, gateVars>>
     \/ focus = "scores" /\ Scores!Next
        /\ UNCHANGED <<custodyVars, signupVars, emailVars, windowsVars, watchVars,
                      rosterVars, gateVars>>
     \/ focus = "windows" /\ Next
        /\ UNCHANGED <<custodyVars, signupVars, emailVars, scoresVars, watchVars,
                      rosterVars, gateVars>>
     \/ focus = "watch" /\ Watch!Next
        /\ UNCHANGED <<custodyVars, signupVars, emailVars, scoresVars, windowsVars,
                      rosterVars, gateVars>>
     \/ focus = "crowd" /\ Crowd!Next
        /\ UNCHANGED <<custodyVars, signupVars, emailVars, scoresVars, windowsVars,
                      rosterVars, gateVars>>
     \/ focus = "roster" /\ Roster!Next
        /\ UNCHANGED <<custodyVars, signupVars, emailVars, scoresVars, windowsVars,
                      watchVars, gateVars>>
     \/ focus = "lapse" /\ Lapse!Next
        /\ UNCHANGED <<custodyVars, signupVars, emailVars, scoresVars, windowsVars,
                      watchVars, gateVars>>
     \/ focus = "gate" /\ Gate!Next
        /\ UNCHANGED <<custodyVars, signupVars, emailVars, scoresVars, windowsVars,
                      watchVars, rosterVars>>
     \/ focus = "bearer" /\ Bearer!Next
        /\ UNCHANGED <<custodyVars, signupVars, emailVars, scoresVars, windowsVars,
                      watchVars, rosterVars>>
     \/ focus = "longer" /\ Longer!Next
        /\ UNCHANGED <<custodyVars, signupVars, emailVars, scoresVars, watchVars,
                      rosterVars, gateVars>>

servicesVars == <<focus, custodyVars, signupVars, emailVars, scoresVars, windowsVars, watchVars,
          rosterVars, gateVars>>

ServicesSpec == ServicesInit /\ [][ServicesNext]_servicesVars

-----------------------------------------------------------------------------
\* Types: the type invariant of the module that moves.
ServicesTypeOK ==
  /\ focus = "custody" => Custody!TypeOK
  /\ focus = "signup" => Signups!TypeOK
  /\ focus = "email" => Email!TypeOK
  /\ focus = "scores" => Scores!TypeOK
  /\ focus = "windows" => TypeOK
  /\ focus = "watch" => Watch!TypeOK
  /\ focus = "crowd" => Crowd!TypeOK
  /\ focus = "roster" => Roster!TypeOK
  /\ focus = "lapse" => Lapse!TypeOK
  /\ focus = "gate" => Gate!TypeOK
  /\ focus = "bearer" => Bearer!TypeOK
  /\ focus = "longer" => Longer!TypeOK

\* The watch of registrations passes none over without announcing it, and announces none
\* twice unless something failed.
AnnouncedOnce ==
  /\ focus = "watch" => Watch!NoneSkipped /\ Watch!SaidOnce
  /\ focus = "crowd" => Crowd!NoneSkipped /\ Crowd!SaidOnce
=============================================================================
