----------------------------- MODULE MCContent -----------------------------
(* Content, and with it a cache key that survives the blocks, continuation     *)
(* chains, the credit of a paper, two more modes of the round trip to ORCID,   *)
(* accreditation, and a digest.  They share no state here: a behaviour picks   *)
(* the one it exercises, the others rest.                                      *)
EXTENDS Content, Sequences

VARIABLES
  focus,   \* the service the behaviour exercises
  pOrder, pMeta,
  kOrder, kMeta, kNamed, kOps, kBlock, kSent, kBefore,
  yChain, yFlight, yHaf, yLimit, ySnap, yReq, yFaults

uploadsVars == <<uIssued, uTok, uUsed, uReq, uPins, uRow, uSweep, uPost, uFaults>>
cacheVars == <<ver, redis, fetch, caller, sweep, floor, faults>>
hashingVars == <<sInFlight, sQueueDepth, sAbortCount, sWaiters, sMicro, sClosing, sReq,
                  sThrown>>
chainsVars == <<pOrder, pMeta>>
creditsVars == <<kOrder, kMeta, kNamed, kOps, kBlock, kSent, kBefore>>
claimsVars == <<lAuthor, lChain, lHaf, lFlight, lClear>>
noticesVars == <<nChain, nHead, nCached, nCursor, nPoll, nPrefs, nRun, nFaults, nGot,
                  nExcused>>
oauthVars == <<oFlow, oState, oCode, oCb, oPassed, oRows, oMail, oCrossed, oChain,
                oNonce, oSigner, oRedisUp, oFaults, oOut, oProven>>
standingVars == <<yChain, yFlight, yHaf, yLimit, ySnap, yReq, yFaults>>

Listed(hive, orcid, name) == [hive |-> hive, orcid |-> orcid, name |-> name]
Signed(act, who, by, with, block) ==
  [act |-> act, who |-> who, by |-> by, with |-> with, block |-> block, read |-> 0, saw |-> 0, from |-> 0]
Standing == <<Signed("accredit", "b", "authority", "manual", 1), Signed("vouch", "a", "b", None, 2),
              Signed("accredit", "a", "authority", "manual", 3)>>
Said(act, who, signer) == [act |-> act, who |-> who, signer |-> signer, asked |-> "admin"]
Claimed == <<Said("accredit", "x", "admin"), Said("accredit", "y", "admin"), Said("claim", "x", "x"),
             Said("claim", "y", "y"), Said("approve", "x", "bridge")>>

Roster == INSTANCE QueryCache WITH
  Caller <- {1}, Fetch <- {1, 2}, Key <- {"k"}, Stable <- {"k"}, Swr <- {},
  Periodic <- {"k"}, MaxVer <- 2, MaxFaults <- 1

Chains == INSTANCE PaperChain WITH
  order <- pOrder, meta <- pMeta, Post <- 1..4,
  Author <- <<"alice", "bob", "bob", "carol">>, Kind <- {"paper"}, Target <- 1..3,
  Listing <- {<<Listed("alice", None, None), Listed("bob", None, None)>>, <<Listed("carol", None, None), Listed("bob", None, None)>>},
  Bridge <- "bridge", MaxHops <- 2, BackHops <- 1

Credits == INSTANCE CoAuthorship WITH
  order <- kOrder, meta <- kMeta, named <- kNamed, ops <- kOps, block <- kBlock,
  sent <- kSent, before <- kBefore, Post <- 1..3, Author <- <<"alice", "bob", "bob">>,
  Kind <- {"paper", "bridge_paper"}, Target <- 1..2,
  Listing <- {<<Listed("alice", None, None), Listed("bob", None, None), Listed(None, None, "n")>>, <<Listed("bob", None, None), Listed(None, "o", None)>>},
  Bridge <- "alice", MaxHops <- 2, BackHops <- 1, Paper <- 1,
  Account <- {"alice", "bob", "carol"}, Admin <- "carol",
  Attested <- [a \in {"alice", "bob", "carol"} |-> IF a = "carol" THEN "o" ELSE None],
  Index <- {2}, MaxOps <- 3

Digest == INSTANCE Notifications WITH
  chain <- nChain, head <- nHead, cached <- nCached, cursor <- nCursor, poll <- nPoll,
  prefs <- nPrefs, run <- nRun, faults <- nFaults, got <- nGot, excused <- nExcused,
  Post <- {"p"}, Vote <- {"v"}, Notice <- {}, Tab <- {}, Enrols <- TRUE, Cap <- 1,
  Limit <- 1, Window <- 2, MaxBlock <- 3, MaxFaults <- 1

Verified == INSTANCE OrcidOAuth WITH
  flow <- oFlow, state <- oState, code <- oCode, cb <- oCb, passed <- oPassed,
  rows <- oRows, mail <- oMail, crossed <- oCrossed, chain <- oChain, nonce <- oNonce,
  signer <- oSigner, redisUp <- oRedisUp, faults <- oFaults, out <- oOut,
  proven <- oProven, Flow <- {1}, Try <- {1}, Code <- {"c"}, Account <- {"a", "b"},
  Orcid <- {"x"}, Mode <- {"signup", "login", "fresh_auth", "session_auth"},
  Signer <- {1, 2}, MaxFaults <- 1

Twice == INSTANCE OrcidOAuth WITH
  flow <- oFlow, state <- oState, code <- oCode, cb <- oCb, passed <- oPassed,
  rows <- oRows, mail <- oMail, crossed <- oCrossed, chain <- oChain, nonce <- oNonce,
  signer <- oSigner, redisUp <- oRedisUp, faults <- oFaults, out <- oOut,
  proven <- oProven, Flow <- {1}, Try <- {1, 2}, Code <- {"c", "d"},
  Account <- {"a", "b"}, Orcid <- {"x"}, Mode <- {"signup"}, Signer <- {1, 2},
  MaxFaults <- 0

Vouching == INSTANCE Accreditation WITH
  chain <- yChain, flight <- yFlight, haf <- yHaf, limit <- yLimit, snap <- ySnap,
  req <- yReq, faults <- yFaults, Account <- {"a", "b"}, Req <- {1}, Subject <- {"a"},
  Pair <- {<<"b", "a">>}, Joiner <- {}, Editor <- {}, Poll <- {"vouched"},
  Start <- SubSeq(Standing, 1, 2), Limits <- {}, Default <- 1, MaxOps <- 5,
  MaxFaults <- 1

Metadata == INSTANCE Accreditation WITH
  chain <- yChain, flight <- yFlight, haf <- yHaf, limit <- yLimit, snap <- ySnap,
  req <- yReq, faults <- yFaults, Account <- {"a", "b"}, Req <- {1}, Subject <- {"a"},
  Pair <- {<<"b", "a">>}, Joiner <- {"a"}, Editor <- {"a"}, Poll <- {"retracted"},
  Start <- Standing, Limits <- {}, Default <- 1, MaxOps <- 5, MaxFaults <- 1

ASSUME ContentAssumption ==
  /\ Roster!CacheAssumption
  /\ Chains!ChainAssumption
  /\ Credits!CreditAssumption
  /\ Digest!NotificationsAssumption
  /\ Verified!OAuthAssumption
  /\ Twice!OAuthAssumption
  /\ Vouching!AccreditationAssumption
  /\ Metadata!AccreditationAssumption

ContentInit ==
  /\ focus \in {"uploads", "feed", "roster", "hashing", "chains", "credits", "claims",
                "digest", "oauth", "verified", "twice", "vouching", "metadata",
                "tidings"}
  /\ Files!Init
  /\ \/ focus \notin {"roster"} /\ Init
     \/ focus = "roster" /\ Roster!Init
  /\ Hashing!Init
  /\ Chains!Init
  /\ Credits!Init
  /\ Claims!Init
  /\ \/ focus \notin {"tidings"} /\ Digest!Init
     \/ focus = "tidings" /\ Tidings!Init
  /\ \/ focus \notin {"verified", "twice"} /\ OAuth!Init
     \/ focus = "verified" /\ Verified!Init
     \/ focus = "twice" /\ Twice!Init
  /\ \/ focus \notin {"metadata"} /\ Vouching!Init
     \/ focus = "metadata" /\ Metadata!Init
  /\ focus # "credits" => kMeta[1].kind = "paper"
  /\ focus # "claims" => lAuthor = "bridge"
  /\ Len(kMeta[1].listing) = 3
  /\ focus \notin {"verified", "twice"} => oChain["b"] = "y" /\ oRows["b"] # None /\ oRows["b"].orcid = "y"
  /\ focus \notin {"oauth", "verified", "twice"} => oChain["a"] = None /\ oRows["a"] = None
  /\ focus \in {"verified", "twice"} => oChain["b"] = None /\ oRows["b"] # None /\ oRows["b"].orcid = None
  /\ focus = "twice" => oRows["a"] # None

ContentNext ==
  /\ UNCHANGED focus
  /\ \/ focus = "uploads" /\ Files!Next
        /\ UNCHANGED <<cacheVars, hashingVars, chainsVars, creditsVars, claimsVars,
                      noticesVars, oauthVars, standingVars>>
     \/ focus = "feed" /\ Next
        /\ UNCHANGED <<uploadsVars, hashingVars, chainsVars, creditsVars, claimsVars,
                      noticesVars, oauthVars, standingVars>>
     \/ focus = "roster" /\ Roster!Next
        /\ UNCHANGED <<uploadsVars, hashingVars, chainsVars, creditsVars, claimsVars,
                      noticesVars, oauthVars, standingVars>>
     \/ focus = "hashing" /\ Hashing!Next
        /\ UNCHANGED <<uploadsVars, cacheVars, chainsVars, creditsVars, claimsVars,
                      noticesVars, oauthVars, standingVars>>
     \/ focus = "chains" /\ Chains!Next
        /\ UNCHANGED <<uploadsVars, cacheVars, hashingVars, creditsVars, claimsVars,
                      noticesVars, oauthVars, standingVars>>
     \/ focus = "credits" /\ Credits!Next
        /\ UNCHANGED <<uploadsVars, cacheVars, hashingVars, chainsVars, claimsVars,
                      noticesVars, oauthVars, standingVars>>
     \/ focus = "claims" /\ Claims!Next
        /\ UNCHANGED <<uploadsVars, cacheVars, hashingVars, chainsVars, creditsVars,
                      noticesVars, oauthVars, standingVars>>
     \/ focus = "digest" /\ Digest!Next
        /\ UNCHANGED <<uploadsVars, cacheVars, hashingVars, chainsVars, creditsVars,
                      claimsVars, oauthVars, standingVars>>
     \/ focus = "oauth" /\ OAuth!Next
        /\ UNCHANGED <<uploadsVars, cacheVars, hashingVars, chainsVars, creditsVars,
                      claimsVars, noticesVars, standingVars>>
     \/ focus = "verified" /\ Verified!Next
        /\ UNCHANGED <<uploadsVars, cacheVars, hashingVars, chainsVars, creditsVars,
                      claimsVars, noticesVars, standingVars>>
     \/ focus = "twice" /\ Twice!Next
        /\ UNCHANGED <<uploadsVars, cacheVars, hashingVars, chainsVars, creditsVars,
                      claimsVars, noticesVars, standingVars>>
     \/ focus = "vouching" /\ Vouching!Next
        /\ UNCHANGED <<uploadsVars, cacheVars, hashingVars, chainsVars, creditsVars,
                      claimsVars, noticesVars, oauthVars>>
     \/ focus = "metadata" /\ Metadata!Next
        /\ UNCHANGED <<uploadsVars, cacheVars, hashingVars, chainsVars, creditsVars,
                      claimsVars, noticesVars, oauthVars>>
     \/ focus = "tidings" /\ Tidings!Next
        /\ UNCHANGED <<uploadsVars, cacheVars, hashingVars, chainsVars, creditsVars,
                      claimsVars, oauthVars, standingVars>>

contentVars == <<focus, uploadsVars, cacheVars, hashingVars, chainsVars, creditsVars, claimsVars,
          noticesVars, oauthVars, standingVars>>

ContentSpec == ContentInit /\ [][ContentNext]_contentVars

-----------------------------------------------------------------------------
\* Types: the type invariant of the module that moves.
ContentTypeOK ==
  /\ focus = "uploads" => Files!TypeOK
  /\ focus = "feed" => TypeOK
  /\ focus = "roster" => Roster!TypeOK
  /\ focus = "hashing" => Hashing!TypeOK
  /\ focus = "chains" => Chains!TypeOK
  /\ focus = "credits" => Credits!TypeOK
  /\ focus = "claims" => Claims!TypeOK
  /\ focus = "digest" => Digest!TypeOK
  /\ focus = "oauth" => OAuth!TypeOK
  /\ focus = "verified" => Verified!TypeOK
  /\ focus = "twice" => Twice!TypeOK
  /\ focus = "vouching" => Vouching!TypeOK
  /\ focus = "metadata" => Metadata!TypeOK
  /\ focus = "tidings" => Tidings!TypeOK

\* The chain in SQL, that credit is resolved against, is the one the JS walker shows; and
\* from the posts of a chain within reach, and no other, a reader is sent to its head.
\* Broadcasting a post takes no credit away and leaves every author_index at its slot, a
\* consent op changes the credit of an account only when it is signed by that account, the
\* author of the paper, the bridge or the administrator, the pending list shows a paper
\* to every account that is named in it and silent, and the resolver in JS credits whom SQL
\* does.
CreditSound ==
  /\ focus = "chains" => Chains!ChainsAgree /\ Chains!RootFound
  /\ focus = "credits" =>
       /\ Credits!BroadcastsOnlyAdd /\ Credits!StrangersChangeNothing
       /\ Credits!PendingListed /\ Credits!ResolversAgree

\* Nothing but the authority lifts a sanction, and nothing but a sanction takes away what the
\* authority granted, unless an op was read before HAF had the one it undoes; and vouches
\* that were withdrawn before a request began accredit nobody, if a DEL of
\* the cached status went through.
StandingSound ==
  /\ focus = "vouching" => Vouching!SanctionStands /\ Vouching!GrantStands /\ Vouching!VouchesCurrent
  /\ focus = "metadata" => Metadata!SanctionStands /\ Metadata!GrantStands

\* ARCHITECTURE.md:281 and 353: nobody can unmake the claim of another author by editing
\* a post of the chain.
NoUnmaking == focus = "credits" => Credits!NoUnmaking
=============================================================================
