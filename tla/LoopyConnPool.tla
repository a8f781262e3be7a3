---------------------------- MODULE LoopyConnPool ----------------------------
(***************************************************************************)
(* loopyConnPool.c: connections that clients of one loop borrow, the list  *)
(* of idle ones, and the queue of requests that found none.  The create    *)
(* and validate callbacks may fail whenever they are called and do not     *)
(* call the pool.  Age is two sets: connections past maxLifetimeUs and     *)
(* idle ones past idleTimeoutUs.  The callbacks of requests may call       *)
(* anything; loopyConnPoolFree may come while connections are out, and a   *)
(* connection that is then given back reads the freed pool: the model      *)
(* records it and ends there.                                              *)
(***************************************************************************)
EXTENDS Integers, FiniteSets, Sequences, SequencesExt

CONSTANTS
  CnMaxTotal, CnMinIdle,  (* config.maxTotal, config.minIdle                 *)
  CnRequests,             (* asynchronous requests                           *)
  CnMaxActive             (* bound on activeCount                            *)

CnConns == 1 .. CnMaxTotal

ASSUME CnAssumption == CnMaxTotal \in Nat /\ CnMinIdle \in Nat

VARIABLES
  cnState,      (* "none", "open"; loopyConnPoolFree has set destroyed:
                   "closing", and "calling" inside a request's callback;
                   "freed"                                                   *)
  cnIdle,       (* pool->idleConns, from its head                            *)
  cnUsed,       (* connections in a client's hands                           *)
  totalConns, idleCount, activeCount,
  cnWait,       (* requests from waitQueueHead to waitQueueTail              *)
  cnAsked,      (* requests made                                             *)
  cnAnswers,    (* history: how often each request was called back           *)
  cnLost,       (* history: requests for which there was no memory           *)
  cnServing,    (* callbacks of requests that loopyConnPoolRelease runs      *)
  cnFreedUse,   (* history: the pool's memory was used after it was freed    *)
  cnOld, cnStale (* past the lifetime, idle too long                         *)

cnVars == <<cnState, cnIdle, cnUsed, totalConns, idleCount, activeCount,
            cnWait, cnAsked, cnAnswers, cnLost, cnServing, cnFreedUse, cnOld, cnStale>>
cnQueue == <<cnWait, cnAsked, cnAnswers, cnLost>>
cnCall == <<cnServing, cnFreedUse>>

CnInit ==
  /\ cnState = "none"
  /\ cnIdle = << >> /\ cnUsed = {}
  /\ totalConns = 0 /\ idleCount = 0 /\ activeCount = 0
  /\ cnWait = << >> /\ cnAsked = {} /\ cnAnswers = [r \in CnRequests |-> 0]
  /\ cnLost = {} /\ cnServing = 0 /\ cnFreedUse = FALSE
  /\ cnOld = {} /\ cnStale = {}

\* createConnection gives connections that are not in use.
Unused == CnConns \ (cnUsed \cup Range(cnIdle))
Created(k) == CHOOSE s \in [1 .. k -> Unused] : IsInjective(s)
Forget(S) == cnOld' = cnOld \ S /\ cnStale' = cnStale \ S

\* loopyConnPoolPrewarm: up to n connections, fewer if one cannot be created.
PrewarmBy(k) ==
  /\ cnIdle' = Created(k) \o cnIdle
  /\ idleCount' = idleCount + k
  /\ totalConns' = totalConns + k
Room == CnMaxTotal - totalConns

\* loopyConnPoolNew: a pool that cannot have its timers or its minimum is
\* freed again.
ConnPoolNew ==
  /\ cnState = "none"
  /\ \/ cnState' = "open" /\ CnMinIdle <= Room /\ PrewarmBy(CnMinIdle)
     \/ cnState' = "freed" /\ UNCHANGED <<cnIdle, idleCount, totalConns>>
  /\ UNCHANGED <<cnUsed, activeCount, cnQueue, cnCall, cnOld, cnStale>>

Prewarm(n, k) ==
  /\ cnState = "open"
  /\ k <= Room /\ k <= (IF n = 0 THEN CnMinIdle ELSE n)
  /\ PrewarmBy(k)
  /\ UNCHANGED <<cnState, cnUsed, activeCount, cnQueue, cnCall, cnOld, cnStale>>

\* loopyConnPoolAcquire: idle connections are taken from the head; the first
\* n - 1 fail validation or are too old and are destroyed, the n-th serves.
\* Beyond the list a connection is created, if there is room and it succeeds.
AcquireIdle(n) ==
  /\ n \in 1 .. Len(cnIdle)
  /\ cnIdle[n] \notin cnOld
  /\ cnUsed' = cnUsed \cup {cnIdle[n]}
  /\ cnIdle' = SubSeq(cnIdle, n + 1, Len(cnIdle))
  /\ idleCount' = idleCount - n
  /\ totalConns' = totalConns - (n - 1)
  /\ activeCount' = activeCount + n
  /\ Forget({cnIdle[i] : i \in 1 .. n})

AcquireNew(ok) ==
  LET rest == totalConns - Len(cnIdle)
      made == IF ok /\ rest < CnMaxTotal THEN 1 ELSE 0 IN
  /\ cnIdle' = << >>
  /\ cnUsed' = cnUsed \cup (IF made = 1 THEN {CHOOSE c \in CnConns : c \notin cnUsed} ELSE {})
  /\ idleCount' = idleCount - Len(cnIdle)
  /\ totalConns' = rest + made
  /\ activeCount' = activeCount + Len(cnIdle) + made
  /\ Forget(Range(cnIdle))
TakeConn == (\E n \in 1 .. Len(cnIdle) : AcquireIdle(n)) \/ (\E ok \in BOOLEAN : AcquireNew(ok))

Acquire ==
  /\ cnState = "open"
  /\ TakeConn /\ activeCount' <= CnMaxActive
  /\ UNCHANGED <<cnState, cnQueue, cnCall>>

Answer(r) == [cnAnswers EXCEPT ![r] = @ + 1]

\* loopyConnPoolAcquireAsync: at once, or the request is queued.  It returns
\* true although enqueueWaitRequest found no memory.  acquireTimeoutUs is read
\* nowhere: a request waits until a connection comes or the pool goes.
AcquireAsync(r) ==
  /\ cnState = "open"
  /\ r \notin cnAsked
  /\ cnAsked' = cnAsked \cup {r}
  /\ IF cnIdle # << >> \/ totalConns < CnMaxTotal
     THEN TakeConn /\ activeCount' <= CnMaxActive /\ cnAnswers' = Answer(r) /\ UNCHANGED <<cnWait, cnLost>>
     ELSE /\ \/ cnWait' = Append(cnWait, r) /\ UNCHANGED cnLost
             \/ cnLost' = cnLost \cup {r} /\ UNCHANGED cnWait
          /\ UNCHANGED <<cnAnswers, cnIdle, cnUsed, totalConns, idleCount, activeCount, cnOld, cnStale>>
  /\ UNCHANGED <<cnState, cnCall>>

\* loopyConnPoolRelease of a connection that is broken or too old: a
\* replacement only below the minimum.
ReleaseBroken(c, healthy, ok) ==
  /\ cnState = "open"
  /\ c \in cnUsed
  /\ ~healthy \/ c \in cnOld
  /\ LET k == IF totalConns - 1 < CnMinIdle /\ totalConns - 1 < CnMaxTotal /\ ok THEN 1 ELSE 0 IN
     /\ cnIdle' = [i \in 1 .. k |-> c] \o cnIdle
     /\ idleCount' = idleCount + k
     /\ totalConns' = totalConns - 1 + k
  /\ cnUsed' = cnUsed \ {c}
  /\ activeCount' = activeCount - 1
  /\ Forget({c})
  /\ UNCHANGED <<cnState, cnQueue, cnCall>>

\* Mutant: the request that is served stays in the queue.
ReleaseKeepsRequest(c) ==
  /\ cnState = "open"
  /\ c \in cnUsed \ cnOld
  /\ IF cnWait # << >>
     THEN /\ cnAnswers' = Answer(Head(cnWait))
          /\ cnServing' = cnServing + 1
          /\ UNCHANGED <<cnWait, cnIdle, cnUsed, idleCount, activeCount, cnStale>>
     ELSE /\ cnIdle' = <<c>> \o cnIdle
          /\ cnUsed' = cnUsed \ {c}
          /\ idleCount' = idleCount + 1
          /\ activeCount' = activeCount - 1
          /\ UNCHANGED <<cnWait, cnAnswers, cnServing, cnStale>>
  /\ UNCHANGED <<cnState, totalConns, cnAsked, cnLost, cnFreedUse, cnOld>>

\* Of a healthy one: to the first request that waits, or to the idle list.
ReleaseHealthy(c) ==
  /\ cnState = "open"
  /\ c \in cnUsed \ cnOld
  /\ IF cnWait # << >>
     THEN /\ cnWait' = Tail(cnWait)
          /\ cnAnswers' = Answer(Head(cnWait))
          /\ cnServing' = cnServing + 1
          /\ UNCHANGED <<cnIdle, cnUsed, idleCount, activeCount, cnStale>>
     ELSE /\ cnIdle' = <<c>> \o cnIdle
          /\ cnUsed' = cnUsed \ {c}
          /\ idleCount' = idleCount + 1
          /\ activeCount' = activeCount - 1
          /\ UNCHANGED <<cnWait, cnAnswers, cnServing, cnStale>>
  /\ UNCHANGED <<cnState, totalConns, cnAsked, cnLost, cnFreedUse, cnOld>>

\* The callback of a request that was served returns; loopyConnPoolRelease
\* counts it in the pool.
ServeReturns ==
  /\ cnServing > 0 /\ cnState \in {"open", "freed"} /\ ~cnFreedUse
  /\ cnServing' = cnServing - 1
  /\ cnFreedUse' = (cnState = "freed")
  /\ UNCHANGED <<cnState, cnIdle, cnUsed, totalConns, idleCount, activeCount, cnQueue, cnOld, cnStale>>

\* Of one that comes back after loopyConnPoolFree: it is destroyed, as long as
\* the pool is there to say so.
ReleaseDestroyed(c) ==
  /\ cnState \in {"calling", "freed"} /\ ~cnFreedUse
  /\ c \in cnUsed
  /\ IF cnState = "freed"
     THEN cnFreedUse' = TRUE /\ UNCHANGED <<cnUsed, totalConns, cnOld, cnStale>>
     ELSE /\ cnUsed' = cnUsed \ {c}
          /\ totalConns' = totalConns - 1
          /\ Forget({c})
          /\ UNCHANGED cnFreedUse
  /\ UNCHANGED <<cnState, cnIdle, idleCount, activeCount, cnQueue, cnServing>>

\* What both maintenance passes do with the connections they drop: the walk
\* over the list unlinks them and leaves the others in order.
Kept(S) ==
  LET kept[i \in 0 .. Len(cnIdle)] ==
        IF i = 0 THEN << >>
        ELSE IF cnIdle[i] \in S THEN kept[i - 1] ELSE Append(kept[i - 1], cnIdle[i])
  IN  kept[Len(cnIdle)]
DropIdle(S) ==
  /\ cnIdle' = Kept(S)
  /\ idleCount' = idleCount - Cardinality(S)
  /\ totalConns' = totalConns - Cardinality(S)
  /\ Forget(S)
  /\ UNCHANGED <<cnState, cnUsed, activeCount, cnQueue, cnCall>>

\* loopyConnPoolHealthCheck, from its timer or called: any of the idle fail.
HealthCheck(S) ==
  /\ cnState = "open"
  /\ S \subseteq Range(cnIdle)
  /\ DropIdle(S)

\* loopyConnPoolCleanupIdle: from the head of the list, while more than the
\* minimum is left.
CleanupIdle ==
  /\ cnState = "open"
  /\ LET staleUpTo(i) == Cardinality({j \in 1 .. i : cnIdle[j] \in cnStale}) IN
     DropIdle({cnIdle[i] : i \in {j \in DOMAIN cnIdle :
                 cnIdle[j] \in cnStale /\ totalConns - staleUpTo(j) >= CnMinIdle}})

\* loopyConnPoolFree: the idle connections are destroyed, then the requests
\* that wait are called back, one by one, with no connection, and the pool is
\* freed, whatever clients still hold.
ConnPoolFree ==
  /\ cnState = "open"
  /\ cnState' = "closing"
  /\ cnIdle' = << >> /\ idleCount' = 0 /\ totalConns' = totalConns - Len(cnIdle)
  /\ activeCount' = activeCount + Len(cnIdle)
  /\ Forget(Range(cnIdle))
  /\ UNCHANGED <<cnUsed, cnQueue, cnCall>>

FreeAnswers ==
  /\ cnState = "closing" /\ cnWait # << >>
  /\ cnState' = "calling"
  /\ cnWait' = Tail(cnWait)
  /\ cnAnswers' = Answer(Head(cnWait))
  /\ UNCHANGED <<cnIdle, cnUsed, totalConns, idleCount, activeCount, cnAsked, cnLost, cnCall, cnOld, cnStale>>

AnswerReturns ==
  /\ cnState = "calling"
  /\ cnState' = "closing"
  /\ UNCHANGED <<cnIdle, cnUsed, totalConns, idleCount, activeCount, cnQueue, cnCall, cnOld, cnStale>>

ConnPoolFreed ==
  /\ cnState = "closing" /\ cnWait = << >>
  /\ cnState' = "freed"
  /\ UNCHANGED <<cnIdle, cnUsed, totalConns, idleCount, activeCount, cnQueue, cnCall, cnOld, cnStale>>

\* Time passes.
Age ==
  /\ \/ \E c \in (cnUsed \cup Range(cnIdle)) \ cnOld : cnOld' = cnOld \cup {c} /\ UNCHANGED cnStale
     \/ \E c \in Range(cnIdle) \ cnStale : cnStale' = cnStale \cup {c} /\ UNCHANGED cnOld
  /\ UNCHANGED <<cnState, cnIdle, cnUsed, totalConns, idleCount, activeCount, cnQueue, cnCall>>

CnNext ==
  \/ ConnPoolNew
  \/ \E k, n \in 0 .. CnMaxTotal : Prewarm(n, k)
  \/ Acquire
  \/ \E r \in CnRequests : AcquireAsync(r)
  \/ \E c \in CnConns : ReleaseHealthy(c) \/ ReleaseDestroyed(c)
  \/ \E c \in CnConns, h, ok \in BOOLEAN : ReleaseBroken(c, h, ok)
  \/ ServeReturns
  \/ \E S \in SUBSET CnConns : HealthCheck(S)
  \/ CleanupIdle
  \/ ConnPoolFree \/ FreeAnswers \/ AnswerReturns \/ ConnPoolFreed
  \/ Age

CnSpec == CnInit /\ [][CnNext]_cnVars

-----------------------------------------------------------------------------
(* Properties                                                               *)

\* Connections are neither lost nor lent twice: the total is what is idle plus
\* what clients hold, within the maximum, over validation failures, expiry,
\* replacement, hand-over to a waiting request, and a free with connections out.
ConnConserved ==
  /\ totalConns = Len(cnIdle) + Cardinality(cnUsed)
  /\ totalConns <= CnMaxTotal
  /\ idleCount = Len(cnIdle)
  /\ IsInjective(cnIdle) /\ Range(cnIdle) \cap cnUsed = {}

\* Every request for which there was memory waits or was called back, once: not
\* while it waits, not twice, and at the latest when the pool is freed.  No time
\* is stated: the code has no timeout of a request.
AnsweredOnce ==
  /\ IsInjective(cnWait) /\ Range(cnWait) \cap cnLost = {}
  /\ \A r \in cnAsked : cnAnswers[r] = IF r \in Range(cnWait) \cup cnLost THEN 0 ELSE 1
  /\ cnState = "freed" => cnWait = << >>

\* What the pool keeps: every connection is in one place, and every request that
\* was queued or served is answered once, also when loopyConnPoolFree comes while
\* connections are out and callbacks of requests give some back
\* (loopyConnPoolAcquireAsync, Release, Free).
ConnPoolExact == ConnConserved /\ AnsweredOnce

\* "Any connections currently acquired will be destroyed when they are released"
\* (loopyConnPool.h, loopyConnPoolFree).  It does not hold: once loopyConnPoolFree
\* has returned, loopyConnPoolRelease reads the freed pool; it also does after a
\* request's callback has freed the pool.
ReleaseSafe == ~cnFreedUse

\* "true if request queued, false on error" (loopyConnPoolAcquireAsync).  It does
\* not hold: a request for which there is no memory is dropped, and never called
\* back.
NoRequestLost == cnLost = {}

\* "Total connections (idle + active)" (struct loopyConnPool).  It does not hold:
\* an idle connection that fails validation on its way out stays counted active.
ActiveCountAgrees == cnState = "open" => totalConns = idleCount + activeCount

\* A request waits only while there is neither an idle connection nor room for a
\* new one (loopyConnPoolAcquireAsync).  It does not hold: the release of a broken
\* connection makes room and leaves the queue alone.
NoWaitBesideRoom == cnWait # << >> => cnIdle = << >> /\ totalConns = CnMaxTotal
=============================================================================
