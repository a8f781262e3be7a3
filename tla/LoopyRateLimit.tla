--------------------------- MODULE LoopyRateLimit ---------------------------
(***************************************************************************)
(* The rate limiters of loopyRateLimit.c.  Token bucket, sliding window    *)
(* and leaky bucket do everything under their mutex, so a check is one     *)
(* step; the fixed window counts with atomics and takes the mutex only to  *)
(* start a window, so each atomic access is a step of its thread.          *)
(* Amounts are counted in units, RlUnit to a token, which makes rates      *)
(* below one token per tick of the clock integers; the doubles' rounding   *)
(* is left out, and so are statistics and the advice given to a caller.    *)
(***************************************************************************)
EXTENDS Integers, Sequences, FiniteSets, FiniteSetsExt, Functions

CONSTANTS
  RlThreads,
  RlUnit,       (* units in a token                                          *)
  RlRate,       (* units that a tick refills or drains                       *)
  RlCapacity,   (* capacity, maxRequests, queueCapacity                      *)
  RlCosts,      (* tokens per request, 0 for the default of one              *)
  RlWindow,     (* windowMs, in ticks                                        *)
  RlEntries,    (* entries a sliding window can hold                         *)
  RlWord,       (* 2^64                                                      *)
  RlMaxTime     (* bound on the clock                                        *)

ASSUME RlAssumption ==
  /\ RlUnit \in Nat \ {0} /\ RlEntries \in Nat \ {0}
  /\ RlRate \in Nat /\ RlCapacity \in Nat /\ RlCosts \subseteq Nat /\ RlWindow \in Nat

Algorithms == {"TOKEN_BUCKET", "SLIDING_WINDOW", "LEAKY_BUCKET", "FIXED_WINDOW"}

VARIABLES
  rlAlgorithm,
  rlNow,
  rlTokens,       (* token bucket: tokens, in units                          *)
  rlLast,         (* lastRefillUs, lastDrainUs, windowStart                  *)
  rlWindow,       (* sliding window: time stamps, oldest first               *)
  rlQueue,        (* leaky bucket: queueSize                                 *)
  rlPartial,      (* partialDrain, in units                                  *)
  rlCount,        (* fixed window: count                                     *)
  rlCall,         (* fixed window: where each thread is, and its `now`       *)
  rlGrants        (* history: time and cost of the requests allowed          *)

rlVars == <<rlAlgorithm, rlNow, rlTokens, rlLast, rlWindow, rlQueue, rlPartial,
            rlCount, rlCall, rlGrants>>

\* A thread outside the fixed window's functions.
FwIdle == [pc |-> "idle", now |-> 0, next |-> "idle"]

RlInit ==
  /\ rlAlgorithm \in Algorithms
  /\ rlNow = 0
  /\ rlTokens \in {0, RlCapacity * RlUnit}
  /\ rlLast = 0
  /\ rlWindow = << >>
  /\ rlQueue = 0 /\ rlPartial = 0
  /\ rlCount = 0
  /\ rlCall = [t \in RlThreads |-> FwIdle]
  /\ rlGrants = << >>

Granted(ok, c) == rlGrants' = IF ok THEN Append(rlGrants, [at |-> rlNow, cost |-> c]) ELSE rlGrants

\* Mutant: a bucket that never overflows.
RefilledUncapped == rlTokens + (rlNow - rlLast) * RlRate

\* tokenBucketRefill
Refilled == Min({RlCapacity * RlUnit, rlTokens + (rlNow - rlLast) * RlRate})

\* tokenBucketCheck
TokenBucketCheck(cost) ==
  /\ rlAlgorithm = "TOKEN_BUCKET"
  /\ LET c  == IF cost > 0 THEN cost ELSE 1
         ok == Refilled >= c * RlUnit IN
     /\ rlTokens' = Refilled - (IF ok THEN c * RlUnit ELSE 0)
     /\ Granted(ok, c)
  /\ rlLast' = rlNow
  /\ UNCHANGED <<rlAlgorithm, rlNow, rlWindow, rlQueue, rlPartial, rlCount, rlCall>>

\* slidingWindowPrune: entries go from the oldest on, up to the first that is
\* still in the window.
Pruned == LET cutoff == IF rlNow > RlWindow THEN rlNow - RlWindow ELSE 0
              count  == Len(rlWindow)
              oldest == Min({k \in 1 .. count + 1 : k = count + 1 \/ rlWindow[k] >= cutoff})
          IN  SubSeq(rlWindow, oldest, count)

\* slidingWindowCheck
SlidingWindowCheck ==
  /\ rlAlgorithm = "SLIDING_WINDOW"
  /\ LET ok == Len(Pruned) < RlCapacity /\ Len(Pruned) < RlEntries IN
     /\ rlWindow' = IF ok THEN Append(Pruned, rlNow) ELSE Pruned
     /\ Granted(ok, 1)
  /\ UNCHANGED <<rlAlgorithm, rlNow, rlTokens, rlLast, rlQueue, rlPartial, rlCount, rlCall>>

\* leakyBucketDrain: whole requests leave, the rest is remembered.
DrainAmount == (rlNow - rlLast) * RlRate + rlPartial
Drained == LET whole == DrainAmount \div RlUnit
           IN  IF whole > rlQueue THEN 0 ELSE rlQueue - whole

\* leakyBucketCheck
LeakyBucketCheck ==
  /\ rlAlgorithm = "LEAKY_BUCKET"
  /\ LET ok == Drained < RlCapacity IN
     /\ rlQueue' = IF ok THEN Drained + 1 ELSE Drained
     /\ Granted(ok, 1)
  /\ rlPartial' = DrainAmount % RlUnit
  /\ rlLast' = rlNow
  /\ UNCHANGED <<rlAlgorithm, rlNow, rlTokens, rlWindow, rlCount, rlCall>>

\* The mutex of the fixed window is held between the two stores that start one.
RlMutexFree == \A t \in RlThreads : rlCall[t].pc # "start"

\* loopyRateLimitPeek refills, prunes or drains and grants nothing.
Peek ==
  /\ CASE rlAlgorithm = "TOKEN_BUCKET" ->
            /\ rlTokens' = Refilled /\ rlLast' = rlNow
            /\ UNCHANGED <<rlWindow, rlQueue, rlPartial>>
       [] rlAlgorithm = "SLIDING_WINDOW" ->
            rlWindow' = Pruned /\ UNCHANGED <<rlTokens, rlLast, rlQueue, rlPartial>>
       [] rlAlgorithm = "LEAKY_BUCKET" ->
            /\ rlQueue' = Drained /\ rlPartial' = DrainAmount % RlUnit /\ rlLast' = rlNow
            /\ UNCHANGED <<rlTokens, rlWindow>>
       [] OTHER -> FALSE
  /\ UNCHANGED <<rlAlgorithm, rlNow, rlCount, rlCall, rlGrants>>

\* loopyRateLimitReset starts afresh, and so does the history.
Reset ==
  /\ rlTokens' = RlCapacity * RlUnit
  /\ rlLast' = rlNow
  /\ rlWindow' = << >>
  /\ rlQueue' = 0 /\ rlPartial' = 0
  /\ rlCount' = 0
  /\ rlGrants' = << >>
  /\ RlMutexFree
  /\ UNCHANGED <<rlAlgorithm, rlNow, rlCall>>

-----------------------------------------------------------------------------
(* The fixed window                                                         *)

FwAt(t, p) == rlAlgorithm = "FIXED_WINDOW" /\ rlCall[t].pc = p
FwGoto(t, p) == rlCall' = [rlCall EXCEPT ![t] = IF p = "idle" THEN FwIdle ELSE [@ EXCEPT !.pc = p]]
Ended(now) == now >= rlLast + RlWindow

\* fixedWindowCheck (then it counts) and fixedWindowPeek (then it ends) begin
\* with fixedWindowMaybeReset: it reads the clock and the start of the window,
FixedWindowCall(t, next) ==
  /\ FwAt(t, "idle")
  /\ Ended(rlNow) \/ next = "add"
  /\ rlCall' = [rlCall EXCEPT ![t] = [pc |-> IF Ended(rlNow) THEN "lock" ELSE next,
                                      now |-> rlNow, next |-> next]]
  /\ UNCHANGED <<rlAlgorithm, rlNow, rlTokens, rlLast, rlWindow, rlQueue, rlPartial, rlCount, rlGrants>>

\* looks again under the mutex, with the time it read before, sets the count
\* to zero,
FixedWindowLock(t) ==
  /\ FwAt(t, "lock")
  /\ RlMutexFree
  /\ IF Ended(rlCall[t].now)
     THEN rlCount' = 0 /\ rlGrants' = << >> /\ FwGoto(t, "start")
     ELSE FwGoto(t, rlCall[t].next) /\ UNCHANGED <<rlCount, rlGrants>>
  /\ UNCHANGED <<rlAlgorithm, rlNow, rlTokens, rlLast, rlWindow, rlQueue, rlPartial>>

\* and then starts the window.
FixedWindowStart(t) ==
  /\ FwAt(t, "start")
  /\ rlLast' = rlCall[t].now
  /\ FwGoto(t, rlCall[t].next)
  /\ UNCHANGED <<rlAlgorithm, rlNow, rlTokens, rlWindow, rlQueue, rlPartial, rlCount, rlGrants>>

\* The request is counted, and uncounted if it was too many.
FixedWindowAdd(t) ==
  /\ FwAt(t, "add")
  /\ rlCount' = (rlCount + 1) % RlWord
  /\ FwGoto(t, IF rlCount < RlCapacity THEN "idle" ELSE "undo")
  /\ Granted(rlCount < RlCapacity, 1)
  /\ UNCHANGED <<rlAlgorithm, rlNow, rlTokens, rlLast, rlWindow, rlQueue, rlPartial>>
FixedWindowUndo(t) ==
  /\ FwAt(t, "undo")
  /\ rlCount' = (rlCount - 1) % RlWord
  /\ FwGoto(t, "idle")
  /\ UNCHANGED <<rlAlgorithm, rlNow, rlTokens, rlLast, rlWindow, rlQueue, rlPartial, rlGrants>>

RlTick ==
  /\ rlNow < RlMaxTime
  /\ rlNow' = rlNow + 1
  /\ UNCHANGED <<rlAlgorithm, rlTokens, rlLast, rlWindow, rlQueue, rlPartial, rlCount, rlCall, rlGrants>>

RlNext ==
  \/ \E c \in RlCosts : TokenBucketCheck(c)
  \/ SlidingWindowCheck
  \/ LeakyBucketCheck
  \/ Peek
  \/ Reset
  \/ \E t \in RlThreads : \/ \E next \in {"add", "idle"} : FixedWindowCall(t, next)
                          \/ FixedWindowLock(t) \/ FixedWindowStart(t)
                          \/ FixedWindowAdd(t) \/ FixedWindowUndo(t)
  \/ RlTick

RlSpec == RlInit /\ [][RlNext]_rlVars

-----------------------------------------------------------------------------
(* Properties                                                               *)

\* What was granted from the i-th request to the last one.
GrantedSince(i) == SumFunctionOnSet([k \in DOMAIN rlGrants |-> rlGrants[k].cost], i .. Len(rlGrants))

\* Over every stretch of time that ends now: a bucket grants at most its
\* capacity and what came in since, wherever partial amounts and refusals
\* fall; a sliding window grants no more than its maximum in any window.  A
\* fixed window makes no such promise: see FixedWindowKept.
RateKept ==
  \A i \in 1 .. Len(rlGrants) :
    LET span == rlGrants[Len(rlGrants)].at - rlGrants[i].at IN
    CASE rlAlgorithm = "TOKEN_BUCKET" -> GrantedSince(i) * RlUnit <= RlCapacity * RlUnit + span * RlRate
      [] rlAlgorithm = "LEAKY_BUCKET" -> GrantedSince(i) * RlUnit < (RlCapacity + 1) * RlUnit + span * RlRate
      [] rlAlgorithm = "SLIDING_WINDOW" -> span <= RlWindow => GrantedSince(i) <= RlCapacity
      [] OTHER -> TRUE

\* "Maximum requests per window" (loopyRateLimit.h, maxRequests).  It does not
\* hold: a refused request is uncounted after another thread has started a new
\* window, which then has room for one more.
FixedWindowKept == rlAlgorithm = "FIXED_WINDOW" => Len(rlGrants) <= RlCapacity
=============================================================================
