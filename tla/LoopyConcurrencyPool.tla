------------------------ MODULE LoopyConcurrencyPool ------------------------
(***************************************************************************)
(* loopyConcurrencyPool.c: slots that threads take and give back, counted  *)
(* per user and for the whole pool in atomics.  A compare-and-swap loop    *)
(* is one step if it decides by the value it swaps; the loops on a user's  *)
(* counter are two, because its limit may be updated before the swap and   *)
(* the number to release keeps what an earlier turn made of it.            *)
(* A user is removed only while no call is working on it: the pointers the *)
(* calls hold are not counted.  Statistics are left out.                   *)
(***************************************************************************)
EXTENDS Integers, FiniteSets, FiniteSetsExt

CONSTANTS
  CpThreads,
  CpNames,     (* user identifiers                                           *)
  CpConfigs,   (* pool configurations: globalLimit, defaultUserLimit,        *)
               (* maxUsers, autoCreateUsers                                  *)
  CpLimits,    (* limits that a client gives to a user                       *)
  CpCounts,    (* slots asked for or given back in one call                  *)
  CpWord       (* 2^64: the counters are size_t                              *)

\* Clients do not ask for so many slots that the sum with the limit of the pool
\* overflows the counter.
ASSUME CpAssumption ==
  /\ IsFiniteSet(CpThreads) /\ IsFiniteSet(CpNames) /\ CpNames # {}
  /\ CpWord \in Nat \ {0} /\ CpCounts \subseteq Nat
  /\ \A c \in CpConfigs : c.globalLimit \in Nat /\ \A n \in CpCounts \cup {0} : c.globalLimit + n < CpWord

VARIABLES
  cpConfig,
  cpUsers,      (* keys of pool->users                                       *)
  cpLimit, cpActive, (* user->limit, user->active                            *)
  globalActive, userCount,
  cpCall        (* per thread: the call it is in                             *)

cpVars == <<cpConfig, cpUsers, cpLimit, cpActive, globalActive, userCount, cpCall>>
cpTables == <<cpUsers, cpLimit, userCount>>

NoCall == [pc |-> "idle", id |-> CHOOSE u \in CpNames : TRUE, count |-> 0, limit |-> 0, seen |-> 0]

CpInit ==
  /\ cpConfig \in CpConfigs
  /\ cpUsers = {}
  /\ cpLimit = [u \in CpNames |-> 0]
  /\ cpActive = [u \in CpNames |-> 0]
  /\ globalActive = 0
  /\ userCount = 0
  /\ cpCall = [t \in CpThreads |-> NoCall]

CpAt(t, p) == cpCall[t].pc = p
CpGoto(t, p) == cpCall' = [cpCall EXCEPT ![t].pc = p]
CpReturn(t) == cpCall' = [cpCall EXCEPT ![t] = NoCall]
Plus(n, d) == (n + d) % CpWord

\* The place of loopyConcurrencyUserTryAcquire that comes first.
AcquireStart == IF cpConfig.globalLimit > 0 THEN "global" ELSE "load"

-----------------------------------------------------------------------------
(* Users                                                                    *)

\* loopyConcurrencyPoolAddUser, called by a client or to create the user of an
\* acquisition (then `count` is what the acquisition wants).
AddUserCall(t, u, l) ==
  /\ CpAt(t, "idle")
  /\ cpCall' = [cpCall EXCEPT ![t] = [NoCall EXCEPT !.pc = "check", !.id = u, !.limit = l]]
  /\ UNCHANGED <<cpConfig, cpTables, cpActive, globalActive>>

\* It looks at the number of users before it takes the lock.
AddUserCheck(t) ==
  /\ CpAt(t, "check")
  /\ IF cpConfig.maxUsers > 0 /\ userCount >= cpConfig.maxUsers
     THEN CpReturn(t)
     ELSE CpGoto(t, "insert")
  /\ UNCHANGED <<cpConfig, cpTables, cpActive, globalActive>>

\* raxTryInsert under the write lock: an existing user is kept.
InsertUser(t) ==
  /\ CpAt(t, "insert")
  /\ LET u == cpCall[t].id IN
     IF u \in cpUsers
     THEN UNCHANGED <<cpTables, cpActive>>
     ELSE /\ cpUsers' = cpUsers \cup {u}
          /\ cpLimit' = [cpLimit EXCEPT ![u] = cpCall[t].limit]
          /\ cpActive' = [cpActive EXCEPT ![u] = 0]
          /\ userCount' = userCount + 1
  /\ IF cpCall[t].count = 0 THEN CpReturn(t) ELSE CpGoto(t, AcquireStart)
  /\ UNCHANGED <<cpConfig, globalActive>>

\* loopyConcurrencyPoolRemoveUser.
RemoveUser(t, u) ==
  /\ CpAt(t, "idle")
  /\ u \in cpUsers
  /\ \A s \in CpThreads : cpCall[s].pc \in {"idle", "check", "insert"} \/ cpCall[s].id # u
  /\ globalActive' = Plus(globalActive, -cpActive[u])
  /\ cpUsers' = cpUsers \ {u}
  /\ cpActive' = [cpActive EXCEPT ![u] = 0]
  /\ cpLimit' = [cpLimit EXCEPT ![u] = 0]
  /\ userCount' = userCount - 1
  /\ UNCHANGED <<cpConfig, cpCall>>

\* loopyConcurrencyUserUpdate: plain stores.
UpdateUser(t, u, l) ==
  /\ CpAt(t, "idle")
  /\ u \in cpUsers
  /\ cpLimit' = [cpLimit EXCEPT ![u] = l]
  /\ UNCHANGED <<cpConfig, cpUsers, userCount, cpActive, globalActive, cpCall>>

-----------------------------------------------------------------------------
(* Acquisition                                                              *)

\* loopyConcurrencyPoolTryAcquire: look the user up, or create it.
TryAcquireCall(t, u, n) ==
  /\ CpAt(t, "idle")
  /\ u \in cpUsers \/ cpConfig.autoCreateUsers
  /\ cpCall' = [cpCall EXCEPT ![t] =
       [NoCall EXCEPT !.pc = IF u \in cpUsers THEN AcquireStart ELSE "check",
                      !.id = u, !.count = n, !.limit = cpConfig.defaultUserLimit]]
  /\ UNCHANGED <<cpConfig, cpTables, cpActive, globalActive>>

\* Step 1 of loopyConcurrencyUserTryAcquire: slots of the pool.
ReserveGlobal(t) ==
  /\ CpAt(t, "global")
  /\ IF Plus(globalActive, cpCall[t].count) > cpConfig.globalLimit
     THEN CpReturn(t) /\ UNCHANGED globalActive
     ELSE CpGoto(t, "load") /\ globalActive' = Plus(globalActive, cpCall[t].count)
  /\ UNCHANGED <<cpConfig, cpTables, cpActive>>

\* Mutant: the refusal forgets the slots of the pool.
LoadUserNoRollback(t) ==
  /\ CpAt(t, "load")
  /\ LET c == cpCall[t] IN
     IF Plus(cpActive[c.id], c.count) > cpLimit[c.id]
     THEN CpReturn(t)
     ELSE cpCall' = [cpCall EXCEPT ![t].pc = "swap", ![t].seen = cpActive[c.id]]
  /\ UNCHANGED <<cpConfig, cpTables, cpActive, globalActive>>

\* Step 2: the user's active slots and its limit are read,
LoadUser(t) ==
  /\ CpAt(t, "load")
  /\ LET c == cpCall[t] IN
     IF Plus(cpActive[c.id], c.count) > cpLimit[c.id]
     THEN IF cpConfig.globalLimit > 0 THEN CpGoto(t, "rollback") ELSE CpReturn(t)
     ELSE cpCall' = [cpCall EXCEPT ![t].pc = "swap", ![t].seen = cpActive[c.id]]
  /\ UNCHANGED <<cpConfig, cpTables, cpActive, globalActive>>

\* and the swap succeeds if nobody has changed them since.
SwapUser(t) ==
  /\ CpAt(t, "swap")
  /\ LET c == cpCall[t] IN
     IF cpActive[c.id] = c.seen
     THEN /\ cpActive' = [cpActive EXCEPT ![c.id] = Plus(@, c.count)]
          /\ IF cpConfig.globalLimit > 0 THEN CpReturn(t) ELSE CpGoto(t, "add")
     ELSE CpGoto(t, "load") /\ UNCHANGED cpActive
  /\ UNCHANGED <<cpConfig, cpTables, globalActive>>

Rollback(t) ==
  /\ CpAt(t, "rollback")
  /\ globalActive' = Plus(globalActive, -cpCall[t].count)
  /\ CpReturn(t)
  /\ UNCHANGED <<cpConfig, cpTables, cpActive>>

\* Step 3: without a limit the pool's counter follows.
AddGlobal(t) ==
  /\ CpAt(t, "add")
  /\ globalActive' = Plus(globalActive, cpCall[t].count)
  /\ CpReturn(t)
  /\ UNCHANGED <<cpConfig, cpTables, cpActive>>

-----------------------------------------------------------------------------
(* Release                                                                  *)

ReleaseCall(t, u, n) ==
  /\ CpAt(t, "idle")
  /\ u \in cpUsers
  /\ cpCall' = [cpCall EXCEPT ![t] = [NoCall EXCEPT !.pc = "release", !.id = u, !.count = n]]
  /\ UNCHANGED <<cpConfig, cpTables, cpActive, globalActive>>

\* loopyConcurrencyUserRelease: no more than the user was seen to have, also
\* when the swap fails and the loop starts again,
ReleaseLoad(t) ==
  /\ CpAt(t, "release")
  /\ LET c == cpCall[t]
         n == Min({c.count, cpActive[c.id]}) IN
     cpCall' = [cpCall EXCEPT ![t] = IF n = 0 THEN NoCall
                                     ELSE [c EXCEPT !.pc = "drop", !.count = n, !.seen = cpActive[c.id]]]
  /\ UNCHANGED <<cpConfig, cpTables, cpActive, globalActive>>

\* taken from the user
ReleaseSwap(t) ==
  /\ CpAt(t, "drop")
  /\ LET c == cpCall[t] IN
     IF cpActive[c.id] = c.seen
     THEN cpActive' = [cpActive EXCEPT ![c.id] = @ - c.count] /\ CpGoto(t, "give")
     ELSE CpGoto(t, "release") /\ UNCHANGED cpActive
  /\ UNCHANGED <<cpConfig, cpTables, globalActive>>

\* loopyConcurrencyUserReleaseAll: an exchange with zero.
ReleaseAll(t, u) ==
  /\ CpAt(t, "idle")
  /\ u \in cpUsers
  /\ cpActive[u] > 0
  /\ cpActive' = [cpActive EXCEPT ![u] = 0]
  /\ cpCall' = [cpCall EXCEPT ![t] = [NoCall EXCEPT !.pc = "give", !.id = u, !.count = cpActive[u]]]
  /\ UNCHANGED <<cpConfig, cpTables, globalActive>>

\* and then from the pool.
GiveGlobal(t) ==
  /\ CpAt(t, "give")
  /\ globalActive' = Plus(globalActive, -cpCall[t].count)
  /\ CpReturn(t)
  /\ UNCHANGED <<cpConfig, cpTables, cpActive>>

CpNext ==
  \E t \in CpThreads :
    \/ \E u \in CpNames, l \in CpLimits : AddUserCall(t, u, l) \/ UpdateUser(t, u, l)
    \/ \E u \in CpNames, n \in CpCounts : TryAcquireCall(t, u, n) \/ ReleaseCall(t, u, n)
    \/ \E u \in CpNames : RemoveUser(t, u) \/ ReleaseAll(t, u)
    \/ AddUserCheck(t) \/ InsertUser(t)
    \/ ReserveGlobal(t) \/ LoadUser(t) \/ SwapUser(t) \/ Rollback(t) \/ AddGlobal(t)
    \/ ReleaseLoad(t) \/ ReleaseSwap(t) \/ GiveGlobal(t)

CpSpec == CpInit /\ [][CpNext]_cpVars

-----------------------------------------------------------------------------
(* Properties                                                               *)

InFlight(pcs) == SumFunction([t \in CpThreads |-> IF cpCall[t].pc \in pcs THEN cpCall[t].count ELSE 0])
Slots == SumFunctionOnSet(cpActive, cpUsers)

\* The pool's counter is the sum of the users' counters, corrected by the
\* threads between their two updates; under a global limit it is never below
\* the users' sum and never above the limit, whatever is rolled back or removed.
SlotsAccounted ==
  LET reserved == IF cpConfig.globalLimit > 0 THEN InFlight({"load", "swap", "rollback"}) ELSE 0 IN
  /\ globalActive = Plus(Slots + reserved + InFlight({"give"}), -InFlight({"add"}))
  /\ cpConfig.globalLimit > 0 => Slots <= globalActive /\ globalActive <= cpConfig.globalLimit
  /\ userCount = Cardinality(cpUsers)

\* "Max number of users" (loopyConcurrencyPool.h, maxUsers).  It does not hold:
\* AddUser looks at the number before it takes the lock.
UsersBounded == cpConfig.maxUsers > 0 => Cardinality(cpUsers) <= cpConfig.maxUsers
=============================================================================
