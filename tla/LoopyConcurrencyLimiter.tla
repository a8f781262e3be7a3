----------------------- MODULE LoopyConcurrencyLimiter -----------------------
(***************************************************************************)
(* The concurrency limiter of loopyRateLimit.c: a counter that a fast path *)
(* takes with compare-and-swap and a blocking slow path takes under the    *)
(* mutex, with a condition variable for those who wait.  A compare-and-    *)
(* swap loop is one step and so is a critical section.  Only threads that  *)
(* hold a slot release one.                                                *)
(***************************************************************************)
EXTENDS Integers, FiniteSets

CONSTANTS
  ClThreads,
  MaxConcurrent   (* config.maxConcurrent                                    *)

ASSUME ClAssumption == MaxConcurrent \in Nat \ {0} /\ IsFiniteSet(ClThreads)

VARIABLES
  clCurrent,      (* limiter->current                                        *)
  clPc,           (* where each thread is                                    *)
  clTimed         (* threads whose call has a timeout                        *)

clVars == <<clCurrent, clPc, clTimed>>

ClInit ==
  /\ clCurrent = 0
  /\ clPc = [t \in ClThreads |-> "idle"]
  /\ clTimed = {}

ClAt(t, p) == clPc[t] = p
ClGoto(t, p) == clPc' = [clPc EXCEPT ![t] = p]
MutexFree == \A t \in ClThreads : ~ClAt(t, "take")

\* loopyConcurrencyTryAcquire, which loopyConcurrencyAcquireAsync calls too.
TryAcquire(t) ==
  /\ ClAt(t, "idle")
  /\ clCurrent < MaxConcurrent
  /\ clCurrent' = clCurrent + 1
  /\ ClGoto(t, "holds")
  /\ UNCHANGED clTimed

\* loopyConcurrencyAcquire when the fast path found no slot.
AcquireSlow(t, timed) ==
  /\ ClAt(t, "idle")
  /\ clCurrent >= MaxConcurrent
  /\ ClGoto(t, "lock")
  /\ clTimed' = IF timed THEN clTimed \cup {t} ELSE clTimed \ {t}
  /\ UNCHANGED clCurrent

\* Under the mutex: the counter is full, and the thread waits,
MustWait(t) ==
  /\ ClAt(t, "lock") /\ MutexFree
  /\ clCurrent >= MaxConcurrent
  /\ ClGoto(t, "waiting")
  /\ UNCHANGED <<clCurrent, clTimed>>

\* or it was not full when the thread looked,
SawRoom(t) ==
  /\ ClAt(t, "lock")
  /\ MutexFree
  /\ clCurrent < MaxConcurrent
  /\ ClGoto(t, "take")
  /\ UNCHANGED <<clCurrent, clTimed>>

\* and the thread counts itself, with the mutex but without looking again.
CountSelf(t) ==
  /\ ClAt(t, "take")
  /\ clCurrent' = clCurrent + 1
  /\ ClGoto(t, "holds")
  /\ UNCHANGED clTimed

\* The deadline passes while the thread waits, or before it does.
ClTimeout(t) ==
  /\ t \in clTimed
  /\ MutexFree
  /\ ClAt(t, "waiting") \/ (ClAt(t, "lock") /\ clCurrent >= MaxConcurrent)
  /\ ClGoto(t, "idle")
  /\ UNCHANGED <<clCurrent, clTimed>>

\* pthread_cond_wait may return for no reason.
ClSpurious(t) ==
  /\ ClAt(t, "waiting")
  /\ ClGoto(t, "lock")
  /\ UNCHANGED <<clCurrent, clTimed>>

\* loopyConcurrencyRelease: the counter first,
ClRelease(t) ==
  /\ ClAt(t, "holds")
  /\ clCurrent' = clCurrent - 1
  /\ ClGoto(t, "signal")
  /\ UNCHANGED clTimed

\* then a signal under the mutex.
ClSignal(t) ==
  /\ ClAt(t, "signal")
  /\ MutexFree
  /\ IF \E w \in ClThreads : ClAt(w, "waiting")
     THEN \E w \in ClThreads : /\ ClAt(w, "waiting")
                               /\ clPc' = [clPc EXCEPT ![t] = "idle", ![w] = "lock"]
     ELSE ClGoto(t, "idle")
  /\ UNCHANGED <<clCurrent, clTimed>>

ClNext ==
  \E t \in ClThreads :
    \/ TryAcquire(t)
    \/ \E timed \in BOOLEAN : AcquireSlow(t, timed)
    \/ MustWait(t) \/ SawRoom(t) \/ CountSelf(t) \/ ClTimeout(t) \/ ClSpurious(t)
    \/ ClRelease(t) \/ ClSignal(t)

ClSpec == ClInit /\ [][ClNext]_clVars

-----------------------------------------------------------------------------
(* Properties                                                               *)

\* Nobody sleeps beside a free slot: while a thread waits and the counter is
\* below the maximum, a signal is on its way or a woken thread is about to look.
NoStrandedWaiter ==
  (clCurrent < MaxConcurrent /\ \E t \in ClThreads : ClAt(t, "waiting"))
     => \E t \in ClThreads : clPc[t] \in {"signal", "lock", "take"}

\* "Maximum concurrent operations" (loopyRateLimit.h, maxConcurrent).  It does not
\* hold: the slow path counts itself without looking again, and the fast path does
\* not take the mutex.
ConcurrencyKept == clCurrent <= MaxConcurrent
=============================================================================
