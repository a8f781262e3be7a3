----------------------------- MODULE LoopyTimer ------------------------------
(***************************************************************************)
(* loopyTimer.c: one-shot and periodic timer handles over the library's    *)
(* timer wheel, of which only this is used: a registered timer may be      *)
(* called, one that is unregistered is not called any more, and a callback *)
(* that returns true stays registered.  Callbacks create and cancel        *)
(* timers, their own and others that are due at the same time.  What       *)
(* follows a use of freed memory is not modelled.                          *)
(***************************************************************************)
EXTENDS Integers, FiniteSets

CONSTANT TmTimers
NoTimer == "none"

ASSUME TmAssumption == NoTimer \notin TmTimers

VARIABLES
  tmState,        (* "none", "allocated" or "freed"                          *)
  tmPeriodic, tmActive,
  tmWheel,        (* timers the wheel knows                                  *)
  tmRun,          (* timer with inCallback, if any                           *)
  tmFrees,        (* history: how often each was freed                       *)
  tmStale         (* history: a timer was cancelled after it was freed       *)

tmVars == <<tmState, tmPeriodic, tmActive, tmWheel, tmRun, tmFrees, tmStale>>

TmInit ==
  /\ tmState = [t \in TmTimers |-> "none"]
  /\ tmPeriodic = {} /\ tmActive = {} /\ tmWheel = {}
  /\ tmRun = NoTimer
  /\ tmFrees = [t \in TmTimers |-> 0] /\ tmStale = FALSE

\* zfree(timer)
FreeTimer(t) ==
  /\ tmState' = [tmState EXCEPT ![t] = "freed"]
  /\ tmFrees' = [tmFrees EXCEPT ![t] = @ + 1]

\* createTimer; one that the wheel does not take is freed again and not seen.
CreateTimer(t, periodic) ==
  /\ ~tmStale /\ tmState[t] = "none"
  /\ tmState' = [tmState EXCEPT ![t] = "allocated"]
  /\ tmPeriodic' = IF periodic THEN tmPeriodic \cup {t} ELSE tmPeriodic
  /\ tmActive' = tmActive \cup {t}
  /\ tmWheel' = tmWheel \cup {t}
  /\ UNCHANGED <<tmRun, tmFrees, tmStale>>

\* timerWheelCallbackWrapper up to the client's callback,
TimerFires(t) ==
  /\ ~tmStale /\ tmRun = NoTimer
  /\ t \in tmWheel
  /\ IF t \in tmActive
     THEN tmRun' = t /\ UNCHANGED tmWheel
     ELSE tmWheel' = tmWheel \ {t} /\ UNCHANGED tmRun
  /\ UNCHANGED <<tmState, tmPeriodic, tmActive, tmFrees, tmStale>>

\* and from there: a timer that was cancelled meanwhile is freed now, as is a
\* one-shot timer; a periodic one goes on.
TimerReturns ==
  /\ ~tmStale /\ tmRun # NoTimer
  /\ IF tmRun \in tmActive /\ tmRun \in tmPeriodic
     THEN UNCHANGED <<tmState, tmActive, tmWheel, tmFrees>>
     ELSE /\ tmActive' = tmActive \ {tmRun}
          /\ tmWheel' = tmWheel \ {tmRun}
          /\ FreeTimer(tmRun)
  /\ tmRun' = NoTimer
  /\ UNCHANGED <<tmPeriodic, tmStale>>

\* Mutant: the timer is freed in its own callback too.
TimerCancelFrees(t) ==
  /\ ~tmStale /\ tmState[t] = "allocated"
  /\ tmActive' = tmActive \ {t}
  /\ tmWheel' = IF t \in tmActive THEN tmWheel \ {t} ELSE tmWheel
  /\ FreeTimer(t)
  /\ UNCHANGED <<tmPeriodic, tmRun, tmStale>>

\* loopyTimerCancel.
TimerCancel(t) ==
  /\ ~tmStale /\ tmState[t] = "allocated"
  /\ tmActive' = tmActive \ {t}
  /\ tmWheel' = IF t \in tmActive THEN tmWheel \ {t} ELSE tmWheel
  /\ IF tmRun = t THEN UNCHANGED <<tmState, tmFrees>> ELSE FreeTimer(t)
  /\ UNCHANGED <<tmPeriodic, tmRun, tmStale>>

\* It is called with a timer that has been freed; as a rule the memory still
\* says that the timer is not active and not in its callback.
TimerCancelFreed(t) ==
  /\ ~tmStale /\ tmState[t] = "freed"
  /\ FreeTimer(t)
  /\ tmStale' = TRUE
  /\ UNCHANGED <<tmPeriodic, tmActive, tmWheel, tmRun>>

TmNext ==
  \/ \E t \in TmTimers :
       \/ \E periodic \in BOOLEAN : CreateTimer(t, periodic)
       \/ TimerFires(t) \/ TimerCancel(t) \/ TimerCancelFreed(t)
  \/ TimerReturns

TmSpec == TmInit /\ [][TmNext]_tmVars

-----------------------------------------------------------------------------
(* Properties                                                               *)

\* Until a client cancels a timer that has been freed, every timer is freed at
\* most once, and not while the wheel can call it or its callback runs, however
\* it is cancelled from its own callback and from those of others; and none is
\* left that nobody will free (loopyTimerCancel, timerWheelCallbackWrapper).
TimerFreedOnce ==
  ~tmStale =>
    /\ \A t \in TmTimers : tmFrees[t] <= 1
    /\ \A t \in tmWheel : tmState[t] = "allocated" /\ t \in tmActive
    /\ tmRun # NoTimer => tmState[tmRun] = "allocated"
    /\ \A t \in TmTimers : tmState[t] = "allocated" => t \in tmActive \/ t = tmRun

\* "Timer to cancel (may be NULL, already-cancelled, or freed)", "This function
\* is idempotent" (loopyTimer.h, loopyTimerCancel).  It does not hold: a second
\* cancel, or one after a one-shot timer has run, reads and frees freed memory.
CancelIdempotent == ~tmStale
=============================================================================
