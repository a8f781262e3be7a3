------------------------------ MODULE LoopyIdle ------------------------------
(***************************************************************************)
(* loopyIdle.c: idle, prepare and check handles.  One manager per loop     *)
(* keeps a list of each kind, hooks the loop's before- and after-sleep     *)
(* callbacks while it exists, and registers a timer while an idle handle   *)
(* is active, so that the loop does not block.  The callbacks may start,   *)
(* stop, restart and free handles, any of them; the code carries pointers  *)
(* over each call, and where it follows one to freed memory the program is *)
(* at fault and its behaviour ends here.                                   *)
(***************************************************************************)
EXTENDS Integers, Sequences, SequencesExt, FiniteSets

CONSTANTS
  IdHandles,
  IdKind          (* IdKind[h] is "idle", "prepare" or "check"               *)

IdKinds == {"idle", "prepare", "check"}
NoHandle == "none"

ASSUME IdAssumption == IdKind \in [IdHandles -> IdKinds] /\ NoHandle \notin IdHandles

VARIABLES
  idMgr,          (* the loop has a manager, whose callbacks it calls        *)
  idList,         (* idleList, prepareList and checkList                     *)
  idActive,       (* handles with active set                                 *)
  idCount,        (* idleActiveCount, prepareActiveCount, checkActiveCount   *)
  idTimer,        (* idleTimerActive                                         *)
  idRefused,      (* history: the timer's last registration failed           *)
  idVacant,       (* history: the last start had no memory for its handle    *)
  idPhase,        (* the list being walked, or "work", "poll" or "fault"     *)
  idNext,         (* `next` of the walk                                      *)
  idRun,          (* the handle whose callback is running                    *)
  idDangling      (* what the walk points to that was freed under it: the
                     handle that runs ("own"), `next`, the manager           *)

idTimerVars == <<idTimer, idRefused>>
idKept == <<idMgr, idList, idActive, idCount, idTimerVars, idVacant>>
idWalk == <<idPhase, idNext, idRun>>
idVars == <<idKept, idWalk, idDangling>>

IdInit ==
  /\ idMgr = FALSE
  /\ idList = [k \in IdKinds |-> << >>]
  /\ idActive = {}
  /\ idCount = [k \in IdKinds |-> 0]
  /\ idTimer = FALSE /\ idRefused = FALSE /\ idVacant = FALSE
  /\ idPhase = "work" /\ idNext = NoHandle /\ idRun = NoHandle /\ idDangling = {}

Exists(h) == h \in Range(idList[IdKind[h]])
\* Client code runs between two polls or in a callback.
MayCall == idPhase = "work" \/ idRun # NoHandle
First(k) == IF idList[k] = << >> THEN NoHandle ELSE Head(idList[k])
After(h) ==
  LET l == idList[IdKind[h]]
      i == CHOOSE j \in DOMAIN l : l[j] = h IN
  IF i = Len(l) THEN NoHandle ELSE l[i + 1]

\* idleUpdateTimer, which the three changes of the idle count end with.
UpdateTimer(wanted) ==
  IF wanted /\ ~idTimer
  THEN \E ok \in BOOLEAN : idTimer' = ok /\ idRefused' = ~ok
  ELSE idTimer' = wanted /\ UNCHANGED idRefused
CountBy(h, n) ==
  /\ idCount' = [idCount EXCEPT ![IdKind[h]] = @ + n]
  /\ IF IdKind[h] = "idle" THEN UpdateTimer(idCount["idle"] + n > 0) ELSE UNCHANGED idTimerVars

\* loopyIdleStart, loopyPrepareStart, loopyCheckStart.
HandleStart(h) ==
  /\ MayCall /\ ~Exists(h)
  /\ idMgr' = TRUE
  /\ idList' = [idList EXCEPT ![IdKind[h]] = <<h>> \o @]
  /\ idActive' = idActive \cup {h}
  /\ CountBy(h, 1)
  /\ idVacant' = FALSE
  /\ UNCHANGED <<idWalk, idDangling>>

\* There is memory for the manager and not for the handle.
HandleStartFails ==
  /\ MayCall
  /\ idMgr' = TRUE /\ idVacant' = TRUE
  /\ UNCHANGED <<idList, idActive, idCount, idTimerVars, idWalk, idDangling>>

Stopped(h) ==
  IF h \in idActive
  THEN idActive' = idActive \ {h} /\ CountBy(h, -1)
  ELSE UNCHANGED <<idActive, idCount, idTimerVars>>
HandleStop(h) ==
  /\ MayCall /\ Exists(h)
  /\ Stopped(h)
  /\ UNCHANGED <<idMgr, idList, idVacant, idWalk, idDangling>>

HandleRestart(h) ==
  /\ MayCall /\ Exists(h) /\ h \notin idActive
  /\ idActive' = idActive \cup {h}
  /\ CountBy(h, 1)
  /\ UNCHANGED <<idMgr, idList, idVacant, idWalk, idDangling>>

\* loopyIdleFree and its two likes: stop, unlink, and the manager goes with
\* the last handle of all, under the feet of a walk.
Handles == UNION {Range(idList[k]) : k \in IdKinds}
HandleFree(h) ==
  /\ MayCall /\ Exists(h)
  /\ Stopped(h)
  /\ idList' = [idList EXCEPT ![IdKind[h]] = RemoveFirst(@, h)]
  /\ idMgr' = (Handles # {h})
  /\ idDangling' = idDangling \cup {p \in {"own", "next", "mgr"} :
                                      \/ p = "own" /\ h = idRun
                                      \/ p = "next" /\ h = idNext
                                      \/ p = "mgr" /\ Handles = {h} /\ idRun # NoHandle}
  /\ UNCHANGED <<idVacant, idWalk>>

\* The loop is about to sleep: prepare handles, then idle handles.
WalkList(k) == idPhase' = k /\ idNext' = First(k)
BeforeSleep ==
  /\ idPhase = "work"
  /\ IF idMgr THEN WalkList("prepare") ELSE idPhase' = "poll" /\ UNCHANGED idNext
  /\ UNCHANGED <<idKept, idRun, idDangling>>

\* It woke up: check handles.
AfterSleep ==
  /\ idPhase = "poll"
  /\ IF idMgr THEN WalkList("check") ELSE idPhase' = "work" /\ UNCHANGED idNext
  /\ UNCHANGED <<idKept, idRun, idDangling>>

\* One turn of a walk: `next` is remembered and an active handle is called.
WalkStep ==
  /\ idRun = NoHandle /\ idNext # NoHandle /\ "next" \notin idDangling
  /\ idNext' = After(idNext)
  /\ idRun' = IF idNext \in idActive THEN idNext ELSE NoHandle
  /\ UNCHANGED <<idKept, idPhase, idDangling>>

\* The callback returns; an idle callback may ask to be stopped.
CallbackReturn(again) ==
  /\ idRun # NoHandle
  /\ IF IdKind[idRun] = "idle" /\ ~again
     THEN "own" \notin idDangling /\ Stopped(idRun)
     ELSE UNCHANGED <<idActive, idCount, idTimerVars>>
  /\ idRun' = NoHandle
  /\ idDangling' = idDangling \ {"own"}
  /\ UNCHANGED <<idMgr, idList, idVacant, idPhase, idNext>>

\* The end of a list; the manager has the next list, or the chained callback.
WalkEnd ==
  /\ idRun = NoHandle /\ idNext = NoHandle /\ "mgr" \notin idDangling
  /\ \/ idPhase = "prepare" /\ WalkList("idle")
     \/ idPhase = "idle" /\ idPhase' = "poll" /\ UNCHANGED idNext
     \/ idPhase = "check" /\ idPhase' = "work" /\ UNCHANGED idNext
  /\ UNCHANGED <<idKept, idRun, idDangling>>

\* In the place of one of these three the walk follows a pointer to freed
\* memory: of the handle it goes on with or wants to stop, or the manager.
UseFreed ==
  /\ \/ idRun = NoHandle /\ idNext # NoHandle /\ "next" \in idDangling
     \/ idRun # NoHandle /\ IdKind[idRun] = "idle" /\ "own" \in idDangling
     \/ idRun = NoHandle /\ idNext = NoHandle /\ "mgr" \in idDangling
  /\ idPhase' = "fault" /\ idNext' = NoHandle /\ idRun' = NoHandle
  /\ idDangling' = {}
  /\ UNCHANGED idKept

IdNext ==
  \/ \E h \in IdHandles : HandleStart(h) \/ HandleStop(h) \/ HandleRestart(h) \/ HandleFree(h)
  \/ HandleStartFails \/ BeforeSleep \/ AfterSleep \/ WalkStep \/ WalkEnd \/ UseFreed
  \/ \E again \in BOOLEAN : CallbackReturn(again)

IdSpec == IdInit /\ [][IdNext]_idVars

-----------------------------------------------------------------------------
(* Properties                                                               *)

\* The loop does not block beside an active idle handle unless the wake-up
\* timer could not be registered when last tried, and never spins without one;
\* the manager stands while there are handles, and longer only if there was no
\* memory for one; and a walk is over a live manager towards a live handle,
\* whatever callbacks start, stop, restart and free, unless they free the
\* handle that follows or the last one.
IdleExact ==
  /\ idTimer => \E h \in idActive : IdKind[h] = "idle"
  /\ (\E h \in idActive : IdKind[h] = "idle") => idTimer \/ idRefused
  /\ Handles # {} => idMgr
  /\ idMgr => Handles # {} \/ idVacant
  /\ idPhase \in IdKinds =>
       /\ idMgr \/ "mgr" \in idDangling
       /\ idNext = NoHandle \/ idNext \in Range(idList[idPhase]) \/ "next" \in idDangling
  /\ \A k \in IdKinds : idCount[k] = Cardinality({h \in idActive : IdKind[h] = k})

\* A callback may free any handle: loopyIdle.h names no exception.  It does not
\* hold: the walks of loopyIdle.c follow the next handle, the handle that asks
\* to be stopped and the manager after the call that freed it.
WalkSafe == idPhase # "fault"

\* "While any idle handle is active, the event loop will poll with a zero
\* timeout" (loopyIdle.h).  It does not hold: a failed registration of the timer is not
\* reported, and not tried again before the count changes.
PollsAtOnce == (\E h \in idActive : IdKind[h] = "idle") => idTimer
=============================================================================
