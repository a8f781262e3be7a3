------------------------- MODULE LoopyHandlesProofs -------------------------
(***************************************************************************)
(* Proofs about handles that belong to a loop's thread: timers, signals,   *)
(* idle handles, child processes, watched and polled files, file locks,    *)
(* streams, UDP sockets, pipes and the max-heap, for any number of them    *)
(* and of steps.                                                           *)
(***************************************************************************)
EXTENDS LoopyHandles, LoopyLemmas

-----------------------------------------------------------------------------
(* Timers                                                                   *)

TmTypeOK ==
  /\ tmState \in [TmTimers -> {"none", "allocated", "freed"}]
  /\ tmActive \subseteq TmTimers /\ tmWheel \subseteq TmTimers
  /\ tmRun \in TmTimers \cup {NoTimer}
  /\ tmFrees \in [TmTimers -> Nat] /\ tmStale \in BOOLEAN

\* TimerFreedOnce is inductive with the types and with this: what has not been
\* freed has no free counted.
TmInv ==
  /\ TmTypeOK
  /\ TimerFreedOnce
  /\ \A t \in TmTimers : tmState[t] # "freed" => tmFrees[t] = 0

\* Every call and every callback of loopyTimer.c keeps the invariant.
LEMMA TmStep ==
  ASSUME TmInv, [TmNext]_tmVars
  PROVE  TmInv'
<1> USE TmAssumption DEF TmInv, TmTypeOK, TimerFreedOnce
<1>1. ASSUME NEW t \in TmTimers, NEW periodic \in BOOLEAN, CreateTimer(t, periodic)
      PROVE  TmInv'
  BY <1>1 DEF CreateTimer
<1>2. ASSUME NEW t \in TmTimers, TimerFires(t)
      PROVE  TmInv'
  BY <1>2 DEF TimerFires
<1>3. ASSUME NEW t \in TmTimers, TimerCancel(t)
      PROVE  TmInv'
  <2>1. CASE tmRun = t
    BY <1>3, <2>1 DEF TimerCancel
  <2>2. CASE tmRun # t
    BY <1>3, <2>2 DEF TimerCancel, FreeTimer
  <2> QED  BY <2>1, <2>2
<1>4. CASE TimerReturns
  BY <1>4 DEF TimerReturns, FreeTimer
<1>5. CASE UNCHANGED tmVars
  BY <1>5 DEF tmVars
<1>6. ASSUME NEW t \in TmTimers, TimerCancelFreed(t)
      PROVE  TmInv'
  BY <1>6 DEF TimerCancelFreed, FreeTimer
<1> QED  BY <1>1, <1>2, <1>3, <1>4, <1>5, <1>6 DEF TmNext

\* Timers are freed once, and neither the wheel nor a running callback holds a
\* freed one, for any number of timers cancelled from any callback, as long as
\* no freed timer is cancelled (loopyTimerCancel, timerWheelCallbackWrapper).
THEOREM TimersFreedOnce == TmSpec => []TimerFreedOnce
<1>1. TmInit => TmInv
  <2>1. TmInit => tmStale \in BOOLEAN
    BY DEF TmInit
  <2> QED  BY <2>1, TmAssumption DEF TmInit, TmInv, TmTypeOK, TimerFreedOnce
<1>2. TmInv /\ [TmNext]_tmVars => TmInv'
  BY TmStep
<1>3. TmInv => TimerFreedOnce
  BY DEF TmInv
<1> QED  BY <1>1, <1>2, <1>3, PTL DEF TmSpec

-----------------------------------------------------------------------------
(* Signals                                                                  *)

SgTypeOK ==
  /\ sgReg \in [SgSignals -> {"no", "oneshot", "always"}]
  /\ sgMask \subseteq SgSignals
  /\ sgRun \in SgSignals \cup {NoSignal}
  /\ sgOneshot \in BOOLEAN
  /\ sgCalls \in [SgSignals -> Nat]

\* SignalsExact needs to know that the flag saved before a callback is still
\* right for a one-shot registration that has had its call.
SgInv ==
  /\ SgTypeOK
  /\ SignalsExact
  /\ \A s \in SgSignals : sgReg[s] = "oneshot" /\ sgCalls[s] = 1 => sgOneshot

\* Every call, arrival and callback of loopySignal.c keeps the invariant.
LEMMA SgStep == SgInv /\ [SgNext]_sgVars => SgInv'
<1> SUFFICES ASSUME SgInv, [SgNext]_sgVars
             PROVE  SgInv'
  OBVIOUS
<1> USE SgAssumption DEF SgInv, SgTypeOK, SignalsExact, Registered
<1>1. ASSUME NEW s \in SgSignals, NEW kind \in {"oneshot", "always"}, SignalRegister(s, kind)
      PROVE  SgInv'
  BY <1>1 DEF SignalRegister
<1>2. ASSUME NEW s \in SgSignals, NEW arrived \in BOOLEAN, SignalRegisterFails(s, arrived)
      PROVE  SgInv'
  BY <1>2 DEF SignalRegisterFails
<1>3. ASSUME NEW s \in SgSignals, SignalUnregister(s)
      PROVE  SgInv'
  BY <1>3 DEF SignalUnregister, Unregistered
<1>4. ASSUME NEW s \in SgSignals, SignalRead(s)
      PROVE  SgInv'
  <2>1. Registered(s) /\ sgRun = NoSignal
    BY <1>4 DEF SignalRead
  <2>2. sgRun' = s /\ sgCalls' = [sgCalls EXCEPT ![s] = IF @ < 2 THEN @ + 1 ELSE @]
    BY <1>4, <2>1 DEF SignalRead
  <2>3. sgOneshot' \in BOOLEAN /\ (sgOneshot' <=> sgReg[s] = "oneshot")
    <3>1. sgOneshot' = (sgReg[s] = "oneshot")
      BY <1>4, <2>1 DEF SignalRead
    <3> QED  BY <3>1, Zenon
  <2>4. /\ sgReg' = sgReg /\ sgMask' = sgMask /\ sgBlocked' = sgBlocked
        /\ sgPending' \subseteq sgPending
    BY <1>4 DEF SignalRead
  <2>5. \A u \in SgSignals : sgReg[u] = "oneshot" => sgCalls[u] = 0
    BY <2>1
  <2>6. \A u \in SgSignals : u # s => sgCalls'[u] = sgCalls[u]
    BY <2>2
  <2>7. sgReg[s] = "oneshot" => sgCalls'[s] = 1
    BY <2>2, <2>5
  <2>8. sgCalls' \in [SgSignals -> Nat]
    BY <2>2
  <2> QED  BY <2>2, <2>3, <2>4, <2>5, <2>6, <2>7, <2>8
<1>5. ASSUME NEW s \in SgSignals, Raise(s)
      PROVE  SgInv'
  BY <1>5 DEF Raise
<1>6. CASE SignalReturn
  <2>1. CASE sgOneshot /\ Registered(sgRun)
    BY <1>6, <2>1 DEF SignalReturn, Unregistered
  <2>2. CASE ~(sgOneshot /\ Registered(sgRun))
    BY <1>6, <2>2 DEF SignalReturn
  <2> QED  BY <2>1, <2>2
<1>7. CASE SignalFree
  BY <1>7 DEF SignalFree
<1>8. CASE UNCHANGED sgVars
  BY <1>8 DEF sgVars
<1> QED  BY <1>1, <1>2, <1>3, <1>4, <1>5, <1>6, <1>7, <1>8 DEF SgNext

-----------------------------------------------------------------------------
(* Idle, prepare and check handles                                          *)

ActiveOf(k) == {h \in idActive : IdKind[h] = k}

IdTypeOK ==
  /\ idMgr \in BOOLEAN
  /\ idList \in [IdKinds -> Seq(IdHandles)]
  /\ idActive \subseteq IdHandles /\ IsFiniteSet(idActive)
  /\ idRefused \in BOOLEAN /\ idVacant \in BOOLEAN
  /\ idPhase \in IdKinds \cup {"work", "poll", "fault"}
  /\ idNext \in IdHandles \cup {NoHandle} /\ idRun \in IdHandles \cup {NoHandle}
  /\ idDangling \subseteq {"own", "next", "mgr"}

\* The counters and the wake-up timer follow the active handles.
IdCountInv ==
  /\ idCount \in [IdKinds -> Int]
  /\ \A k \in IdKinds : idCount[k] = Cardinality(ActiveOf(k))
  /\ idTimer \in BOOLEAN
  /\ idTimer => ActiveOf("idle") # {}
  /\ ActiveOf("idle") # {} => idTimer \/ idRefused

\* Handles are in the list of their kind, once, and an active one is in a list.
IdListInv ==
  /\ \A k \in IdKinds : IsInjective(idList[k]) /\ \A h \in Range(idList[k]) : IdKind[h] = k
  /\ \A h \in idActive : Exists(h)
  /\ (\E k \in IdKinds : idList[k] # << >>) => idMgr
  /\ idMgr => idVacant \/ \E k \in IdKinds : idList[k] # << >>

\* A walk goes towards a listed handle of its kind unless that was freed; the
\* handle that runs is listed unless it was freed; nothing runs, and nothing is
\* held, outside a walk.
IdWalkInv ==
  /\ idPhase \in IdKinds =>
       /\ idMgr \/ "mgr" \in idDangling
       /\ idNext = NoHandle \/ idNext \in Range(idList[idPhase]) \/ "next" \in idDangling
  /\ idPhase \notin IdKinds => idNext = NoHandle /\ idRun = NoHandle /\ idDangling = {}
  /\ "own" \in idDangling => idRun # NoHandle
  /\ "next" \in idDangling => idNext # NoHandle

IdInv == IdTypeOK /\ IdCountInv /\ IdListInv /\ IdWalkInv

\* Starting and stopping a handle changes the counter of its kind by one.
LEMMA CountByStep ==
  ASSUME IdTypeOK, IdCountInv, NEW h \in IdHandles,
         \/ h \notin idActive /\ idActive' = idActive \cup {h} /\ CountBy(h, 1)
         \/ h \in idActive /\ idActive' = idActive \ {h} /\ CountBy(h, -1)
  PROVE  IdCountInv' /\ IsFiniteSet(idActive') /\ idRefused' \in BOOLEAN
<1> DEFINE k == IdKind[h]
<1>1. k \in IdKinds
  BY IdAssumption
<1>2. \A j \in IdKinds : IsFiniteSet(ActiveOf(j)) /\ Cardinality(ActiveOf(j)) \in Nat
  BY FS_Subset, FS_CardinalityType DEF ActiveOf, IdTypeOK
<1>3. \A j \in IdKinds \ {k} : ActiveOf(j)' = ActiveOf(j)
  BY DEF ActiveOf
<1>4. IsFiniteSet(idActive')
  BY FS_AddElement, FS_RemoveElement DEF IdTypeOK
<1>5. idCount' \in [IdKinds -> Int] /\ idCount'[k] = Cardinality(ActiveOf(k)')
  <2>1. CASE h \notin idActive /\ idActive' = idActive \cup {h} /\ CountBy(h, 1)
    <3>1. ActiveOf(k)' = ActiveOf(k) \cup {h} /\ h \notin ActiveOf(k)
      BY <2>1 DEF ActiveOf
    <3>2. Cardinality(ActiveOf(k)') = Cardinality(ActiveOf(k)) + 1
      BY <1>1, <1>2, <3>1, FS_AddElement
    <3> QED  BY <1>1, <2>1, <3>2 DEF CountBy, IdCountInv
  <2>2. CASE h \in idActive /\ idActive' = idActive \ {h} /\ CountBy(h, -1)
    <3>1. ActiveOf(k)' = ActiveOf(k) \ {h} /\ h \in ActiveOf(k)
      BY <2>2 DEF ActiveOf
    <3>2. Cardinality(ActiveOf(k)') = Cardinality(ActiveOf(k)) - 1
      BY <1>1, <1>2, <3>1, FS_RemoveElement
    <3> QED  BY <1>1, <1>2, <2>2, <3>2 DEF CountBy, IdCountInv
  <2> QED  BY <2>1, <2>2
<1>6. \A j \in IdKinds : idCount'[j] = Cardinality(ActiveOf(j)')
  BY <1>1, <1>3, <1>5 DEF CountBy, IdCountInv
<1>7. /\ idTimer' \in BOOLEAN /\ idRefused' \in BOOLEAN
      /\ idTimer' => ActiveOf("idle")' # {}
      /\ ActiveOf("idle")' # {} => idTimer' \/ idRefused'
  <2>1. CASE k = "idle"
    <3>1. IsFiniteSet(ActiveOf(k)')
      BY <1>4, FS_Subset DEF ActiveOf
    <3>2. idCount'["idle"] > 0 <=> ActiveOf("idle")' # {}
      BY <1>5, <2>1, <3>1, FS_EmptySet, FS_CardinalityType
    <3>3. PICK n \in {1, -1} : CountBy(h, n)
      OBVIOUS
    <3> DEFINE wanted == idCount["idle"] + n > 0
    <3>4. UpdateTimer(wanted)
      BY <2>1, <3>3 DEF CountBy
    <3>5. wanted <=> ActiveOf("idle")' # {}
      <4>1. idCount'["idle"] = idCount["idle"] + n
        BY <1>1, <2>1, <3>3 DEF CountBy, IdCountInv
      <4> QED  BY <3>2, <4>1
    <3>6. wanted \in BOOLEAN /\ idTimer \in BOOLEAN /\ idRefused \in BOOLEAN
      BY DEF IdCountInv, IdTypeOK
    <3> HIDE DEF wanted
    <3>7. CASE wanted /\ ~idTimer
      <4>1. PICK ok \in BOOLEAN : idTimer' = ok /\ idRefused' = ~ok
        BY <3>4, <3>7 DEF UpdateTimer
      <4>2. idTimer' \in BOOLEAN /\ idRefused' \in BOOLEAN /\ (idTimer' \/ idRefused')
        BY <4>1, Zenon
      <4> QED  BY <3>5, <3>7, <4>2
    <3>8. CASE ~(wanted /\ ~idTimer)
      <4>1. idTimer' = wanted /\ idRefused' = idRefused
        BY <3>4, <3>8 DEF UpdateTimer
      <4>2. idTimer' \in BOOLEAN /\ idRefused' \in BOOLEAN /\ (idTimer' <=> wanted)
        BY <3>6, <4>1, Zenon
      <4> QED  BY <3>5, <4>2
    <3> QED  BY <3>7, <3>8
  <2>2. CASE k # "idle"
    <3>1. idTimer' = idTimer /\ idRefused' = idRefused /\ ActiveOf("idle")' = ActiveOf("idle")
      BY <1>3, <2>2 DEF CountBy, IdKinds, idTimerVars
    <3> QED  BY <3>1 DEF IdCountInv, IdTypeOK
  <2> QED  BY <2>1, <2>2
<1> QED  BY <1>4, <1>5, <1>6, <1>7 DEF IdCountInv

\* The same of a stop, which does nothing to a handle that is not active.
LEMMA StoppedStep ==
  ASSUME IdTypeOK, IdCountInv, NEW h \in IdHandles, Stopped(h)
  PROVE  IdCountInv' /\ idActive' = idActive \ {h} /\ IsFiniteSet(idActive') /\ idRefused' \in BOOLEAN
<1>1. CASE h \in idActive
  BY <1>1, CountByStep DEF Stopped
<1>2. CASE h \notin idActive
  BY <1>2 DEF Stopped, IdTypeOK, IdCountInv, ActiveOf, idTimerVars
<1> QED  BY <1>1, <1>2

\* HandleFree: the handle leaves the list of its kind and nothing else does.
LEMMA ListAfterFree ==
  ASSUME IdTypeOK, IdListInv, NEW h \in IdHandles, Exists(h),
         idList' = [idList EXCEPT ![IdKind[h]] = RemoveFirst(@, h)]
  PROVE  /\ idList' \in [IdKinds -> Seq(IdHandles)]
         /\ \A k \in IdKinds : IsInjective(idList'[k]) /\ Range(idList'[k]) = Range(idList[k]) \ {h}
<1>1. IdKind[h] \in IdKinds
  BY IdAssumption
<1> DEFINE l == idList[IdKind[h]]
<1>2. /\ RemoveFirst(l, h) \in Seq(IdHandles) /\ IsInjective(RemoveFirst(l, h))
      /\ Range(RemoveFirst(l, h)) = Range(l) \ {h}
  BY <1>1, UnlinkOne DEF IdTypeOK, IdListInv, Exists
<1>3. \A k \in IdKinds : k # IdKind[h] => h \notin Range(idList[k])
  BY DEF IdListInv
<1> QED  BY <1>1, <1>2, <1>3 DEF IdTypeOK, IdListInv

\* There are handles exactly while some list is not empty.
LEMMA HandlesNone ==
  ASSUME IdTypeOK
  PROVE  /\ Handles = {} <=> \A k \in IdKinds : idList[k] = << >>
         /\ Handles \subseteq IdHandles
<1>1. \A k \in IdKinds : /\ Range(idList[k]) \subseteq IdHandles
                         /\ idList[k] = << >> <=> Range(idList[k]) = {}
  BY EmptyList DEF IdTypeOK
<1> QED  BY <1>1 DEF Handles

\* Steps that change neither lists nor activity.
LEMMA WalkKeeps ==
  ASSUME IdInv, UNCHANGED idKept
  PROVE  /\ IdCountInv' /\ IdListInv' /\ idMgr' = idMgr /\ idList' = idList
         /\ idRefused' \in BOOLEAN /\ idVacant' \in BOOLEAN /\ idMgr' \in BOOLEAN /\ idList' \in [IdKinds -> Seq(IdHandles)]
         /\ idActive' \subseteq IdHandles /\ IsFiniteSet(idActive')
BY DEF IdInv, IdTypeOK, IdCountInv, IdListInv, ActiveOf, Exists, idKept, idTimerVars

\* Where a walk starts and how it goes on: at listed handles of its kind.
LEMMA WalkPlaces ==
  ASSUME IdTypeOK, IdListInv, NEW k \in IdKinds
  PROVE  /\ First(k) = NoHandle \/ First(k) \in Range(idList[k])
         /\ \A h \in Range(idList[k]) : After(h) = NoHandle \/ After(h) \in Range(idList[k])
         /\ Range(idList[k]) \subseteq IdHandles
<1> DEFINE l == idList[k]
<1>1. l \in Seq(IdHandles) /\ Len(l) \in Nat /\ DOMAIN l = 1 .. Len(l)
  BY LenProperties DEF IdTypeOK
<1>2. l # << >> => Head(l) \in Range(l)
  BY <1>1, EmptySeq DEF Range
<1>3. ASSUME NEW h \in Range(l)
      PROVE  After(h) = NoHandle \/ After(h) \in Range(l)
  <2>1. IdKind[h] = k
    BY <1>3 DEF IdListInv
  <2> DEFINE i == CHOOSE j \in DOMAIN l : l[j] = h
  <2>2. i \in DOMAIN l
    BY <1>3 DEF Range
  <2>3. i = Len(l) \/ i + 1 \in DOMAIN l
    BY <1>1, <2>2
  <2> QED  BY <2>1, <2>3 DEF After, Range
<1> QED  BY <1>1, <1>2, <1>3, EmptyList DEF First

\* Every call and every turn of the two walks keeps the invariant.
LEMMA IdStep == IdInv /\ [IdNext]_idVars => IdInv'
<1> SUFFICES ASSUME IdInv, [IdNext]_idVars
             PROVE  IdInv'
  OBVIOUS
<1> USE IdAssumption DEF IdInv
<1>1. ASSUME NEW h \in IdHandles, HandleStart(h)
      PROVE  IdInv'
  <2> DEFINE k == IdKind[h]
  <2>1. k \in IdKinds /\ h \notin Range(idList[k]) /\ h \notin idActive
    BY <1>1 DEF HandleStart, IdListInv, Exists
  <2>2. IdCountInv' /\ IsFiniteSet(idActive') /\ idRefused' \in BOOLEAN
    BY <1>1, <2>1, CountByStep DEF HandleStart
  <2>3. /\ idList'[k] \in Seq(IdHandles) /\ IsInjective(idList'[k])
        /\ Range(idList'[k]) = Range(idList[k]) \cup {h} /\ idList'[k] # << >>
    <3>1. idList'[k] = <<h>> \o idList[k]
      BY <1>1, <2>1 DEF HandleStart, IdTypeOK
    <3>2. /\ idList'[k] \in Seq(IdHandles) /\ IsInjective(idList'[k])
          /\ Range(idList'[k]) = Range(idList[k]) \cup {h}
      BY <2>1, <3>1, LinkFirst DEF IdTypeOK, IdListInv
    <3> QED  BY <3>2, EmptyList
  <2>4. \A j \in IdKinds : j # k => idList'[j] = idList[j]
    BY <1>1 DEF HandleStart, IdTypeOK
  <2>5. IdTypeOK'
    BY <1>1, <2>1, <2>2, <2>3 DEF HandleStart, IdTypeOK, idWalk
  <2>6. IdListInv'
    BY <1>1, <2>1, <2>3, <2>4 DEF HandleStart, IdListInv, Exists
  <2>7. IdWalkInv'
    BY <1>1, <2>3, <2>4 DEF HandleStart, IdWalkInv, idWalk
  <2> QED  BY <2>2, <2>5, <2>6, <2>7
<1>2. ASSUME NEW h \in IdHandles, HandleStop(h)
      PROVE  IdInv'
  <2>1. IdCountInv' /\ idActive' = idActive \ {h} /\ IsFiniteSet(idActive') /\ idRefused' \in BOOLEAN
    BY <1>2, StoppedStep DEF HandleStop
  <2> QED  BY <1>2, <2>1 DEF HandleStop, IdTypeOK, IdListInv, IdWalkInv, Exists, idWalk
<1>3. ASSUME NEW h \in IdHandles, HandleRestart(h)
      PROVE  IdInv'
  <2>1. IdCountInv' /\ IsFiniteSet(idActive') /\ idRefused' \in BOOLEAN
    BY <1>3, CountByStep DEF HandleRestart
  <2> QED  BY <1>3, <2>1 DEF HandleRestart, IdTypeOK, IdListInv, IdWalkInv, Exists, idWalk
<1>4. ASSUME NEW h \in IdHandles, HandleFree(h)
      PROVE  IdInv'
  <2>1. IdCountInv' /\ idActive' = idActive \ {h} /\ IsFiniteSet(idActive') /\ idRefused' \in BOOLEAN
    BY <1>4, StoppedStep DEF HandleFree
  <2>2. /\ idList' \in [IdKinds -> Seq(IdHandles)]
        /\ \A k \in IdKinds : IsInjective(idList'[k]) /\ Range(idList'[k]) = Range(idList[k]) \ {h}
    BY <1>4, ListAfterFree DEF HandleFree
  <2>3. idMgr' \in BOOLEAN /\ (idMgr' <=> Handles # {h})
    <3>1. idMgr' = (Handles # {h})
      BY <1>4 DEF HandleFree
    <3> QED  BY <3>1, Zenon
  <2>4. Handles' = Handles \ {h} /\ h \in Handles
    BY <1>4, <2>2 DEF Handles, HandleFree, Exists
  <2>5. IdTypeOK'
    <3>1. idDangling' \subseteq {"own", "next", "mgr"}
      BY <1>4 DEF HandleFree, IdTypeOK
    <3> QED  BY <1>4, <2>1, <2>2, <2>3, <3>1 DEF HandleFree, IdTypeOK, idWalk
  <2>6. idMgr' <=> \E k \in IdKinds : idList'[k] # << >>
    <3>1. Handles' = {} <=> \A k \in IdKinds : idList'[k] = << >>
      <4>1. \A k \in IdKinds : idList'[k] = << >> <=> Range(idList'[k]) = {}
        BY <2>2, EmptyList
      <4>2. Handles' = UNION {Range(idList'[k]) : k \in IdKinds}
        BY DEF Handles
      <4> QED  BY <4>1, <4>2, ZenonT(60)
    <3> QED  BY <2>3, <2>4, <3>1
  <2>7. IdListInv'
    BY <1>4, <2>1, <2>2, <2>6 DEF HandleFree, IdListInv, Exists
  <2>8. IdWalkInv'
    <3>1. idPhase' = idPhase /\ idNext' = idNext /\ idRun' = idRun /\ idDangling \subseteq idDangling'
      BY <1>4 DEF HandleFree, idWalk
    <3>2. CASE idPhase \notin IdKinds
      <4>1. idRun = NoHandle /\ idNext = NoHandle /\ h # NoHandle /\ idDangling = {}
        BY <3>2 DEF IdWalkInv
      <4>2. idDangling' = {}
        BY <1>4, <4>1 DEF HandleFree
      <4> QED  BY <3>1, <3>2, <4>1, <4>2 DEF IdWalkInv
    <3>3. CASE idPhase \in IdKinds
      <4>1. idRun # NoHandle
        BY <1>4, <3>3 DEF HandleFree, MayCall, IdKinds
      <4>2. /\ h = idNext => "next" \in idDangling'
            /\ Handles = {h} => "mgr" \in idDangling'
            /\ "own" \in idDangling' => idRun # NoHandle
            /\ "next" \in idDangling' => idNext # NoHandle
        BY <1>4, <4>1 DEF HandleFree, IdWalkInv
      <4> QED  BY <2>2, <2>3, <3>1, <3>3, <4>2 DEF IdWalkInv
    <3> QED  BY <3>2, <3>3
  <2> QED  BY <2>1, <2>5, <2>7, <2>8
<1>5. CASE BeforeSleep
  <2>1. UNCHANGED idKept /\ idRun' = idRun /\ idDangling' = idDangling /\ idPhase \notin IdKinds
    BY <1>5 DEF BeforeSleep, IdKinds
  <2>2. CASE idMgr
    <3>1. idPhase' = "prepare" /\ idNext' = First("prepare")
      BY <1>5, <2>2 DEF BeforeSleep, WalkList
    <3> QED  BY <2>1, <2>2, <3>1, WalkKeeps, WalkPlaces DEF IdTypeOK, IdWalkInv, IdKinds
  <2>3. CASE ~idMgr
    BY <1>5, <2>1, <2>3, WalkKeeps DEF BeforeSleep, IdTypeOK, IdWalkInv, IdKinds
  <2> QED  BY <2>2, <2>3
<1>6. CASE AfterSleep
  <2>1. UNCHANGED idKept /\ idRun' = idRun /\ idDangling' = idDangling /\ idPhase \notin IdKinds
    BY <1>6 DEF AfterSleep, IdKinds
  <2>2. CASE idMgr
    <3>1. idPhase' = "check" /\ idNext' = First("check")
      BY <1>6, <2>2 DEF AfterSleep, WalkList
    <3> QED  BY <2>1, <2>2, <3>1, WalkKeeps, WalkPlaces DEF IdTypeOK, IdWalkInv, IdKinds
  <2>3. CASE ~idMgr
    BY <1>6, <2>1, <2>3, WalkKeeps DEF AfterSleep, IdTypeOK, IdWalkInv, IdKinds
  <2> QED  BY <2>2, <2>3
<1>7. CASE WalkStep
  <2>1. UNCHANGED idKept /\ idPhase' = idPhase /\ idDangling' = idDangling
    BY <1>7 DEF WalkStep
  <2>2. idPhase \in IdKinds /\ idNext \in Range(idList[idPhase])
    BY <1>7 DEF WalkStep, IdWalkInv
  <2>3. idNext' = NoHandle \/ idNext' \in Range(idList[idPhase])
    BY <1>7, <2>2, WalkPlaces DEF WalkStep
  <2>4. idRun' \in IdHandles \cup {NoHandle} /\ idNext' \in IdHandles \cup {NoHandle}
    BY <1>7, <2>2, <2>3, WalkPlaces DEF WalkStep, IdTypeOK
  <2>5. "next" \notin idDangling' /\ "own" \notin idDangling'
    BY <1>7, <2>1 DEF WalkStep, IdWalkInv
  <2>6. IdTypeOK'
    BY <2>1, <2>4, WalkKeeps DEF IdTypeOK
  <2>7. IdWalkInv'
    BY <2>1, <2>2, <2>3, <2>5, WalkKeeps DEF IdWalkInv
  <2> QED  BY <2>1, <2>6, <2>7, WalkKeeps
<1>8. CASE WalkEnd
  <2>1. UNCHANGED idKept /\ idRun' = NoHandle /\ idDangling' = idDangling /\ "mgr" \notin idDangling
    BY <1>8 DEF WalkEnd
  <2>2. CASE idPhase = "prepare"
    <3>1. idPhase' = "idle" /\ idNext' = First("idle") /\ idMgr
      BY <1>8, <2>1, <2>2 DEF WalkEnd, WalkList, IdWalkInv, IdKinds
    <3>2. "next" \notin idDangling' /\ "own" \notin idDangling'
      BY <1>8, <2>1 DEF WalkEnd, IdWalkInv
    <3> QED  BY <2>1, <3>1, <3>2, WalkKeeps, WalkPlaces DEF IdTypeOK, IdWalkInv, IdKinds
  <2>3. CASE idPhase # "prepare"
    <3>1. idPhase' \in {"poll", "work"} /\ idNext' = NoHandle
      BY <1>8, <2>3 DEF WalkEnd
    <3>2. idDangling = {}
      BY <1>8, <2>1 DEF WalkEnd, IdTypeOK, IdWalkInv
    <3> QED  BY <2>1, <3>1, <3>2, WalkKeeps DEF IdTypeOK, IdWalkInv, IdKinds
  <2> QED  BY <2>2, <2>3
<1>9. ASSUME NEW again \in BOOLEAN, CallbackReturn(again)
      PROVE  IdInv'
  <2>1. /\ idMgr' = idMgr /\ idList' = idList /\ idPhase' = idPhase /\ idNext' = idNext
        /\ idRun' = NoHandle /\ idRun \in IdHandles /\ idVacant' = idVacant
        /\ idDangling' = idDangling \ {"own"}
    BY <1>9 DEF CallbackReturn, IdTypeOK
  <2>2. IdCountInv' /\ idActive' \subseteq idActive /\ IsFiniteSet(idActive') /\ idRefused' \in BOOLEAN
    <3>1. CASE Stopped(idRun)
      BY <2>1, <3>1, StoppedStep
    <3>2. CASE UNCHANGED <<idActive, idCount, idTimerVars>>
      BY <3>2 DEF IdTypeOK, IdCountInv, ActiveOf, idTimerVars
    <3> QED  BY <1>9, <3>1, <3>2 DEF CallbackReturn
  <2> QED  BY <2>1, <2>2 DEF IdTypeOK, IdListInv, IdWalkInv, Exists
<1>10. CASE UNCHANGED idVars
  <2>1. UNCHANGED idKept /\ UNCHANGED idWalk /\ idDangling' = idDangling
    BY <1>10 DEF idVars, idWalk
  <2> QED  BY <2>1, WalkKeeps DEF IdTypeOK, IdWalkInv, idWalk
<1>11. CASE HandleStartFails
  BY <1>11 DEF HandleStartFails, IdTypeOK, IdCountInv, IdListInv, IdWalkInv, ActiveOf, Exists,
     idWalk, idTimerVars
<1>12. CASE UseFreed
  <2>1. UNCHANGED idKept /\ idPhase' = "fault" /\ idNext' = NoHandle /\ idRun' = NoHandle
        /\ idDangling' = {} /\ idPhase' \notin IdKinds
    BY <1>12 DEF UseFreed, IdKinds
  <2> QED  BY <2>1, WalkKeeps DEF IdTypeOK, IdWalkInv
<1> QED
  BY <1>1, <1>2, <1>3, <1>4, <1>5, <1>6, <1>7, <1>8, <1>9, <1>10, <1>11, <1>12 DEF IdNext

\* Timers are freed once and called only while they live, until a freed one is
\* cancelled; the loop blocks beside an active idle handle only if its timer
\* could not be registered, never spins without one, and walks over live handles
\* until a callback frees the next or the last of them; a registered signal is
\* blocked and read and a one-shot called once: for any number of handles and
\* any calls from their callbacks.
THEOREM CallbacksAreExact == TmSpec /\ IdSpec /\ SgSpec => []CallbacksExact
<1>1. SgInit => SgInv
  <2> SUFFICES ASSUME SgInit
               PROVE  SgInv
    OBVIOUS
  <2>1. sgOneshot \in BOOLEAN
    BY DEF SgInit
  <2>2. SgTypeOK
    BY <2>1 DEF SgInit, SgTypeOK
  <2>3. \A s \in SgSignals : sgReg[s] = "no"
    BY DEF SgInit
  <2> QED  BY <2>2, <2>3 DEF SgInit, SgInv, SignalsExact, Registered
<1>2. IdInit => IdInv
  <2> SUFFICES ASSUME IdInit
               PROVE  IdInv
    OBVIOUS
  <2>1. \A k \in IdKinds : ActiveOf(k) = {}
    BY DEF IdInit, ActiveOf
  <2>2. IdTypeOK
    <3>1. idMgr \in BOOLEAN /\ idRefused \in BOOLEAN /\ idVacant \in BOOLEAN
      BY DEF IdInit
    <3> QED  BY <3>1, FS_EmptySet DEF IdInit, IdTypeOK
  <2>3. IdCountInv
    <3>1. idTimer = FALSE /\ idTimer \in BOOLEAN
      BY DEF IdInit
    <3>2. "idle" \in IdKinds
      BY DEF IdKinds
    <3>3. ActiveOf("idle") = {}
      BY <2>1, <3>2
    <3>4. idCount \in [IdKinds -> Int] /\ \A k \in IdKinds : idCount[k] = Cardinality(ActiveOf(k))
      <4>1. \A k \in IdKinds : Cardinality(ActiveOf(k)) = 0
        BY <2>1, FS_EmptySet
      <4>2. idCount = [k \in IdKinds |-> 0]
        BY DEF IdInit
      <4> QED  BY <4>1, <4>2
    <3> QED  BY <3>1, <3>3, <3>4 DEF IdCountInv
  <2>4. IdListInv
    BY DEF IdInit, IdListInv, IsInjective, Range
  <2>5. IdWalkInv
    BY DEF IdInit, IdWalkInv, IdKinds
  <2> QED  BY <2>2, <2>3, <2>4, <2>5 DEF IdInv
<1>3. IdInv => IdleExact
  <2> SUFFICES ASSUME IdInv
               PROVE  IdleExact
    OBVIOUS
  <2>1. /\ idTimer => \E h \in idActive : IdKind[h] = "idle"
        /\ (\E h \in idActive : IdKind[h] = "idle") => idTimer \/ idRefused
    BY DEF IdInv, IdCountInv, ActiveOf
  <2>2. (Handles # {} => idMgr) /\ (idMgr => Handles # {} \/ idVacant)
    BY HandlesNone DEF IdInv, IdListInv
  <2>3. \A k \in IdKinds : idCount[k] = Cardinality({h \in idActive : IdKind[h] = k})
    BY DEF IdInv, IdCountInv, ActiveOf
  <2> QED  BY <2>1, <2>2, <2>3 DEF IdInv, IdWalkInv, IdleExact
<1>4. TimerFreedOnce /\ IdInv /\ SgInv => CallbacksExact
  BY <1>3 DEF SgInv, CallbacksExact
<1> QED
  BY <1>1, <1>2, <1>4, TimersFreedOnce, IdStep, SgStep, PTL DEF IdSpec, SgSpec

-----------------------------------------------------------------------------
(* Child processes                                                          *)

PrTypeOK ==
  /\ prState \in [PrProcs -> {"none", "owned", "freed"}]
  /\ prChild \in [PrProcs -> {"none", "runs", "zombie", "reaped"}]
  /\ prExits \in [PrProcs -> Nat] /\ prOrphaned \in BOOLEAN

\* What holds until there are orphans: one list of the processes that clients
\* own, with a manager, and the signal for the uncollected children among them.
PrListInv ==
  /\ prList \in Seq(PrProcs) /\ IsInjective(prList) /\ prStray = {}
  /\ prMgr \in BOOLEAN /\ prSigchld \in BOOLEAN /\ prReaping \in BOOLEAN
  /\ prList # << >> => prMgr
  /\ Range(prList) = {p \in PrProcs : prState[p] = "owned"}
  /\ \A p \in Range(prList) : prChild[p] = "zombie" => prSigchld \/ prReaping

\* ExitNotLost is not inductive: a process that was never spawned has no child,
\* and a signal is kept only while there is a manager.
PrInv ==
  /\ PrTypeOK
  /\ \A p \in PrProcs : prExits[p] <= 1 /\ (prExits[p] = 1 => prChild[p] = "reaped")
  /\ \A p \in PrProcs : prState[p] = "none" => prChild[p] = "none"
  /\ ~prOrphaned => PrListInv

\* loopyProcessFree of a process that is in the list, while it is the only one,
\* leaves the others.
LEMMA UnlinkListed ==
  ASSUME PrTypeOK, PrListInv, NEW p \in PrProcs, prState[p] = "owned", UnlinkProcess(p),
         prState' = [prState EXCEPT ![p] = "freed"], prChild' = prChild, prReaping' = prReaping
  PROVE  PrListInv'
<1> USE DEF PrListInv, PrTypeOK
<1>1. p \in Range(prList)
  OBVIOUS
<1>2. ChainOf(p) = prList
  BY <1>1 DEF ChainOf
<1>3. /\ prList' = RemoveFirst(prList, p) /\ prStray' = {} /\ prMgr' = (prList' # << >>)
      /\ prSigchld' = (prSigchld /\ prMgr')
  <2>1. prList' = RemoveFirst(prList, p) /\ prStray' = {}
    BY <1>2 DEF UnlinkProcess
  <2>2. prMgr' = (prList' # << >>) /\ prSigchld' = (prSigchld /\ prMgr')
    BY Zenon DEF UnlinkProcess
  <2> QED  BY <2>1, <2>2, Zenon
<1>4. prList' \in Seq(PrProcs) /\ IsInjective(prList') /\ Range(prList') = Range(prList) \ {p}
  BY <1>1, <1>3, UnlinkOne
<1>5. prMgr' \in BOOLEAN /\ prSigchld' \in BOOLEAN
  BY <1>3, Zenon
<1>6. prList' # << >> => prMgr' /\ (prSigchld => prSigchld')
  BY <1>3, <1>5
<1>7. Range(prList') = {q \in PrProcs : prState'[q] = "owned"}
  BY <1>4
<1>8. ASSUME NEW q \in Range(prList'), prChild'[q] = "zombie"
      PROVE  prSigchld' \/ prReaping'
  <2>1. prList' # << >> /\ q \in Range(prList)
    BY <1>4, <1>8, EmptyList
  <2> QED  BY <1>6, <1>8, <2>1
<1> QED  BY <1>3, <1>4, <1>5, <1>6, <1>7, <1>8

\* A spawn that fails while no process is listed leaves none.
LEMMA UnlinkNew ==
  ASSUME PrTypeOK, PrListInv, prList = << >>, NEW p \in PrProcs, prState[p] = "none", UnlinkProcess(p),
         prState' = [prState EXCEPT ![p] = "freed"], prReaping' = prReaping
  PROVE  PrListInv'
<1> USE DEF PrListInv, PrTypeOK
<1>1. Range(prList) = {} /\ \A q \in PrProcs : prState[q] # "owned"
  BY EmptyList
<1>2. ChainOf(p) = <<p>>
  BY <1>1 DEF ChainOf
<1>3. <<p>> # prList /\ Head(<<p>>) = p
  OBVIOUS
<1>4. RemoveFirst(<<p>>, p) = << >>
  <2>1. <<p>> \in Seq(PrProcs) /\ IsInjective(<<p>>) /\ Range(<<p>>) = {p}
    BY DEF IsInjective, Range
  <2>2. /\ RemoveFirst(<<p>>, p) \in Seq(PrProcs)
        /\ Range(RemoveFirst(<<p>>, p)) = Range(<<p>>) \ {p}
    <3>1. p \in Range(<<p>>)
      BY <2>1
    <3> QED  BY <2>1, <3>1, UnlinkOne, Zenon
  <2>3. Range(RemoveFirst(<<p>>, p)) = {}
    BY <2>1, <2>2
  <2> QED  BY <2>2, <2>3, EmptyList
<1>5. prList' = << >> /\ prStray' = {} /\ prMgr' = FALSE /\ prSigchld' = (prSigchld /\ prMgr')
  <2>1. prList' = << >> /\ prStray' = {}
    BY <1>2, <1>3, <1>4 DEF UnlinkProcess
  <2>2. prMgr' = (prList' # << >>) /\ prSigchld' = (prSigchld /\ prMgr')
    BY Zenon DEF UnlinkProcess
  <2> QED  BY <2>1, <2>2, Zenon
<1>6. prMgr' \in BOOLEAN /\ prSigchld' \in BOOLEAN
  BY <1>5, Zenon
<1>7. IsInjective(prList') /\ Range(prList') = {}
  BY <1>5, EmptyList DEF IsInjective
<1>8. \A q \in PrProcs : prState'[q] # "owned"
  BY <1>1
<1> QED  BY <1>5, <1>6, <1>7, <1>8

\* Every call, callback and exit of a child keeps the invariant.
LEMMA PrStep == PrInv /\ [PrNext]_prVars => PrInv'
<1> SUFFICES ASSUME PrInv, [PrNext]_prVars
             PROVE  PrInv'
  OBVIOUS
<1> USE DEF PrInv, PrTypeOK
<1>1. ASSUME NEW p \in PrProcs, Spawn(p)
      PROVE  PrInv'
  <2>1. /\ prState' = [prState EXCEPT ![p] = "owned"] /\ prChild' = [prChild EXCEPT ![p] = "runs"]
        /\ prExits' = prExits /\ prOrphaned' = prOrphaned /\ prState[p] = "none"
    BY <1>1 DEF Spawn, prCalls, prFaults
  <2>2. ASSUME ~prOrphaned
        PROVE  PrListInv'
    <3>1. PrListInv /\ p \notin Range(prList)
      BY <1>1, <2>1, <2>2 DEF PrListInv
    <3>2. /\ prList' \in Seq(PrProcs) /\ IsInjective(prList')
          /\ Range(prList') = Range(prList) \cup {p}
      BY <1>1, <3>1, LinkFirst DEF Spawn, PrListInv
    <3>3. prMgr' \in BOOLEAN /\ prMgr'
      BY <1>1 DEF Spawn
    <3>4. Range(prList') = {q \in PrProcs : prState'[q] = "owned"}
      BY <2>1, <3>1, <3>2 DEF PrListInv
    <3> QED  BY <1>1, <2>1, <3>1, <3>2, <3>3, <3>4 DEF Spawn, PrListInv
  <2> QED  BY <2>1, <2>2
<1>2. ASSUME NEW p \in PrProcs, SpawnFails(p)
      PROVE  PrInv'
  <2>1. /\ prState' = [prState EXCEPT ![p] = "freed"] /\ prChild' = prChild /\ prReaping' = prReaping
        /\ prExits' = prExits /\ prOrphaned' = (prOrphaned \/ prList # << >>)
        /\ prState[p] = "none" /\ UnlinkProcess(p)
    BY <1>2, Zenon DEF SpawnFails, prCalls
  <2>2. /\ prOrphaned' \in BOOLEAN
        /\ ~prOrphaned' => ~prOrphaned /\ prList = << >>
    BY <2>1, Zenon
  <2>3. ~prOrphaned' => PrListInv'
    BY <2>1, <2>2, UnlinkNew
  <2> QED  BY <2>1, <2>2, <2>3
<1>3. ASSUME NEW p \in PrProcs, ProcessFree(p)
      PROVE  PrInv'
  <2>1. /\ prState' = [prState EXCEPT ![p] = "freed"] /\ prChild' = prChild /\ prReaping' = prReaping
        /\ prExits' = prExits /\ prOrphaned' = prOrphaned /\ prState[p] = "owned"
    BY <1>3 DEF ProcessFree, prCalls, prFaults
  <2>2. ASSUME ~prOrphaned
        PROVE  PrListInv'
    <3>1. PrListInv /\ prMgr
      <4>1. PrListInv /\ p \in Range(prList)
        BY <2>1, <2>2 DEF PrListInv
      <4> QED  BY <4>1, EmptyList DEF PrListInv
    <3>2. UnlinkProcess(p)
      BY <1>3, <3>1, Zenon DEF ProcessFree
    <3> QED  BY <2>1, <3>1, <3>2, UnlinkListed
  <2> QED  BY <2>1, <2>2
<1>4. ASSUME NEW p \in PrProcs, ChildExits(p)
      PROVE  PrInv'
  <2>1. /\ prChild[p] = "runs" /\ prChild' = [prChild EXCEPT ![p] = "zombie"] /\ prSigchld' = prMgr
        /\ prState' = prState /\ prList' = prList /\ prStray' = prStray /\ prMgr' = prMgr
        /\ prReaping' = prReaping /\ prExits' = prExits /\ prOrphaned' = prOrphaned
    BY <1>4 DEF ChildExits, prChains, prCalls, prFaults
  <2>2. ASSUME PrListInv
        PROVE  PrListInv'
    <3>1. Range(prList) # {} => prList # << >>
      BY DEF Range
    <3> QED  BY <2>1, <2>2, <3>1 DEF PrListInv
  <2> QED  BY <2>1, <2>2
<1>5. ASSUME NEW p \in PrProcs, Reap(p)
      PROVE  PrInv'
  <2>1. /\ prChild[p] = "zombie" /\ prChild' = [prChild EXCEPT ![p] = "reaped"]
        /\ prState' = prState /\ prList' = prList /\ prStray' = prStray /\ prMgr' = prMgr
        /\ prSigchld' = prSigchld /\ prReaping' = prReaping /\ prOrphaned' = prOrphaned
        /\ \/ prExits' = prExits
           \/ prExits' = [prExits EXCEPT ![p] = @ + 1]
    BY <1>5 DEF Reap, prChains, prFaults
  <2>2. prExits[p] = 0 /\ prState[p] # "none"
    BY <2>1
  <2>3. PrListInv => PrListInv'
    BY <2>1 DEF PrListInv
  <2> QED  BY <2>1, <2>2, <2>3
<1>6. CASE Sigchld
  BY <1>6 DEF Sigchld, PrListInv, prChains, prCalls, prFaults
<1>7. CASE ExitReturn
  BY <1>7 DEF ExitReturn, PrListInv, prChains, prFaults
<1>8. CASE ReapDone
  <2>1. /\ \A p \in PrProcs : prChild[p] # "zombie"
        /\ prReaping' = FALSE /\ prState' = prState /\ prList' = prList /\ prStray' = prStray
        /\ prMgr' = prMgr /\ prChild' = prChild /\ prSigchld' = prSigchld /\ prExits' = prExits
        /\ prOrphaned' = prOrphaned
    BY <1>8 DEF ReapDone, prChains, prCalls, prFaults
  <2>2. prReaping' \in BOOLEAN
    BY <2>1
  <2>3. PrListInv => PrListInv'
    BY <2>1, <2>2 DEF PrListInv
  <2> QED  BY <2>1, <2>3
<1>9. CASE UNCHANGED prVars
  BY <1>9 DEF prVars, PrListInv
<1>10. CASE SpawnNoMemory
  <2>1. prMgr' \in BOOLEAN /\ prMgr'
    BY <1>10 DEF SpawnNoMemory
  <2> QED  BY <1>10, <2>1 DEF SpawnNoMemory, PrListInv, prChains, prCalls, prFaults
<1>11. CASE UseFreedProcess
  BY <1>11 DEF UseFreedProcess, PrListInv, prChains, prCalls
<1> QED
  BY <1>1, <1>2, <1>3, <1>4, <1>5, <1>6, <1>7, <1>8, <1>9, <1>10, <1>11 DEF PrNext

\* No exit is reported twice, and none is lost until a failed spawn has made
\* orphans, though one SIGCHLD stands for many exits and callbacks spawn and free
\* processes, for any number of them (processCheckChildren, loopyProcessFree).
THEOREM ExitsReportedOnce == PrSpec => []ExitNotLost
<1>1. PrInit => PrInv
  <2> SUFFICES ASSUME PrInit
               PROVE  PrInv
    OBVIOUS
  <2>1. prList \in Seq(PrProcs) /\ Range(prList) = {} /\ IsInjective(prList) /\ prStray = {}
    BY DEF PrInit, Range, IsInjective
  <2>2. /\ prMgr \in BOOLEAN /\ prSigchld \in BOOLEAN /\ prReaping \in BOOLEAN /\ prOrphaned \in BOOLEAN
        /\ prList = << >>
    BY DEF PrInit
  <2>3. \A p \in PrProcs : prState[p] = "none" /\ prChild[p] = "none" /\ prExits[p] = 0
    BY DEF PrInit
  <2>4. PrTypeOK
    BY <2>2 DEF PrInit, PrTypeOK
  <2>5. PrListInv
    BY <2>1, <2>2, <2>3 DEF PrListInv
  <2> QED  BY <2>3, <2>4, <2>5 DEF PrInv
<1>2. PrInv => ExitNotLost
  BY DEF PrInv, PrListInv, ExitNotLost
<1> QED  BY <1>1, <1>2, PrStep, PTL DEF PrSpec

-----------------------------------------------------------------------------
(* Watched files                                                            *)

WtEvents == [wd : Nat, file : WtFiles]

WtTypeOK ==
  /\ wtEntry \in [WtSlots -> [id : Nat, file : WtFiles, wd : Nat]]
  /\ wtCount \in Int /\ wtNextId \in Nat \ {0}
  /\ wtKernel \in Seq(WtFiles) /\ wtLive \subseteq 1 .. Len(wtKernel)
  /\ wtQueue \in Seq(WtEvents) /\ wtBatch \in Seq(WtEvents)

\* An event tells of the file that its descriptor stood for, also after that
\* was removed: descriptors are not used again.
EventOK(e) == e.wd \in 1 .. Len(wtKernel) /\ wtKernel[e.wd] = e.file

\* WatchExact is inductive with what the events that are still to be handed
\* out tell of.
WtInv ==
  /\ WtTypeOK
  /\ WatchExact
  /\ \A i \in WtSlots : WtActive(i) => wtEntry[i].wd \in 1 .. Len(wtKernel)
  /\ \A k \in 1 .. Len(wtQueue) : EventOK(wtQueue[k])
  /\ \A k \in 1 .. Len(wtBatch) : EventOK(wtBatch[k])

LEMMA FreeSlotOK == FreeSlot.id = 0 /\ FreeSlot \in [id : Nat, file : WtFiles, wd : Nat]
  BY WtAssumption DEF FreeSlot

\* The kernel's queue takes an event about a descriptor or loses it.
LEMMA QueuedOK ==
  ASSUME wtKernel \in Seq(WtFiles), NEW q \in Seq(WtEvents), NEW wd \in 1 .. Len(wtKernel),
         \A k \in 1 .. Len(q) : EventOK(q[k])
  PROVE  /\ Queued(q, wd) \in Seq(WtEvents)
         /\ \A k \in 1 .. Len(Queued(q, wd)) : EventOK(Queued(q, wd)[k])
<1> DEFINE e == [wd |-> wd, file |-> wtKernel[wd]]
<1>1. e \in WtEvents /\ EventOK(e)
  BY DEF WtEvents, EventOK
<1>2. Queued(q, wd) = q \/ Queued(q, wd) = Append(q, e)
  BY DEF Queued
<1> HIDE DEF e
<1>3. /\ Append(q, e) \in Seq(WtEvents) /\ Len(Append(q, e)) = Len(q) + 1
      /\ \A k \in 1 .. Len(q) : Append(q, e)[k] = q[k]
      /\ Append(q, e)[Len(q) + 1] = e /\ Len(q) \in Nat
  BY <1>1
<1>4. \A k \in 1 .. Len(Append(q, e)) : EventOK(Append(q, e)[k])
  BY <1>1, <1>3
<1> QED  BY <1>2, <1>3, <1>4

\* Watches are counted when one slot is taken, or given back.
LEMMA SlotsCounted ==
  ASSUME WtInv, NEW i \in WtSlots,
         \A j \in WtSlots \ {i} : WtActive(j)' <=> WtActive(j)
  PROVE  /\ ~WtActive(i) /\ WtActive(i)' /\ wtCount' = wtCount + 1
              => wtCount' = Cardinality({j \in WtSlots : WtActive(j)})'
         /\ WtActive(i) /\ ~WtActive(i)' /\ wtCount' = wtCount - 1
              => wtCount' = Cardinality({j \in WtSlots : WtActive(j)})'
<1> USE WtAssumption
<1> DEFINE Active == {j \in WtSlots : WtActive(j)}
<1>1. IsFiniteSet(Active)
  <2>1. IsFiniteSet(WtSlots)
    BY FS_Interval DEF WtSlots
  <2> QED  BY <2>1, FS_Subset
<1>2. wtCount = Cardinality(Active)
  BY DEF WtInv, WatchExact
<1>3. ASSUME ~WtActive(i), WtActive(i)', wtCount' = wtCount + 1
      PROVE  wtCount' = Cardinality(Active)'
  <2>1. Active' = Active \cup {i} /\ i \notin Active
    BY <1>3
  <2>2. Cardinality(Active \cup {i}) = Cardinality(Active) + 1
    BY <1>1, <2>1, FS_AddElement
  <2> QED  BY <1>2, <1>3, <2>1, <2>2
<1>4. ASSUME WtActive(i), ~WtActive(i)', wtCount' = wtCount - 1
      PROVE  wtCount' = Cardinality(Active)'
  <2>1. Active' = Active \ {i} /\ i \in Active
    BY <1>4
  <2>2. Cardinality(Active \ {i}) = Cardinality(Active) - 1
    BY <1>1, <2>1, FS_RemoveElement
  <2> QED  BY <1>2, <1>4, <2>1, <2>2
<1> QED  BY <1>3, <1>4

\* A file that is not watched gets the next descriptor.
LEMMA NewWatchStep ==
  ASSUME WtInv, NEW f \in WtFiles, NEW i \in WtSlots, ~WtActive(i), NewWatch(i, f),
         wtNextId' = wtNextId + 1, UNCHANGED <<wtQueue, wtBatch, wtTold>>
  PROVE  WtInv'
<1> DEFINE n == Len(wtKernel) + 1
<1>1. /\ wtEntry' = [wtEntry EXCEPT ![i] = [id |-> wtNextId, file |-> f, wd |-> n]]
      /\ wtCount' = wtCount + 1 /\ wtKernel' = Append(wtKernel, f)
      /\ wtLive' = wtLive \cup {n} /\ wtShaky' = wtShaky
  BY DEF NewWatch, TakeSlot
<1>2. WtTypeOK /\ WatchExact
  BY DEF WtInv
<1>3. /\ wtKernel' \in Seq(WtFiles) /\ Len(wtKernel') = n /\ n \in Nat \ {0} /\ wtKernel'[n] = f
      /\ \A wd \in 1 .. Len(wtKernel) : wtKernel'[wd] = wtKernel[wd] /\ wd # n /\ wd \in 1 .. n
  BY <1>1, <1>2 DEF WtTypeOK
<1> HIDE DEF n
<1>4. /\ \A j \in WtSlots \ {i} : wtEntry'[j] = wtEntry[j] /\ (WtActive(j)' <=> WtActive(j))
      /\ wtEntry'[i] = [id |-> wtNextId, file |-> f, wd |-> n] /\ WtActive(i)'
  BY <1>1, <1>2 DEF WtTypeOK, WtActive
<1>5. WtTypeOK'
  <2>1. wtLive' \subseteq 1 .. Len(wtKernel')
    <3>1. \A wd \in wtLive : wd \in 1 .. n
      BY <1>2, <1>3 DEF WtTypeOK
    <3> QED  BY <1>1, <1>3, <3>1
  <2>2. wtEntry' \in [WtSlots -> [id : Nat, file : WtFiles, wd : Nat]]
    BY <1>1, <1>2, <1>3 DEF WtTypeOK
  <2> QED  BY <1>1, <1>2, <1>3, <2>1, <2>2 DEF WtTypeOK
<1>6. \A j \in WtSlots \ {i} : WtActive(j) => wtEntry[j].wd \in 1 .. Len(wtKernel)
  BY DEF WtInv
<1>7. WatchExact'
  <2>1. wtCount' = Cardinality({j \in WtSlots : WtActive(j)})'
    BY <1>1, <1>4, SlotsCounted
  <2>2. ASSUME NEW j \in WtSlots, WtActive(j)'
        PROVE  wtKernel'[wtEntry'[j].wd] = wtEntry'[j].file /\ wtEntry'[j].wd \in wtLive' \cup wtShaky'
    <3>1. CASE j = i
      BY <1>1, <1>3, <1>4, <3>1
    <3>2. CASE j # i
      <4>1. /\ WtActive(j) /\ wtEntry'[j] = wtEntry[j] /\ wtEntry[j].wd \in 1 .. Len(wtKernel)
            /\ wtKernel[wtEntry[j].wd] = wtEntry[j].file /\ wtEntry[j].wd \in wtLive \cup wtShaky
        BY <1>2, <1>4, <1>6, <2>2, <3>2 DEF WatchExact
      <4> QED  BY <1>1, <1>3, <4>1
    <3> QED  BY <3>1, <3>2
  <2>3. ASSUME NEW wd \in wtLive'
        PROVE  \E j \in WtSlots :
                 ByWd(j, wd)' /\ (wd \notin wtShaky' => \A k \in WtSlots : ByWd(k, wd)' => k = j)
    <3>1. CASE wd = n
      <4>1. ByWd(i, wd)'
        BY <1>4, <3>1 DEF ByWd
      <4>2. \A k \in WtSlots : ByWd(k, wd)' => k = i
        BY <1>3, <1>4, <1>6, <3>1 DEF ByWd
      <4> QED  BY <4>1, <4>2
    <3>2. CASE wd # n
      <4>1. wd \in wtLive
        BY <1>1, <3>2
      <4>2. PICK j \in WtSlots :
              ByWd(j, wd) /\ (wd \notin wtShaky => \A k \in WtSlots : ByWd(k, wd) => k = j)
        BY <1>2, <4>1 DEF WatchExact
      <4>3. \A k \in WtSlots : ByWd(k, wd)' <=> ByWd(k, wd)
        BY <1>4, <3>2 DEF ByWd
      <4> QED  BY <1>1, <4>2, <4>3
    <3> QED  BY <3>1, <3>2
  <2>4. wtTold' # << >> => wtTold'[1].wd = wtTold'[2].wd /\ wtTold'[1].file = wtTold'[2].file
    BY <1>2 DEF WatchExact
  <2> QED  BY <2>1, <2>2, <2>3, <2>4 DEF WatchExact
<1>8. \A j \in WtSlots : WtActive(j)' => wtEntry'[j].wd \in 1 .. Len(wtKernel')
  BY <1>3, <1>4, <1>6
<1>9. \A e : EventOK(e) => EventOK(e)'
  BY <1>3 DEF EventOK
<1>10. wtQueue' = wtQueue /\ wtBatch' = wtBatch
  OBVIOUS
<1>11. /\ (\A k \in 1 .. Len(wtQueue) : EventOK(wtQueue[k]))'
       /\ (\A k \in 1 .. Len(wtBatch) : EventOK(wtBatch[k]))'
  <2>1. /\ \A k \in 1 .. Len(wtQueue) : EventOK(wtQueue[k])
        /\ \A k \in 1 .. Len(wtBatch) : EventOK(wtBatch[k])
    BY DEF WtInv
  <2> QED  BY <1>3, <1>10, <2>1 DEF EventOK
<1> QED  BY <1>5, <1>7, <1>8, <1>11 DEF WtInv

\* Steps that give out no descriptor keep what the waiting events tell of.
LEMMA WatchEventsKept ==
  ASSUME WtInv, wtKernel' = wtKernel, wtQueue' = wtQueue, wtBatch' = wtBatch
  PROVE  /\ (\A k \in 1 .. Len(wtQueue) : EventOK(wtQueue[k]))'
         /\ (\A k \in 1 .. Len(wtBatch) : EventOK(wtBatch[k]))'
  BY DEF WtInv, EventOK

\* A file that is watched gives the slot the descriptor it has.
LEMMA SharedWatchStep ==
  ASSUME WtInv, NEW f \in WtFiles, NEW i \in WtSlots, ~WtActive(i), SharedWatch(i, f),
         wtNextId' = wtNextId + 1, UNCHANGED <<wtQueue, wtBatch, wtTold>>
  PROVE  WtInv'
<1>1. PICK n \in wtLive :
        /\ wtKernel[n] = f
        /\ wtEntry' = [wtEntry EXCEPT ![i] = [id |-> wtNextId, file |-> f, wd |-> n]]
        /\ wtCount' = wtCount + 1 /\ wtShaky' = wtShaky \cup {n}
        /\ wtKernel' = wtKernel /\ wtLive' = wtLive
  BY DEF SharedWatch, TakeSlot
<1>2. WtTypeOK /\ WatchExact /\ n \in 1 .. Len(wtKernel) /\ n \in Nat
  BY DEF WtInv, WtTypeOK
<1>4. /\ \A j \in WtSlots \ {i} : wtEntry'[j] = wtEntry[j] /\ (WtActive(j)' <=> WtActive(j))
      /\ wtEntry'[i] = [id |-> wtNextId, file |-> f, wd |-> n] /\ WtActive(i)'
  BY <1>1, <1>2 DEF WtTypeOK, WtActive
<1>5. WtTypeOK'
  BY <1>1, <1>2 DEF WtTypeOK
<1>6. WatchExact'
  <2>1. wtCount' = Cardinality({j \in WtSlots : WtActive(j)})'
    BY <1>1, <1>4, SlotsCounted
  <2>2. \A j \in WtSlots : WtActive(j)' =>
          wtKernel'[wtEntry'[j].wd] = wtEntry'[j].file /\ wtEntry'[j].wd \in wtLive' \cup wtShaky'
    BY <1>1, <1>2, <1>4 DEF WatchExact
  <2>3. ASSUME NEW wd \in wtLive'
        PROVE  \E j \in WtSlots :
                 ByWd(j, wd)' /\ (wd \notin wtShaky' => \A k \in WtSlots : ByWd(k, wd)' => k = j)
    <3>1. CASE wd = n
      BY <1>1, <1>4, <3>1 DEF ByWd
    <3>2. CASE wd # n
      <4>2. PICK j \in WtSlots :
              ByWd(j, wd) /\ (wd \notin wtShaky => \A k \in WtSlots : ByWd(k, wd) => k = j)
        BY <1>1, <1>2 DEF WatchExact
      <4>3. \A k \in WtSlots : ByWd(k, wd)' <=> ByWd(k, wd)
        BY <1>4, <3>2 DEF ByWd
      <4> QED  BY <1>1, <4>2, <4>3
    <3> QED  BY <3>1, <3>2
  <2>4. wtTold' # << >> => wtTold'[1].wd = wtTold'[2].wd /\ wtTold'[1].file = wtTold'[2].file
    BY <1>2 DEF WatchExact
  <2> QED  BY <2>1, <2>2, <2>3, <2>4 DEF WatchExact
<1>7. \A j \in WtSlots : WtActive(j)' => wtEntry'[j].wd \in 1 .. Len(wtKernel')
  BY <1>1, <1>2, <1>4 DEF WtInv
<1> QED  BY <1>1, <1>5, <1>6, <1>7, WatchEventsKept DEF WtInv

\* loopyWatchAdd
LEMMA WatchAddStep ==
  ASSUME WtInv, NEW f \in WtFiles, NEW ok \in BOOLEAN, WatchAdd(f, ok)
  PROVE  WtInv'
<1>1. wtNextId' = wtNextId + 1 /\ UNCHANGED <<wtQueue, wtBatch, wtTold>>
  BY DEF WatchAdd
<1>2. PICK i \in WtSlots :
        /\ ~WtActive(i)
        /\ IF ok THEN NewWatch(i, f) \/ SharedWatch(i, f)
           ELSE UNCHANGED <<wtEntry, wtCount, wtKernel, wtLive, wtShaky>>
  BY DEF WatchAdd
<1>3. CASE ~ok
  <2>1. UNCHANGED <<wtEntry, wtCount, wtKernel, wtLive, wtShaky>>
    BY <1>2, <1>3
  <2> QED  BY <1>1, <2>1 DEF WtInv, WtTypeOK, WatchExact, WtActive, ByWd, EventOK
<1>4. CASE ok
  BY <1>1, <1>2, <1>4, NewWatchStep, SharedWatchStep
<1> QED  BY <1>3, <1>4

\* loopyWatchRemove: the descriptor goes with the slot.
LEMMA WatchRemoveStep ==
  ASSUME WtInv, NEW i \in WtSlots, WatchRemove(i)
  PROVE  WtInv'
<1> DEFINE d == wtEntry[i].wd
<1>1. /\ WtActive(i) /\ wtLive' = wtLive \ {d}
      /\ wtQueue' = IF d \in wtLive THEN Queued(wtQueue, d) ELSE wtQueue
      /\ wtEntry' = [wtEntry EXCEPT ![i] = FreeSlot] /\ wtCount' = wtCount - 1
      /\ wtNextId' = wtNextId /\ wtKernel' = wtKernel /\ wtBatch' = wtBatch
      /\ wtTold' = wtTold /\ wtShaky' = wtShaky
  BY DEF WatchRemove
<1>2. WtTypeOK /\ WatchExact /\ d \in 1 .. Len(wtKernel)
  BY <1>1 DEF WtInv
<1> HIDE DEF d
<1>3. /\ \A j \in WtSlots \ {i} : wtEntry'[j] = wtEntry[j] /\ (WtActive(j)' <=> WtActive(j))
      /\ ~WtActive(i)'
  BY <1>1, <1>2, FreeSlotOK DEF WtTypeOK, WtActive
<1>4. wtQueue' \in Seq(WtEvents) /\ \A k \in 1 .. Len(wtQueue') : EventOK(wtQueue'[k])
  BY <1>1, <1>2, QueuedOK DEF WtTypeOK, WtInv
<1>5. WtTypeOK'
  BY <1>1, <1>2, <1>4, FreeSlotOK DEF WtTypeOK
<1>6. WatchExact'
  <2>1. wtCount' = Cardinality({j \in WtSlots : WtActive(j)})'
    BY <1>1, <1>3, SlotsCounted
  <2>2. ASSUME NEW j \in WtSlots, WtActive(j)'
        PROVE  wtKernel'[wtEntry'[j].wd] = wtEntry'[j].file /\ wtEntry'[j].wd \in wtLive' \cup wtShaky'
    <3>1. j # i /\ WtActive(j) /\ wtEntry'[j] = wtEntry[j]
      BY <1>3, <2>2
    <3>2. wtKernel[wtEntry[j].wd] = wtEntry[j].file /\ wtEntry[j].wd \in wtLive \cup wtShaky
      BY <1>2, <3>1 DEF WatchExact
    <3>3. wtEntry[j].wd = d /\ d \in wtLive => d \in wtShaky
      BY <1>1, <1>2, <3>1 DEF WatchExact, ByWd, d
    <3> QED  BY <1>1, <3>1, <3>2, <3>3
  <2>3. ASSUME NEW wd \in wtLive'
        PROVE  \E j \in WtSlots :
                 ByWd(j, wd)' /\ (wd \notin wtShaky' => \A k \in WtSlots : ByWd(k, wd)' => k = j)
    <3>1. wd # d /\ wd \in wtLive
      BY <1>1
    <3>2. PICK j \in WtSlots :
            ByWd(j, wd) /\ (wd \notin wtShaky => \A k \in WtSlots : ByWd(k, wd) => k = j)
      BY <1>2, <3>1 DEF WatchExact
    <3>3. \A k \in WtSlots : ByWd(k, wd)' <=> ByWd(k, wd)
      BY <1>3, <3>1 DEF ByWd, d
    <3> QED  BY <1>1, <3>2, <3>3
  <2>4. wtTold' # << >> => wtTold'[1].wd = wtTold'[2].wd /\ wtTold'[1].file = wtTold'[2].file
    BY <1>1, <1>2 DEF WatchExact
  <2> QED  BY <2>1, <2>2, <2>3, <2>4 DEF WatchExact
<1>7. \A j \in WtSlots : WtActive(j)' => wtEntry'[j].wd \in 1 .. Len(wtKernel')
  BY <1>1, <1>3 DEF WtInv
<1>8. /\ (\A k \in 1 .. Len(wtQueue) : EventOK(wtQueue[k]))'
      /\ (\A k \in 1 .. Len(wtBatch) : EventOK(wtBatch[k]))'
  BY <1>1, <1>4 DEF EventOK, WtInv
<1> QED  BY <1>5, <1>6, <1>7, <1>8 DEF WtInv

\* loopyWatchRemoveAll
LEMMA WatchRemoveAllStep ==
  ASSUME WtInv, WatchRemoveAll
  PROVE  WtInv'
<1> USE WtAssumption
<1>1. /\ wtLive' = {} /\ wtEntry' = [i \in WtSlots |-> FreeSlot]
      /\ wtCount' = wtCount - Cardinality({i \in WtSlots : WtActive(i)})
      /\ wtNextId' = wtNextId /\ wtKernel' = wtKernel /\ wtQueue' = wtQueue /\ wtBatch' = wtBatch
      /\ wtTold' = wtTold /\ wtShaky' = wtShaky
  BY DEF WatchRemoveAll
<1>2. \A i \in WtSlots : ~WtActive(i)'
  BY <1>1, FreeSlotOK DEF WtActive
<1>3. wtCount' = 0
  <2>1. wtCount = Cardinality({i \in WtSlots : WtActive(i)}) /\ wtCount \in Int
    BY DEF WtInv, WatchExact, WtTypeOK
  <2> QED  BY <1>1, <2>1
<1>4. {i \in WtSlots : WtActive(i)}' = {} /\ Cardinality({}) = 0
  BY <1>2, FS_EmptySet
<1>5. WtTypeOK'
  BY <1>1, <1>3, FreeSlotOK DEF WtInv, WtTypeOK
<1>6. WatchExact'
  <2>1. wtTold' # << >> => wtTold'[1].wd = wtTold'[2].wd /\ wtTold'[1].file = wtTold'[2].file
    BY <1>1 DEF WtInv, WatchExact
  <2> QED  BY <1>1, <1>2, <1>3, <1>4, <2>1 DEF WatchExact
<1> QED  BY <1>1, <1>2, <1>5, <1>6, WatchEventsKept DEF WtInv

\* A watcher that is new, or made again.
LEMMA WtNew ==
  ASSUME wtEntry = [i \in WtSlots |-> FreeSlot], wtCount = 0, wtNextId = 1,
         wtKernel = << >>, wtLive = {}, wtQueue = << >>, wtBatch = << >>, wtTold = << >>
  PROVE  WtInv
<1>1. \A i \in WtSlots : ~WtActive(i)
  BY FreeSlotOK DEF WtActive
<1>2. {i \in WtSlots : WtActive(i)} = {} /\ Cardinality({}) = 0
  BY <1>1, FS_EmptySet
<1>3. /\ wtKernel \in Seq(WtFiles) /\ wtQueue \in Seq(WtEvents) /\ Len(wtQueue) = 0
      /\ wtBatch \in Seq(WtEvents) /\ Len(wtBatch) = 0
  OBVIOUS
<1>4. WtTypeOK
  BY <1>3, FreeSlotOK DEF WtTypeOK
<1>5. WatchExact
  BY <1>1, <1>2 DEF WatchExact
<1> QED  BY <1>1, <1>3, <1>4, <1>5 DEF WtInv

\* loopyWatchFree
LEMMA WatchFreeStep ==
  ASSUME WtInv, WatchFree
  PROVE  WtInv'
<1>1. CASE wtBatch # << >>
  <2>1. UNCHANGED <<wtEntry, wtCount, wtNextId, wtKernel, wtLive, wtQueue, wtBatch, wtTold, wtShaky>>
    BY <1>1 DEF WatchFree
  <2> QED  BY <2>1 DEF WtInv, WtTypeOK, WatchExact, WtActive, ByWd, EventOK
<1>2. CASE wtBatch = << >>
  <2>1. /\ wtEntry' = [i \in WtSlots |-> FreeSlot] /\ wtCount' = 0 /\ wtNextId' = 1
        /\ wtKernel' = << >> /\ wtLive' = {} /\ wtQueue' = << >> /\ wtTold' = << >>
        /\ wtBatch' = << >>
    BY <1>2 DEF WatchFree
  <2>2. \A i \in WtSlots : ~WtActive(i)'
    BY <2>1, FreeSlotOK DEF WtActive
  <2>3. {i \in WtSlots : WtActive(i)}' = {} /\ Cardinality({}) = 0
    BY <2>2, FS_EmptySet
  <2>4. /\ wtKernel' \in Seq(WtFiles) /\ wtQueue' \in Seq(WtEvents) /\ Len(wtQueue') = 0
        /\ wtBatch' \in Seq(WtEvents) /\ Len(wtBatch') = 0
    BY <2>1
  <2>5. WtTypeOK'
    BY <2>1, <2>4, FreeSlotOK DEF WtTypeOK
  <2>6. WatchExact'
    BY <2>1, <2>2, <2>3 DEF WatchExact
  <2> QED  BY <2>2, <2>4, <2>5, <2>6 DEF WtInv
<1> QED  BY <1>1, <1>2

\* External: events tell of the file behind their descriptor, its deletion too.
LEMMA FileStep ==
  ASSUME WtInv, NEW wd \in wtLive, FileEvent(wd) \/ FileDeleted(wd)
  PROVE  WtInv'
<1>1. /\ wtEntry' = wtEntry /\ wtCount' = wtCount /\ wtNextId' = wtNextId /\ wtKernel' = wtKernel
      /\ wtBatch' = wtBatch /\ wtTold' = wtTold
      /\ \/ wtLive' = wtLive /\ wtShaky' = wtShaky /\ wtQueue' = Queued(wtQueue, wd)
         \/ /\ wtLive' = wtLive \ {wd} /\ wtShaky' = wtShaky \cup {wd}
            /\ wtQueue' = Queued(Queued(wtQueue, wd), wd)
  BY DEF FileEvent, FileDeleted
<1>2. WtTypeOK /\ WatchExact /\ wd \in 1 .. Len(wtKernel)
  BY DEF WtInv, WtTypeOK
<1>3. /\ Queued(wtQueue, wd) \in Seq(WtEvents)
      /\ \A k \in 1 .. Len(Queued(wtQueue, wd)) : EventOK(Queued(wtQueue, wd)[k])
  BY <1>2, QueuedOK DEF WtTypeOK, WtInv
<1>4. /\ Queued(Queued(wtQueue, wd), wd) \in Seq(WtEvents)
      /\ \A k \in 1 .. Len(Queued(Queued(wtQueue, wd), wd)) : EventOK(Queued(Queued(wtQueue, wd), wd)[k])
  BY <1>2, <1>3, QueuedOK DEF WtTypeOK
<1>5. wtQueue' \in Seq(WtEvents) /\ \A k \in 1 .. Len(wtQueue') : EventOK(wtQueue'[k])
  BY <1>1, <1>3, <1>4
<1>6. WtTypeOK'
  BY <1>1, <1>2, <1>5 DEF WtTypeOK
<1>7. WatchExact'
  BY <1>1, <1>2 DEF WatchExact, ByWd, WtActive
<1>8. /\ (\A k \in 1 .. Len(wtQueue) : EventOK(wtQueue[k]))'
      /\ (\A k \in 1 .. Len(wtBatch) : EventOK(wtBatch[k]))'
  BY <1>1, <1>5 DEF EventOK, WtInv
<1> QED  BY <1>1, <1>6, <1>7, <1>8 DEF WtInv, WtActive

\* watchEventCallback reads what there is into the buffer that is done.
LEMMA ReadBatchStep ==
  ASSUME WtInv, ReadBatch
  PROVE  WtInv'
<1>1. /\ wtBatch' = wtQueue /\ wtQueue' = << >> /\ wtEntry' = wtEntry /\ wtCount' = wtCount
      /\ wtNextId' = wtNextId /\ wtKernel' = wtKernel /\ wtLive' = wtLive /\ wtTold' = wtTold
      /\ wtShaky' = wtShaky
  BY DEF ReadBatch
<1>2. wtQueue' \in Seq(WtEvents) /\ Len(wtQueue') = 0
  BY <1>1
<1>3. WtTypeOK'
  BY <1>1, <1>2 DEF WtTypeOK, WtInv
<1>4. (\A k \in 1 .. Len(wtQueue) : EventOK(wtQueue[k]))'
  BY <1>2
<1>5. (\A k \in 1 .. Len(wtBatch) : EventOK(wtBatch[k]))'
  BY <1>1 DEF EventOK, WtInv
<1>6. WatchExact'
  BY <1>1 DEF WtInv, WatchExact, ByWd, WtActive
<1> QED  BY <1>1, <1>3, <1>4, <1>5, <1>6 DEF WtInv, WtActive

\* The callback that is called is that of the watch the event is about.
LEMMA NotifyWatchStep ==
  ASSUME WtInv, NotifyWatch
  PROVE  WtInv'
<1> USE WtAssumption
<1> DEFINE e == Head(wtBatch)
           first == CHOOSE i \in WtSlots : ByWd(i, e.wd) /\ \A j \in 1 .. i - 1 : ~ByWd(j, e.wd)
<1>1. /\ wtBatch # << >> /\ wtBatch' = Tail(wtBatch) /\ wtEntry' = wtEntry /\ wtCount' = wtCount
      /\ wtNextId' = wtNextId /\ wtKernel' = wtKernel /\ wtLive' = wtLive /\ wtQueue' = wtQueue
      /\ wtShaky' = wtShaky
  BY DEF NotifyWatch
<1>2. wtTold' = IF \E i \in WtSlots : ByWd(i, e.wd) THEN <<wtEntry[first], e>> ELSE << >>
  BY DEF NotifyWatch
<1>3. wtBatch \in Seq(WtEvents)
  BY DEF WtInv, WtTypeOK
<1>4. /\ e = wtBatch[1] /\ Len(wtBatch) \in Nat \ {0} /\ e \in WtEvents
      /\ Tail(wtBatch) \in Seq(WtEvents) /\ Len(Tail(wtBatch)) = Len(wtBatch) - 1
      /\ \A k \in 1 .. Len(wtBatch) - 1 : Tail(wtBatch)[k] = wtBatch[k + 1]
  BY <1>1, <1>3
<1>5. EventOK(e)
  BY <1>4 DEF WtInv
<1>6. ASSUME \E i \in WtSlots : ByWd(i, e.wd)
      PROVE  first \in WtSlots /\ ByWd(first, e.wd)
  <2> HIDE DEF e
  <2> DEFINE T == {i \in WtSlots : ByWd(i, e.wd)}
  <2>1. T \subseteq Nat /\ T # {}
    BY <1>6 DEF WtSlots
  <2>2. PICK n \in T : \A y \in T : n <= y
    <3> HIDE DEF T
    <3> QED  BY <2>1, LeastNatural
  <2>3. n \in WtSlots /\ ByWd(n, e.wd)
    BY <2>2
  <2>4. \A j \in 1 .. n - 1 : ~ByWd(j, e.wd)
    BY <2>2, <2>3 DEF WtSlots
  <2>5. \E i \in WtSlots : ByWd(i, e.wd) /\ \A j \in 1 .. i - 1 : ~ByWd(j, e.wd)
    BY <2>3, <2>4
  <2> QED  BY <2>5
<1>7. ASSUME wtTold' # << >>
      PROVE  wtTold'[1].wd = wtTold'[2].wd /\ wtTold'[1].file = wtTold'[2].file
  <2>1. /\ \E i \in WtSlots : ByWd(i, e.wd)
        /\ wtTold' = <<wtEntry[first], e>>
    <3> HIDE DEF first, e
    <3> QED  BY <1>2, <1>7
  <2>2. first \in WtSlots /\ ByWd(first, e.wd)
    BY <1>6, <2>1
  <2> HIDE DEF first, e
  <2>3. /\ wtEntry[first].wd = e.wd /\ wtKernel[e.wd] = wtEntry[first].file
        /\ wtEntry[first].file \in WtFiles
    BY <2>2 DEF WtInv, WatchExact, ByWd, WtTypeOK
  <2>4. wtEntry[first].file = e.file
    BY <1>5, <2>3 DEF EventOK
  <2> QED  BY <2>1, <2>3, <2>4
<1> HIDE DEF first, e
<1>8. WtTypeOK'
  BY <1>1, <1>4 DEF WtTypeOK, WtInv
<1>9. (\A k \in 1 .. Len(wtQueue) : EventOK(wtQueue[k]))'
  BY <1>1 DEF EventOK, WtInv
<1>10. (\A k \in 1 .. Len(wtBatch) : EventOK(wtBatch[k]))'
  <2>1. \A k \in 1 .. Len(wtBatch') : EventOK(wtBatch'[k])
    BY <1>1, <1>4 DEF WtInv
  <2> QED  BY <1>1, <2>1 DEF EventOK
<1>11. WatchExact'
  BY <1>1, <1>7 DEF WtInv, WatchExact, ByWd, WtActive
<1> QED  BY <1>1, <1>8, <1>9, <1>10, <1>11 DEF WtInv, WtActive

LEMMA WtStep == WtInv /\ [WtNext]_wtVars => WtInv'
<1> SUFFICES ASSUME WtInv, [WtNext]_wtVars
             PROVE  WtInv'
  OBVIOUS
<1>1. CASE UNCHANGED wtVars
  BY <1>1 DEF wtVars, WtInv, WtTypeOK, WatchExact, WtActive, ByWd, EventOK
<1> QED  BY <1>1, WatchAddStep, WatchRemoveStep, WatchRemoveAllStep, WatchFreeStep,
            FileStep, ReadBatchStep, NotifyWatchStep DEF WtNext

LEMMA WtInitOK == WtInit => WtInv
  BY WtNew DEF WtInit

-----------------------------------------------------------------------------
(* Polled files                                                             *)

FpTypeOK ==
  /\ fpDisk \in [FpFiles -> FpStates]
  /\ fpNextId \in Nat \ {0}
  /\ fpSeen \in Seq(FpStates) /\ Len(fpSeen) = fpNextId - 1
  /\ fpTold \in Seq(FpStates) /\ Len(fpTold) = fpNextId - 1
  /\ fpFile \in Seq(FpFiles) /\ Len(fpFile) = fpNextId - 1
  /\ fpEntries \in Seq(1 .. fpNextId - 1) /\ IsInjective(fpEntries)
  /\ fpTimer \in BOOLEAN /\ fpLost \in BOOLEAN
  /\ fpCur \in Nat /\ fpNew \in FpStates

\* PollExact is inductive with the types: the entries are a list in which each
\* entry made so far is at most once.
FpInv == FpTypeOK /\ PollExact

\* A number that has not been given out yet is in no list.
LEMMA NewEntry ==
  ASSUME FpTypeOK
  PROVE  /\ fpNextId \notin Range(fpEntries)
         /\ Range(fpEntries) \subseteq 1 .. fpNextId - 1
         /\ fpEntries # << >> <=> Range(fpEntries) # {}
<1>1. fpEntries \in Seq(1 .. fpNextId - 1) /\ fpNextId \in Nat
  BY DEF FpTypeOK
<1>2. \A i \in DOMAIN fpEntries : fpEntries[i] \in 1 .. fpNextId - 1
  BY <1>1
<1>3. fpEntries # << >> <=> Range(fpEntries) # {}
  BY <1>1, EmptyList
<1> QED  BY <1>1, <1>2, <1>3 DEF Range

\* loopyFSPollStart
LEMMA PollStartStep ==
  ASSUME FpInv, NEW f \in FpFiles, NEW ok \in BOOLEAN, PollStart(f, ok)
  PROVE  FpInv'
<1> DEFINE n == fpNextId
<1>0. /\ n \in Nat \ {0} /\ n' = n + 1
      /\ fpDisk \in [FpFiles -> FpStates] /\ fpDisk' = fpDisk
      /\ fpEntries \in Seq(1 .. n - 1) /\ IsInjective(fpEntries)
      /\ UNCHANGED <<fpCur, fpNew>>
  BY DEF FpInv, FpTypeOK, PollStart
<1>1. n \notin Range(fpEntries) /\ Range(fpEntries) \subseteq 1 .. n - 1
      /\ (fpEntries # << >> <=> Range(fpEntries) # {})
  BY NewEntry DEF FpInv
<1>2. /\ fpSeen' \in Seq(FpStates) /\ Len(fpSeen') = n
      /\ fpTold' \in Seq(FpStates) /\ Len(fpTold') = n
      /\ fpFile' \in Seq(FpFiles) /\ Len(fpFile') = n
  BY <1>0 DEF FpInv, FpTypeOK, PollStart
<1>3. /\ \A e \in 1 .. n - 1 : fpSeen'[e] = fpSeen[e] /\ fpTold'[e] = fpTold[e]
      /\ fpSeen'[n] = fpTold'[n]
  BY <1>0 DEF FpInv, FpTypeOK, PollStart
<1>4. fpEntries \in Seq(1 .. n)
  BY <1>0
<1>5. \/ /\ fpEntries' = <<n>> \o fpEntries /\ fpTimer' = TRUE /\ fpLost' = FALSE
      \/ UNCHANGED <<fpTimer, fpLost, fpEntries>>
  BY DEF PollStart
<1>6. CASE UNCHANGED <<fpTimer, fpLost, fpEntries>>
  <2>1. UNCHANGED <<fpTimer, fpLost, fpEntries>> /\ Range(fpEntries)' = Range(fpEntries)
    BY <1>6
  <2>2. FpTypeOK'
    BY <1>0, <1>2, <1>4, <2>1 DEF FpInv, FpTypeOK
  <2>3. PollExact'
    BY <1>0, <1>1, <1>3, <2>1 DEF FpInv, PollExact
  <2> QED  BY <2>2, <2>3 DEF FpInv
<1>7. CASE fpEntries' = <<n>> \o fpEntries /\ fpTimer' = TRUE /\ fpLost' = FALSE
  <2>1. /\ <<n>> \o fpEntries \in Seq(1 .. n)
        /\ Range(<<n>> \o fpEntries) = Range(fpEntries) \cup {n}
        /\ IsInjective(<<n>> \o fpEntries)
    <3>1. n \in 1 .. n
      BY <1>0
    <3> HIDE DEF n
    <3> QED  BY <1>0, <1>1, <1>4, <3>1, LinkFirst
  <2>2. fpEntries' # << >>
    BY <1>7, <2>1, EmptyList
  <2>3. FpTypeOK'
    <3>1. fpNextId' - 1 = n
      BY <1>0
    <3>2. fpEntries' \in Seq(1 .. fpNextId' - 1) /\ IsInjective(fpEntries')
      BY <1>7, <2>1, <3>1
    <3>3. fpTimer' \in BOOLEAN /\ fpLost' \in BOOLEAN
      BY <1>7
    <3> QED  BY <1>0, <1>2, <3>1, <3>2, <3>3 DEF FpInv, FpTypeOK
  <2>4. Range(fpEntries)' = Range(fpEntries) \cup {n}
    BY <1>7, <2>1
  <2>5. PollExact'
    BY <1>0, <1>1, <1>3, <1>7, <2>2, <2>4 DEF FpInv, PollExact
  <2> QED  BY <2>3, <2>5 DEF FpInv
<1> QED  BY <1>5, <1>6, <1>7

\* loopyFSPollStop
LEMMA PollStopStep ==
  ASSUME FpInv, NEW e \in 1 .. FpMaxId, PollStop(e)
  PROVE  FpInv'
<1>1. /\ e \in Range(fpEntries) /\ e # fpCur
      /\ fpEntries' = RemoveFirst(fpEntries, e)
      /\ fpTimer' = (fpTimer /\ fpEntries' # << >>)
      /\ UNCHANGED <<fpDisk, fpSeen, fpFile, fpNextId, fpCur, fpNew, fpTold, fpLost>>
  BY DEF PollStop
<1>2. /\ fpEntries' \in Seq(1 .. fpNextId - 1) /\ IsInjective(fpEntries')
      /\ Range(fpEntries') = Range(fpEntries) \ {e}
  BY <1>1, UnlinkOne DEF FpInv, FpTypeOK
<1>3. fpEntries' # << >> => fpEntries # << >>
  BY <1>1, EmptyList DEF FpInv, FpTypeOK
<1>4. Range(fpEntries)' = Range(fpEntries) \ {e}
  BY <1>2
<1>5. FpTypeOK'
  BY <1>1, <1>2 DEF FpInv, FpTypeOK
<1>6. PollExact'
  BY <1>1, <1>3, <1>4 DEF FpInv, PollExact, FpTypeOK
<1> QED  BY <1>5, <1>6 DEF FpInv

\* The timer's callback goes to an entry that is listed, or to none.
LEMMA NextEntryListed ==
  ASSUME FpInv, fpCur \in Range(fpEntries)
  PROVE  NextEntry(fpCur) = 0 \/ NextEntry(fpCur) \in Range(fpEntries) \ {fpCur}
<1> DEFINE i == CHOOSE j \in DOMAIN fpEntries : fpEntries[j] = fpCur
           n == Len(fpEntries)
<1>1. n \in Nat /\ DOMAIN fpEntries = 1 .. n
  BY LenProperties DEF FpInv, FpTypeOK
<1>2. i \in 1 .. n /\ fpEntries[i] = fpCur
  BY <1>1 DEF Range
<1>3. NextEntry(fpCur) = IF i = n THEN 0 ELSE fpEntries[i + 1]
  BY DEF NextEntry
<1> HIDE DEF i, n
<1>4. i # n => i + 1 \in 1 .. n /\ i + 1 # i
  BY <1>1, <1>2
<1>5. i # n => fpEntries[i + 1] # fpCur
  BY <1>1, <1>2, <1>4 DEF FpInv, FpTypeOK, IsInjective
<1> QED  BY <1>1, <1>3, <1>4, <1>5 DEF Range

\* pollTimerCallback looks at an entry after it has kept what it saw of the one
\* before.
LEMMA LookStep ==
  ASSUME FpTypeOK, NEW e, e = 0 \/ e \in Range(fpEntries), Look(e),
         fpSeen' \in Seq(FpStates), Len(fpSeen') = fpNextId - 1,
         \A k \in Range(fpEntries) : fpSeen'[k] = fpTold[k],
         e # 0 => fpSeen'[e] = fpSeen[e],
         fpTimer => fpEntries # << >>, fpEntries # << >> => fpTimer \/ fpLost,
         UNCHANGED <<fpDisk, fpEntries, fpFile, fpNextId, fpTimer, fpLost>>
  PROVE  FpInv'
<1>1. Range(fpEntries) \subseteq 1 .. fpNextId - 1 /\ fpNextId \in Nat
  BY NewEntry DEF FpTypeOK
<1>2. fpCur' = e /\ e \in Nat /\ Range(fpEntries)' = Range(fpEntries)
  BY <1>1 DEF Look
<1>3. CASE e = 0
  <2>1. UNCHANGED <<fpNew, fpTold>>
    BY <1>3 DEF Look
  <2> QED  BY <1>2, <1>3, <2>1 DEF FpInv, FpTypeOK, PollExact
<1>4. CASE e # 0
  <2>1. e \in 1 .. fpNextId - 1 /\ fpFile[e] \in FpFiles
    BY <1>1, <1>4 DEF FpTypeOK
  <2>2. fpNew' \in FpStates
    BY <1>4, <2>1 DEF Look, FpTypeOK
  <2>3. /\ fpTold' \in Seq(FpStates) /\ Len(fpTold') = fpNextId - 1
        /\ \A k \in Range(fpEntries) : k # e => fpTold'[k] = fpTold[k]
        /\ fpTold'[e] = IF fpNew' # fpSeen[e] THEN fpNew' ELSE fpTold[e]
    <3>1. fpTold' = IF fpNew' # fpSeen[e] THEN [fpTold EXCEPT ![e] = fpNew'] ELSE fpTold
      BY <1>4 DEF Look
    <3>2. fpTold \in Seq(FpStates) /\ Len(fpTold) = fpNextId - 1
      BY DEF FpTypeOK
    <3>3. /\ [fpTold EXCEPT ![e] = fpNew'] \in Seq(FpStates)
          /\ Len([fpTold EXCEPT ![e] = fpNew']) = Len(fpTold)
      BY <2>1, <2>2, <3>2, ExceptSeq
    <3> QED  BY <1>1, <2>1, <3>1, <3>2, <3>3
  <2>4. fpTold'[e] = fpNew'
    BY <1>4, <2>3
  <2>5. FpTypeOK'
    BY <1>2, <2>2, <2>3 DEF FpTypeOK
  <2>6. PollExact'
    BY <1>2, <1>4, <2>3, <2>4 DEF PollExact
  <2> QED  BY <2>5, <2>6 DEF FpInv
<1> QED  BY <1>3, <1>4

LEMMA FpStep == FpInv /\ [FpNext]_fpVars => FpInv'
<1> SUFFICES ASSUME FpInv, [FpNext]_fpVars
             PROVE  FpInv'
  OBVIOUS
<1>1. ASSUME NEW f \in FpFiles, NEW s \in FpStates, DiskChange(f, s)
      PROVE  FpInv'
  BY <1>1 DEF DiskChange, FpInv, FpTypeOK, PollExact
<1>2. ASSUME NEW ok \in BOOLEAN, SetInterval(ok)
      PROVE  FpInv'
  BY <1>2 DEF SetInterval, FpInv, FpTypeOK, PollExact
<1>3. CASE PollStopAll \/ PollFree
  <2>1. << >> \in Seq(1 .. fpNextId - 1) /\ IsInjective(<< >>) /\ Range(<< >>) = {}
    BY DEF IsInjective, Range
  <2>2. CASE PollStopAll
    <3>1. fpEntries' = << >> /\ Range(fpEntries)' = {} /\ fpCur' = 0
      BY <2>1, <2>2 DEF PollStopAll
    <3> QED  BY <2>1, <2>2, <3>1 DEF PollStopAll, FpInv, FpTypeOK, PollExact
  <2>3. CASE PollFree
    <3>1. fpEntries' = << >> /\ Range(fpEntries)' = {} /\ fpCur' = 0
      BY <2>1, <2>3 DEF PollFree
    <3>2. Len(<< >>) = 1 - 1 /\ << >> \in Seq(1 .. 1 - 1) /\ << >> \in Seq(FpStates) /\ << >> \in Seq(FpFiles)
      OBVIOUS
    <3>3. FpTypeOK'
      <4>1. /\ fpSeen' = << >> /\ fpTold' = << >> /\ fpFile' = << >> /\ fpEntries' = << >>
            /\ fpNextId' = 1 /\ fpTimer' = FALSE /\ fpLost' = FALSE /\ UNCHANGED <<fpDisk, fpCur, fpNew>>
        BY <2>3 DEF PollFree
      <4>2. /\ fpSeen' \in Seq(FpStates) /\ fpTold' \in Seq(FpStates) /\ fpFile' \in Seq(FpFiles)
            /\ Len(fpSeen') = fpNextId' - 1 /\ Len(fpTold') = fpNextId' - 1 /\ Len(fpFile') = fpNextId' - 1
        BY <3>2, <4>1, Zenon
      <4>3. fpEntries' \in Seq(1 .. fpNextId' - 1) /\ IsInjective(fpEntries')
        BY <2>1, <3>2, <4>1, Zenon
      <4>4. /\ fpDisk' \in [FpFiles -> FpStates] /\ fpNextId' \in Nat \ {0}
            /\ fpTimer' \in BOOLEAN /\ fpLost' \in BOOLEAN /\ fpCur' \in Nat /\ fpNew' \in FpStates
        <5>1. /\ fpNextId' = 1 /\ fpTimer' = FALSE /\ fpLost' = FALSE
              /\ fpDisk' = fpDisk /\ fpCur' = fpCur /\ fpNew' = fpNew
          BY <4>1, Zenon
        <5>2. fpTimer' \in BOOLEAN /\ fpLost' \in BOOLEAN
          BY <5>1, Zenon
        <5>3. fpNextId' \in Nat \ {0}
          BY <5>1
        <5> QED  BY <5>1, <5>2, <5>3, Zenon DEF FpInv, FpTypeOK
      <4> QED  BY <4>2, <4>3, <4>4 DEF FpTypeOK
    <3> QED  BY <2>3, <3>1, <3>3 DEF PollFree, FpInv, PollExact
  <2> QED  BY <1>3, <2>2, <2>3
<1>4. CASE PollTimer
  <2>1. /\ fpTimer /\ fpCur = 0 /\ Look(FirstEntry(fpEntries))
        /\ UNCHANGED <<fpDisk, fpEntries, fpSeen, fpFile, fpNextId, fpTimer, fpLost>>
    BY <1>4 DEF PollTimer
  <2>2. FirstEntry(fpEntries) = 0 \/ FirstEntry(fpEntries) \in Range(fpEntries)
    BY DEF FirstEntry, FpInv, FpTypeOK, Range
  <2>3. Range(fpEntries) \subseteq 1 .. fpNextId - 1 /\ fpNextId \in Nat
    BY NewEntry DEF FpInv, FpTypeOK
  <2>4. \A k \in Range(fpEntries) : fpSeen'[k] = fpTold[k]
    BY <2>1, <2>3 DEF FpInv, PollExact
  <2> HIDE DEF FirstEntry
  <2> QED  BY <2>1, <2>2, <2>4, LookStep DEF FpInv, FpTypeOK, PollExact
<1>5. CASE PollAdvance
  <2>1. /\ fpCur # 0 /\ Look(NextEntry(fpCur)) /\ fpSeen' = [fpSeen EXCEPT ![fpCur] = fpNew]
        /\ UNCHANGED <<fpDisk, fpEntries, fpFile, fpNextId, fpTimer, fpLost>>
    BY <1>5 DEF PollAdvance
  <2>2. fpCur \in Range(fpEntries) /\ fpTold[fpCur] = fpNew
    BY <2>1 DEF FpInv, PollExact
  <2>3. Range(fpEntries) \subseteq 1 .. fpNextId - 1 /\ fpNextId \in Nat
    BY NewEntry DEF FpInv, FpTypeOK
  <2>4. fpSeen \in Seq(FpStates) /\ Len(fpSeen) = fpNextId - 1 /\ fpNew \in FpStates
    BY DEF FpInv, FpTypeOK
  <2>5. fpSeen' \in Seq(FpStates) /\ Len(fpSeen') = fpNextId - 1
    BY <2>1, <2>2, <2>3, <2>4, ExceptSeq
  <2>6. \A k \in Range(fpEntries) : fpSeen'[k] = IF k = fpCur THEN fpNew ELSE fpSeen[k]
    BY <2>1, <2>3, <2>4
  <2>7. \A k \in Range(fpEntries) : fpSeen'[k] = fpTold[k]
    BY <2>2, <2>6 DEF FpInv, PollExact
  <2>8. NextEntry(fpCur) = 0 \/ NextEntry(fpCur) \in Range(fpEntries) \ {fpCur}
    BY <2>2, NextEntryListed
  <2>9. NextEntry(fpCur) # 0 => fpSeen'[NextEntry(fpCur)] = fpSeen[NextEntry(fpCur)]
    BY <2>6, <2>8
  <2> DEFINE e == NextEntry(fpCur)
  <2>10. e = 0 \/ e \in Range(fpEntries)
    BY <2>8
  <2> HIDE DEF e
  <2> QED  BY <2>1, <2>5, <2>7, <2>9, <2>10, LookStep DEF FpInv, PollExact, e
<1>6. CASE UNCHANGED fpVars
  BY <1>6 DEF fpVars, FpInv, FpTypeOK, PollExact
<1> QED  BY <1>1, <1>2, <1>3, <1>4, <1>5, <1>6, PollStartStep, PollStopStep DEF FpNext

LEMMA FpInitOK == FpInit => FpInv
<1> SUFFICES ASSUME FpInit
             PROVE  FpInv
  OBVIOUS
<1>1. << >> \in Seq(1 .. fpNextId - 1) /\ IsInjective(<< >>) /\ Range(<< >>) = {}
  BY DEF IsInjective, Range
<1>2. fpEntries = << >> /\ Range(fpEntries) = {} /\ fpCur = 0
  BY <1>1 DEF FpInit
<1>3. Len(<< >>) = 1 - 1 /\ << >> \in Seq(1 .. 1 - 1) /\ << >> \in Seq(FpStates) /\ << >> \in Seq(FpFiles)
  OBVIOUS
<1>4. FpTypeOK
  <2>1. /\ fpSeen = << >> /\ fpTold = << >> /\ fpFile = << >> /\ fpEntries = << >>
        /\ fpNextId = 1 /\ fpTimer = FALSE /\ fpLost = FALSE /\ fpCur = 0 /\ fpNew = Absent
        /\ fpDisk \in [FpFiles -> FpStates]
    BY DEF FpInit
  <2>2. /\ fpSeen \in Seq(FpStates) /\ fpTold \in Seq(FpStates) /\ fpFile \in Seq(FpFiles)
        /\ Len(fpSeen) = fpNextId - 1 /\ Len(fpTold) = fpNextId - 1 /\ Len(fpFile) = fpNextId - 1
    BY <1>3, <2>1, Zenon
  <2>3. fpEntries \in Seq(1 .. fpNextId - 1) /\ IsInjective(fpEntries)
    BY <1>1, <1>3, <2>1, Zenon
  <2>4. fpNextId \in Nat \ {0} /\ fpTimer \in BOOLEAN /\ fpLost \in BOOLEAN /\ fpCur \in Nat
    <3>1. fpNextId = 1 /\ fpTimer = FALSE /\ fpLost = FALSE /\ fpCur = 0
      BY <2>1, Zenon
    <3>2. fpTimer \in BOOLEAN /\ fpLost \in BOOLEAN
      BY <3>1, Zenon
    <3>3. fpNextId \in Nat \ {0} /\ fpCur \in Nat
      BY <3>1
    <3> QED  BY <3>2, <3>3
  <2>5. fpNew \in FpStates
    BY <2>1, FpAssumption
  <2> QED  BY <2>1, <2>2, <2>3, <2>4, <2>5, Zenon DEF FpTypeOK
<1> QED  BY <1>2, <1>4 DEF FpInit, FpInv, PollExact

-----------------------------------------------------------------------------
(* File locks                                                               *)

FkTypeOK ==
  /\ fkPath \in Nat /\ fkMade \in Nat
  /\ fkFile \in [FkProcs -> Nat]
  /\ fkLock \in [FkProcs -> {"none", "shared", "exclusive"}]
  /\ fkWant \in [FkProcs -> {"none", "shared", "exclusive"}]
  /\ fkHandle \in [FkProcs -> {"none", "plain", "lockfile", "unlinked"}]
  /\ fkValid \subseteq FkProcs /\ fkMine \subseteq FkProcs

\* FlockExact is inductive with what a call in progress has: a handle whose
\* lock is still asked for has none, and a lock file asks once, for an
\* exclusive one.
FkInv ==
  /\ FkTypeOK
  /\ FlockExact
  /\ \A p \in FkProcs :
       /\ fkFile[p] # 0 <=> p \in fkMine \/ fkHandle[p] # "none"
       /\ p \in fkMine <=> fkFile[p] # 0 /\ fkHandle[p] \in {"none", "plain"}
       /\ fkHandle[p] = "none" => fkWant[p] = "none"
       /\ p \notin fkValid \/ fkWant[p] # "none" => fkLock[p] = "none"
       /\ fkHandle[p] = "lockfile" => fkWant[p] \in {"none", "exclusive"}
       /\ fkHandle[p] \in {"lockfile", "unlinked"} /\ p \in fkValid => fkWant[p] = "none"
       /\ fkHandle[p] = "unlinked" => p \in fkValid

\* Every call of loopyFlock.c and every answer of flock() keeps the invariant.
LEMMA FkStep == FkInv /\ [FkNext]_fkVars => FkInv'
<1> SUFFICES ASSUME FkInv, [FkNext]_fkVars
             PROVE  FkInv'
  OBVIOUS
<1> USE DEF FkInv, FkTypeOK, FlockExact
<1>1. ASSUME NEW p \in FkProcs, OpenPath(p)
      PROVE  /\ fkPath' \in Nat \ {0} /\ fkMade' \in Nat
             /\ fkFile[p] = 0 /\ fkFile' = [fkFile EXCEPT ![p] = fkPath']
  BY <1>1 DEF OpenPath
<1>8. ASSUME NEW p \in FkProcs, OpenOwn(p)
      PROVE  FkInv'
  BY <1>1, <1>8 DEF OpenOwn
<1>9. ASSUME NEW p \in FkProcs, CloseOwn(p)
      PROVE  FkInv'
  BY <1>9 DEF CloseOwn
<1>10. ASSUME NEW p \in FkProcs, NewLockfile(p)
       PROVE  FkInv'
  BY <1>1, <1>10 DEF NewLockfile
<1>11. ASSUME NEW p \in FkProcs, NEW type \in {"shared", "exclusive"}, FlockNew(p, type)
       PROVE  FkInv'
  BY <1>11 DEF FlockNew
<1>2. ASSUME NEW p \in FkProcs, FlockGranted(p)
      PROVE  FkInv'
  BY <1>2 DEF FlockGranted, Grantable
<1>3. ASSUME NEW p \in FkProcs, FlockFails(p)
      PROVE  FkInv'
  BY <1>3 DEF FlockFails
<1>4. ASSUME NEW p \in FkProcs, NEW type \in {"shared", "exclusive"}, Convert(p, type)
      PROVE  FkInv'
  BY <1>4 DEF Convert
<1>5. ASSUME NEW p \in FkProcs, Unlink(p)
      PROVE  FkInv'
  BY <1>5 DEF Unlink
<1>6. ASSUME NEW p \in FkProcs, FlockFree(p)
      PROVE  FkInv'
  BY <1>6 DEF FlockFree
<1>7. CASE UNCHANGED fkVars
  BY <1>7 DEF fkVars
<1> HIDE DEF FkInv, FkTypeOK, FlockExact
<1> QED  BY <1>2, <1>3, <1>4, <1>5, <1>6, <1>7, <1>8, <1>9, <1>10, <1>11 DEF FkNext

LEMMA FkInitOK == FkInit => FkInv
  BY DEF FkInit, FkInv, FkTypeOK, FlockExact

\* Events go to the watch they were made for, and watches are alive in the kernel
\* unless their descriptor was shared or their file deleted; what a polled entry
\* compares with is what its owner was told last; a process without a handle has
\* no lock: for any number of files, slots, entries and processes, whatever
\* callbacks and other processes do in between (loopyWatch.c, loopyFSPoll.c,
\* loopyFlock.c).
THEOREM FilesAreExact == WtSpec /\ FpSpec /\ FkSpec => []FilesExact
<1>1. WtInv /\ FpInv /\ FkInv => FilesExact
  BY DEF WtInv, FpInv, FkInv, FilesExact
<1> QED  BY <1>1, WtInitOK, WtStep, FpInitOK, FpStep, FkInitOK, FkStep, PTL DEF WtSpec, FpSpec, FkSpec

-----------------------------------------------------------------------------
(* Streams                                                                  *)

StRequest == [id : StIds, left : Nat, fds : BOOLEAN]

\* Requests have been numbered in the order of the calls; the queue holds the
\* last of them and what has been sent came before.
StOrderInv ==
  /\ stNext \in Nat \ {0}
  /\ stQueue \in Seq(StRequest) /\ stSent \in Seq(StIds)
  /\ \A k \in 1 .. Len(stQueue) : stQueue[k].id < stNext
  /\ \A j, k \in 1 .. Len(stQueue) : j < k => stQueue[j].id < stQueue[k].id
  /\ \A j \in 1 .. Len(stSent) : stSent[j] < stNext
  /\ \A j, k \in 1 .. Len(stSent) : j < k => stSent[j] <= stSent[k]
  /\ \A j \in 1 .. Len(stSent), k \in 1 .. Len(stQueue) : stSent[j] <= stQueue[k].id
  /\ stFdsSent \subseteq StIds /\ \A i \in stFdsSent : i < stNext
  /\ \A k \in 1 .. Len(stQueue) : stQueue[k].fds => stQueue[k].id \notin stFdsSent
  /\ stSize = StRemaining

\* Nothing that waits has been reported, except what a drain is past; only a
\* stream that was closed in a drain's callback reports twice.
StCallsInv ==
  /\ stCalls \in [StIds -> Nat]
  /\ \A i \in StIds : i >= stNext => stCalls[i] = 0
  /\ ~(stClosed /\ stFrame = "drain") => \A i \in StIds : stCalls[i] <= 1
  /\ stFrame # "drain" => \A k \in 1 .. Len(stQueue) : stCalls[stQueue[k].id] = 0
  /\ stFrame = "drain" /\ ~stClosed =>
       /\ stDrain.at \in 1 .. Len(stQueue)
       /\ stDrain.more => stDrain.at < Len(stQueue)
       /\ \A k \in 1 .. Len(stQueue) : k > stDrain.at => stCalls[stQueue[k].id] = 0

\* What waits is watched or known to be lost, inside callbacks too.
StWatchInv ==
  /\ ~stClosed /\ ~stFailed /\ (stQueue # << >> \/ stShutdownPending) => "write" \in stWatch \cup stLost
  /\ stReading => "read" \in stWatch \cup stLost
  /\ "read" \in stWatch => stReading
  /\ ~stWritable => stQueue = << >>

StInv == StOrderInv /\ StCallsInv /\ StWatchInv

LEMMA StTyped ==
  ASSUME StOrderInv
  PROVE  /\ Len(stQueue) \in Nat /\ DOMAIN stQueue = 1 .. Len(stQueue)
         /\ Len(stSent) \in Nat /\ DOMAIN stSent = 1 .. Len(stSent)
         /\ \A k \in 1 .. Len(stQueue) : /\ stQueue[k] \in StRequest /\ stQueue[k].id \in StIds
                                         /\ stQueue[k].id \in Nat /\ stQueue[k].left \in Nat
                                         /\ stQueue[k].fds \in BOOLEAN
         /\ \A j \in 1 .. Len(stSent) : stSent[j] \in StIds /\ stSent[j] \in Nat
<1>1. stQueue \in Seq(StRequest) /\ stSent \in Seq(StIds)
  BY DEF StOrderInv
<1>2. /\ Len(stQueue) \in Nat /\ DOMAIN stQueue = 1 .. Len(stQueue)
      /\ Len(stSent) \in Nat /\ DOMAIN stSent = 1 .. Len(stSent)
      /\ \A k \in 1 .. Len(stQueue) : stQueue[k] \in StRequest
      /\ \A j \in 1 .. Len(stSent) : stSent[j] \in StIds
  BY <1>1
<1>3. \A i \in StIds : i \in Nat
  BY StAssumption DEF StIds
<1> QED  BY <1>2, <1>3 DEF StRequest

LEMMA StOrderSame ==
  ASSUME StOrderInv, UNCHANGED <<stQueue, stSent, stFdsSent, stNext, stSize>>
  PROVE  StOrderInv'
  BY DEF StOrderInv, StRemaining

LEMMA StOrderClear ==
  ASSUME StOrderInv, stQueue' = << >>, stSize' = 0, UNCHANGED <<stSent, stFdsSent, stNext>>
  PROVE  StOrderInv'
<1>1. stQueue' \in Seq(StRequest) /\ Len(stQueue') = 0 /\ DOMAIN stQueue' = {}
  OBVIOUS
<1>2. 1 .. 0 = {}
  OBVIOUS
<1>3. StRemaining' = 0
  <2> DEFINE f == [k \in DOMAIN stQueue' |-> stQueue'[k].left]
  <2>1. StRemaining' = SumFunctionOnSet(f, {})
    BY <1>1 DEF StRemaining, SumFunction
  <2> HIDE DEF f
  <2> QED  BY <2>1, SumEmpty
<1> QED  BY <1>1, <1>2, <1>3 DEF StOrderInv

\* loopyStreamWrite
LEMMA StOrderWrite ==
  ASSUME StOrderInv, NEW n \in StSizes, NEW fds \in BOOLEAN, Write(n, fds)
  PROVE  StOrderInv'
<1> USE StAssumption
<1> DEFINE q == stQueue
           N == Len(q)
           r == [id |-> stNext, left |-> n, fds |-> fds]
<1>1. /\ stNext \in StIds /\ stQueue' = Append(q, r) /\ stSize' = stSize + n /\ stNext' = stNext + 1
      /\ stSent' = stSent /\ stFdsSent' = stFdsSent
  BY DEF Write
<1>2. /\ N \in Nat /\ DOMAIN q = 1 .. N /\ q \in Seq(StRequest)
      /\ \A k \in 1 .. N : q[k].left \in Nat /\ q[k].id \in Nat
      /\ Len(stSent) \in Nat
      /\ \A j \in 1 .. Len(stSent) : stSent[j] \in Nat
  BY StTyped DEF StOrderInv
<1>3. r \in StRequest /\ r.id = stNext /\ r.left = n /\ n \in Nat
  BY <1>1 DEF StRequest
<1> HIDE DEF r
<1>4. /\ stQueue' \in Seq(StRequest) /\ Len(stQueue') = N + 1 /\ stQueue'[N + 1] = r
      /\ \A k \in 1 .. N : stQueue'[k] = q[k]
      /\ DOMAIN stQueue' = 1 .. N + 1
  <2>1. DOMAIN stQueue' = 1 .. Len(stQueue')
    BY <1>1, <1>2, <1>3
  <2> QED  BY <1>1, <1>2, <1>3, <2>1
<1>5. StRemaining' = StRemaining + n
  <2> DEFINE f == [k \in DOMAIN q |-> q[k].left]
             g == [k \in DOMAIN stQueue' |-> stQueue'[k].left]
             S == 1 .. N
  <2>1. StRemaining = SumFunctionOnSet(f, S) /\ StRemaining' = SumFunctionOnSet(g, 1 .. N + 1)
    BY <1>2, <1>4 DEF StRemaining, SumFunction
  <2>2. /\ \A k \in S : f[k] = g[k] /\ f[k] \in Int /\ g[k] \in Int
        /\ g[N + 1] = n /\ g[N + 1] \in Int
    BY <1>2, <1>3, <1>4
  <2>3. IsFiniteSet(S) /\ S \cup {N + 1} = 1 .. N + 1 /\ N + 1 \notin S
    <3>1. IsFiniteSet(S)
      BY <1>2, FS_Interval
    <3>2. N \in Nat
      BY <1>2
    <3> HIDE DEF N
    <3>3. S \cup {N + 1} = 1 .. N + 1 /\ N + 1 \notin S
      BY <3>2
    <3> QED  BY <3>1, <3>3
  <2> HIDE DEF f, g, S, N
  <2>4. SumFunctionOnSet(g, S \cup {N + 1}) = SumFunctionOnSet(g, S) + g[N + 1]
    BY <2>2, <2>3, SumAdd
  <2>5. SumFunctionOnSet(f, S) = SumFunctionOnSet(g, S)
    BY <2>2, <2>3, SumSame
  <2> QED  BY <2>1, <2>2, <2>3, <2>4, <2>5
<1>6. /\ \A k \in 1 .. N : q[k].id < stNext
      /\ \A j, k \in 1 .. N : j < k => q[j].id < q[k].id
      /\ \A j \in 1 .. Len(stSent) : stSent[j] < stNext
      /\ \A j \in 1 .. Len(stSent), k \in 1 .. N : stSent[j] <= q[k].id
      /\ stFdsSent \subseteq StIds /\ \A i \in stFdsSent : i < stNext
      /\ \A k \in 1 .. N : q[k].fds => q[k].id \notin stFdsSent
      /\ stNext \in Nat \ {0}
      /\ \A j, k \in 1 .. Len(stSent) : j < k => stSent[j] <= stSent[k]
      /\ stSize = StRemaining /\ stSent \in Seq(StIds)
  BY DEF StOrderInv
<1> HIDE DEF q, N
<1>7. \A k \in 1 .. N + 1 : stQueue'[k].id < stNext + 1
  BY <1>2, <1>3, <1>4, <1>6
<1>8. \A j, k \in 1 .. N + 1 : j < k => stQueue'[j].id < stQueue'[k].id
  BY <1>2, <1>3, <1>4, <1>6
<1>9. \A j \in 1 .. Len(stSent) : stSent[j] < stNext + 1
  BY <1>2, <1>6
<1>10. \A j \in 1 .. Len(stSent), k \in 1 .. N + 1 : stSent[j] <= stQueue'[k].id
  BY <1>2, <1>3, <1>4, <1>6
<1>11. \A i \in stFdsSent : i < stNext + 1
  <2>1. \A i \in stFdsSent : i \in Nat
    BY <1>6 DEF StIds
  <2> QED  BY <1>6, <2>1
<1>12. \A k \in 1 .. N + 1 : stQueue'[k].fds => stQueue'[k].id \notin stFdsSent
  <2>1. stNext \notin stFdsSent
    BY <1>6
  <2> QED  BY <1>2, <1>3, <1>4, <1>6, <2>1
<1> QED  BY <1>1, <1>4, <1>5, <1>6, <1>7, <1>8, <1>9, <1>10, <1>11, <1>12, SMTT(30) DEF StOrderInv

\* loopyStreamTryWrite
LEMMA StOrderTryWrite ==
  ASSUME StOrderInv, TryWrite
  PROVE  StOrderInv'
<1>1. /\ stNext \in StIds /\ stQueue = << >> /\ stNext' = stNext + 1
      /\ stSent' = Append(stSent, stNext)
      /\ stQueue' = stQueue /\ stFdsSent' = stFdsSent /\ stSize' = stSize
  BY DEF TryWrite
<1> DEFINE s == stSent
           M == Len(s)
<1>2. /\ M \in Nat /\ s \in Seq(StIds) /\ stQueue \in Seq(StRequest)
      /\ \A j \in 1 .. M : s[j] \in Nat /\ s[j] < stNext
      /\ \A j, k \in 1 .. M : j < k => s[j] <= s[k]
      /\ stFdsSent \subseteq StIds /\ \A i \in stFdsSent : i < stNext
      /\ stSize = StRemaining /\ stNext \in Nat \ {0}
  BY StTyped DEF StOrderInv
<1>3. /\ stSent' \in Seq(StIds) /\ Len(stSent') = M + 1 /\ stSent'[M + 1] = stNext
      /\ \A j \in 1 .. M : stSent'[j] = s[j]
  BY <1>1, <1>2
<1>4. Len(stQueue') = 0 /\ 1 .. 0 = {} /\ StRemaining' = StRemaining
  BY <1>1 DEF StRemaining
<1> HIDE DEF s, M
<1>5. \A j \in 1 .. M + 1 : stSent'[j] < stNext + 1
  BY <1>2, <1>3
<1>6. \A j, k \in 1 .. M + 1 : j < k => stSent'[j] <= stSent'[k]
  BY <1>2, <1>3
<1>7. \A i \in stFdsSent : i < stNext + 1
  BY <1>2, StAssumption DEF StIds
<1> QED  BY <1>1, <1>2, <1>3, <1>4, <1>5, <1>6, <1>7 DEF StOrderInv

\* The bytes that streamWriteCallback passes to the kernel belong to the first
\* request, which nothing that has been sent is after.
LEMMA StSentFirst ==
  ASSUME StOrderInv, stQueue # << >>, stSent' = Append(stSent, stQueue[1].id)
  PROVE  /\ stSent' \in Seq(StIds) /\ Len(stSent') = Len(stSent) + 1
         /\ \A j \in 1 .. Len(stSent) + 1 : /\ stSent'[j] < stNext
                                            /\ \A k \in 1 .. Len(stQueue) : stSent'[j] <= stQueue[k].id
         /\ \A j, k \in 1 .. Len(stSent) + 1 : j < k => stSent'[j] <= stSent'[k]
<1> DEFINE s == stSent
           M == Len(s)
           N == Len(stQueue)
           x == stQueue[1].id
<1>1. N \in Nat \ {0} /\ 1 \in 1 .. N
  BY DEF StOrderInv
<1>2. /\ M \in Nat /\ s \in Seq(StIds) /\ x \in StIds /\ x \in Nat /\ x < stNext
      /\ \A j \in 1 .. M : s[j] \in Nat /\ s[j] < stNext /\ s[j] <= x
      /\ \A j, k \in 1 .. M : j < k => s[j] <= s[k]
      /\ \A j \in 1 .. M, k \in 1 .. N : s[j] <= stQueue[k].id
      /\ \A k \in 1 .. N : stQueue[k].id \in Nat /\ (1 < k => x < stQueue[k].id)
  BY <1>1, StTyped DEF StOrderInv
<1> HIDE DEF x
<1>3. /\ stSent' \in Seq(StIds) /\ Len(stSent') = M + 1 /\ stSent'[M + 1] = x
      /\ \A j \in 1 .. M : stSent'[j] = s[j]
  BY <1>2 DEF x
<1> HIDE DEF s, M, N
<1>4. \A k \in 1 .. N : x <= stQueue[k].id
  BY <1>1, <1>2 DEF x
<1>8. \A j \in 1 .. M : s[j] \in Nat /\ s[j] <= x /\ M \in Nat /\ x \in Nat
  BY <1>2
<1>9. \A j, k \in 1 .. M : j < k => s[j] <= s[k]
  BY <1>2
<1>5. \A j \in 1 .. M + 1 : stSent'[j] < stNext /\ \A k \in 1 .. N : stSent'[j] <= stQueue[k].id
  BY <1>2, <1>3, <1>4
<1>6. ASSUME NEW j \in 1 .. M + 1, NEW k \in 1 .. M + 1, j < k
      PROVE  stSent'[j] <= stSent'[k]
  <2>0. M \in Nat
    BY <1>2
  <2>1. j \in 1 .. M /\ (k \in 1 .. M \/ k = M + 1)
    BY <1>6, <2>0
  <2>2. stSent'[j] = s[j]
    BY <1>3, <2>1
  <2>3. CASE k \in 1 .. M
    BY <1>3, <1>6, <1>9, <2>1, <2>2, <2>3
  <2>4. CASE k = M + 1
    BY <1>3, <1>8, <2>1, <2>2, <2>4
  <2> QED  BY <2>1, <2>3, <2>4
<1> QED  BY <1>3, <1>5, <1>6 DEF s, M, N

\* What streamWriteCallback does to the queue: the first request leaves,
LEMMA StSumTail ==
  ASSUME StOrderInv, stQueue # << >>, stQueue' = Tail(stQueue)
  PROVE  StRemaining' = StRemaining - stQueue[1].left
<1> DEFINE q == stQueue
           N == Len(q)
           f == [k \in DOMAIN q |-> q[k].left]
           g == [k \in DOMAIN q' |-> q'[k].left]
<1>1. /\ N \in Nat \ {0} /\ DOMAIN q = 1 .. N /\ q \in Seq(StRequest)
      /\ \A k \in 1 .. N : q[k].left \in Nat
  <2>1. N \in Nat /\ DOMAIN q = 1 .. N /\ q \in Seq(StRequest) /\ \A k \in 1 .. N : q[k].left \in Nat
    BY StTyped DEF StOrderInv
  <2> QED  BY <2>1
<1>2. DOMAIN q' = 1 .. N - 1 /\ \A k \in 1 .. N - 1 : q'[k] = q[k + 1]
  BY <1>1
<1>3. StRemaining = SumFunctionOnSet(f, 1 .. N) /\ StRemaining' = SumFunctionOnSet(g, 1 .. N - 1)
  BY <1>1, <1>2 DEF StRemaining, SumFunction
<1>4. /\ \A k \in 1 .. N : f[k] \in Int /\ f[k] = q[k].left
      /\ \A k \in 1 .. N - 1 : g[k] = f[k + 1] /\ g[k] \in Int
  BY <1>1, <1>2
<1>5. IsFiniteSet(1 .. N)
  BY <1>1, FS_Interval
<1> HIDE DEF f, g, N
<1>6. SumFunctionOnSet(f, 1 .. N) = f[1] + SumFunctionOnSet(f, (1 .. N) \ {1})
  <2> DEFINE S == 1 .. N
  <2>1. IsFiniteSet(S) /\ 1 \in S /\ \A k \in S : f[k] \in Int
    BY <1>1, <1>4, <1>5
  <2> HIDE DEF S
  <2>2. SumFunctionOnSet(f, S) = f[1] + SumFunctionOnSet(f, S \ {1})
    BY <2>1, SumRemove
  <2> QED  BY <2>2 DEF S
<1>7. (1 .. N) \ {1} = 2 .. (N - 1) + 1 /\ N - 1 \in Nat
  BY <1>1
<1>8. SumFunctionOnSet(g, 1 .. N - 1) = SumFunctionOnSet(f, 2 .. (N - 1) + 1)
  BY <1>4, <1>7, SumShift
<1>9. SumFunctionOnSet(f, (1 .. N) \ {1}) \in Int
  <2> DEFINE T == (1 .. N) \ {1}
  <2>1. IsFiniteSet(T) /\ \A k \in T : f[k] \in Int
    BY <1>4, <1>5, FS_Subset
  <2> HIDE DEF T
  <2>2. SumFunctionOnSet(f, T) \in Int
    BY <2>1, SumType
  <2> QED  BY <2>2 DEF T
<1>10. f[1] = q[1].left /\ f[1] \in Int
  BY <1>1, <1>4
<1>11. \A a, b, c, d \in Int : a = b + c /\ d = c => d = a - b
  OBVIOUS
<1>12. SumFunctionOnSet(g, 1 .. N - 1) = SumFunctionOnSet(f, (1 .. N) \ {1})
  BY <1>7, <1>8
<1>13. SumFunctionOnSet(f, 1 .. N) \in Int
  <2>1. \A a, b \in Int : a + b \in Int
    OBVIOUS
  <2> QED  BY <1>6, <1>9, <1>10, <2>1
<1>14. StRemaining' = StRemaining - f[1]
  BY <1>3, <1>6, <1>9, <1>10, <1>11, <1>12, <1>13, Zenon
<1> QED  BY <1>10, <1>14

\* or has fewer bytes left.
LEMMA StSumHead ==
  ASSUME StOrderInv, stQueue # << >>, NEW n \in Nat, n <= stQueue[1].left,
         DOMAIN stQueue' = DOMAIN stQueue, stQueue'[1].left = stQueue[1].left - n,
         \A k \in 2 .. Len(stQueue) : stQueue'[k] = stQueue[k]
  PROVE  StRemaining' = StRemaining - n
<1> DEFINE q == stQueue
           N == Len(q)
           f == [k \in DOMAIN q |-> q[k].left]
           g == [k \in DOMAIN q' |-> q'[k].left]
<1>1. /\ N \in Nat \ {0} /\ DOMAIN q = 1 .. N
      /\ \A k \in 1 .. N : q[k].left \in Nat
  <2>1. N \in Nat /\ DOMAIN q = 1 .. N /\ q \in Seq(StRequest) /\ \A k \in 1 .. N : q[k].left \in Nat
    BY StTyped DEF StOrderInv
  <2> QED  BY <2>1
<1>3. StRemaining = SumFunctionOnSet(f, 1 .. N) /\ StRemaining' = SumFunctionOnSet(g, 1 .. N)
  BY <1>1 DEF StRemaining, SumFunction
<1>4. /\ \A k \in 1 .. N : f[k] \in Int /\ f[k] = q[k].left /\ g[k] = q'[k].left
      /\ \A k \in (1 .. N) \ {1} : g[k] = f[k]
      /\ 1 \in 1 .. N
  BY <1>1
<1>5. IsFiniteSet(1 .. N)
  BY <1>1, FS_Interval
<1>6. f[1] \in Int /\ g[1] = f[1] - n /\ g[1] \in Int
  <2>1. f[1] \in Nat /\ f[1] = q[1].left /\ g[1] = q'[1].left
    BY <1>1, <1>4
  <2>2. q'[1].left = q[1].left - n
    OBVIOUS
  <2> HIDE DEF f, g
  <2> QED  BY <2>1, <2>2
<1> DEFINE S == 1 .. N
<1> HIDE DEF f, g, N, S
<1>7. SumFunctionOnSet(g, S) = SumFunctionOnSet(f, S) - f[1] + g[1]
  <2>1. IsFiniteSet(S) /\ 1 \in S /\ (\A k \in S : f[k] \in Int) /\ \A k \in S \ {1} : g[k] = f[k]
    BY <1>4, <1>5 DEF S
  <2> QED  BY <1>6, <2>1, SumUpdate
<1>8. SumFunctionOnSet(f, S) \in Int
  BY <1>4, <1>5, SumType DEF S
<1> QED  BY <1>3, <1>6, <1>7, <1>8 DEF S

LEMMA StOrderWriteSome ==
  ASSUME StOrderInv, NEW n \in StSizes, WriteSome(n)
  PROVE  StOrderInv'
<1> DEFINE q == stQueue
           N == Len(q)
           r == q[1]
           t == [id |-> r.id, left |-> r.left - n, fds |-> FALSE]
<1>0. n \in Nat
  BY StAssumption
<1>1. /\ N \in Nat \ {0} /\ 1 \in 1 .. N /\ q \in Seq(StRequest) /\ q # << >> /\ Head(q) = r
      /\ r \in StRequest /\ r.id \in StIds /\ r.left \in Nat /\ r.fds \in BOOLEAN
  <2>1. q # << >>
    BY DEF WriteSome
  <2>2. N \in Nat \ {0} /\ 1 \in 1 .. N /\ q \in Seq(StRequest) /\ Head(q) = r
    BY <2>1 DEF StOrderInv
  <2> QED  BY <2>1, <2>2, StTyped
<1>2. /\ n <= r.left /\ stSize' = stSize - n /\ stSent' = Append(stSent, r.id) /\ stNext' = stNext
      /\ stFdsSent' = IF r.fds THEN stFdsSent \cup {r.id} ELSE stFdsSent
      /\ IF n = r.left THEN q' = Tail(q) ELSE q' = <<t>> \o Tail(q)
  BY <1>1 DEF WriteSome
<1>3. /\ stNext \in Nat \ {0} /\ stFdsSent \subseteq StIds /\ \A i \in stFdsSent : i < stNext
      /\ \A k \in 1 .. N : q[k] \in StRequest /\ q[k].id \in Nat /\ q[k].id < stNext
      /\ \A j, k \in 1 .. N : j < k => q[j].id < q[k].id
      /\ \A k \in 1 .. N : q[k].fds => q[k].id \notin stFdsSent
      /\ stSize = StRemaining /\ Len(stSent) \in Nat
  BY StTyped DEF StOrderInv
<1>4. /\ stSent' \in Seq(StIds) /\ Len(stSent') = Len(stSent) + 1
      /\ \A j \in 1 .. Len(stSent) + 1 : stSent'[j] < stNext /\ \A k \in 1 .. N : stSent'[j] <= q[k].id
      /\ \A j, k \in 1 .. Len(stSent) + 1 : j < k => stSent'[j] <= stSent'[k]
  BY <1>1, <1>2, StSentFirst
<1>5. stFdsSent' \subseteq StIds /\ \A i \in stFdsSent' : i < stNext
  BY <1>1, <1>2, <1>3
<1>6. \A k \in 2 .. N : q[k].fds => q[k].id \notin stFdsSent'
  <2> SUFFICES ASSUME NEW k \in 2 .. N, q[k].fds
               PROVE  q[k].id \notin stFdsSent'
    OBVIOUS
  <2>1. k \in 1 .. N /\ 1 < k
    BY <1>1
  <2>2. q[k].id \notin stFdsSent
    BY <1>3, <2>1
  <2>3. r.id < q[k].id /\ r.id \in Nat /\ q[k].id \in Nat
    BY <1>1, <1>3, <2>1
  <2>4. q[k].id # r.id
    BY <2>3
  <2> QED  BY <1>2, <2>2, <2>4
<1>7. CASE n = r.left
  <2>1. q' = Tail(q)
    BY <1>2, <1>7
  <2>2. /\ q' \in Seq(StRequest) /\ Len(q') = N - 1
        /\ \A k \in 1 .. N - 1 : q'[k] = q[k + 1] /\ k + 1 \in 2 .. N /\ k + 1 \in 1 .. N
    BY <1>1, <2>1
  <2>3. StRemaining' = StRemaining - r.left
    BY <1>1, <2>1, StSumTail
  <2> HIDE DEF q, N, r
  <2>4. /\ \A k \in 1 .. N - 1 : q'[k].id < stNext
        /\ \A k \in 1 .. N - 1 : q'[k].fds => q'[k].id \notin stFdsSent'
        /\ \A j \in 1 .. Len(stSent) + 1, k \in 1 .. N - 1 : stSent'[j] <= q'[k].id
    BY <1>3, <1>4, <1>6, <2>2
  <2>5. \A j, k \in 1 .. N - 1 : j < k => q'[j].id < q'[k].id
    <3> SUFFICES ASSUME NEW j \in 1 .. N - 1, NEW k \in 1 .. N - 1, j < k
                 PROVE  q'[j].id < q'[k].id
      OBVIOUS
    <3>1. j + 1 < k + 1
      OBVIOUS
    <3> QED  BY <1>3, <2>2, <3>1
  <2>6. stSize' = StRemaining'
    BY <1>2, <1>3, <1>7, <2>3
  <2>7. stQueue' \in Seq(StRequest) /\ Len(stQueue') = N - 1
    BY <2>2 DEF q
  <2> QED  BY <1>2, <1>3, <1>4, <1>5, <2>4, <2>5, <2>6, <2>7 DEF StOrderInv, q
<1>8. CASE n # r.left
  <2>1. t \in StRequest /\ t.id = r.id /\ t.left = r.left - n /\ t.fds = FALSE
    BY <1>0, <1>1, <1>2 DEF StRequest
  <2>2. q' = <<t>> \o Tail(q)
    BY <1>2, <1>8
  <2> HIDE DEF t
  <2>3. /\ q' \in Seq(StRequest) /\ Len(q') = N /\ q'[1] = t
        /\ \A k \in 2 .. N : q'[k] = q[k] /\ k \in 1 .. N
    <3>1. /\ Tail(q) \in Seq(StRequest) /\ Len(Tail(q)) = N - 1
          /\ \A k \in 1 .. N - 1 : Tail(q)[k] = q[k + 1]
      BY <1>1
    <3>2. /\ q' \in Seq(StRequest) /\ Len(q') = N /\ q'[1] = t
          /\ \A k \in 2 .. N : q'[k] = Tail(q)[k - 1]
      BY <1>1, <2>1, <2>2, <3>1
    <3>3. \A k \in 2 .. N : k - 1 \in 1 .. N - 1 /\ (k - 1) + 1 = k /\ k \in 1 .. N
      BY <1>1
    <3>4. ASSUME NEW k \in 2 .. N
          PROVE  Tail(q)[k - 1] = q[k]
      BY <3>1, <3>3
    <3> QED  BY <3>2, <3>3, <3>4
  <2>4. StRemaining' = StRemaining - n
    <3>1. DOMAIN q' = DOMAIN q
      BY <1>1, <2>3
    <3> QED  BY <1>0, <1>1, <1>2, <2>1, <2>3, <3>1, StSumHead
  <2>5. \A k \in 1 .. N : k = 1 \/ k \in 2 .. N
    BY <1>1
  <2>6. \A k \in 1 .. N : q'[k].id = q[k].id /\ (q'[k].fds => k \in 2 .. N /\ q'[k] = q[k])
    BY <2>1, <2>3, <2>5
  <2> HIDE DEF q, N
  <2>7. /\ \A k \in 1 .. N : q'[k].id < stNext
        /\ \A k \in 1 .. N : q'[k].fds => q'[k].id \notin stFdsSent'
        /\ \A j \in 1 .. Len(stSent) + 1, k \in 1 .. N : stSent'[j] <= q'[k].id
        /\ \A j, k \in 1 .. N : j < k => q'[j].id < q'[k].id
    BY <1>3, <1>4, <1>6, <2>6
  <2>8. stSize' = StRemaining'
    BY <1>2, <1>3, <2>4
  <2>9. stQueue' \in Seq(StRequest) /\ Len(stQueue') = N
    BY <2>3 DEF q
  <2> QED  BY <1>2, <1>3, <1>4, <1>5, <2>7, <2>8, <2>9 DEF StOrderInv, q
<1> QED  BY <1>7, <1>8

\* Every step keeps the order.
LEMMA StOrderStep ==
  ASSUME StOrderInv, StNext
  PROVE  StOrderInv'
<1>1. ASSUME NEW n \in StSizes, NEW fds \in BOOLEAN, Write(n, fds)
      PROVE  StOrderInv'
  BY <1>1, StOrderWrite
<1>2. ASSUME NEW n \in StSizes, WriteSome(n)
      PROVE  StOrderInv'
  BY <1>2, StOrderWriteSome
<1>3. CASE TryWrite
  BY <1>3, StOrderTryWrite
<1>4. ASSUME \/ \E b \in BOOLEAN : ConnectDone(b) \/ ReadReady(b)
             \/ Connect \/ Connect6 \/ ReadStart \/ ReadStop \/ WriteReady \/ WriteBlocked \/ WriteError
             \/ WriteReturn \/ WriteEnd \/ StreamReturn \/ Shutdown
      PROVE  StOrderInv'
  <2>1. UNCHANGED <<stQueue, stSent, stFdsSent, stNext, stSize>>
    BY <1>4, Zenon DEF ConnectDone, ReadReady, Connect, Connect6, ReadStart, ReadStop, WriteReady, WriteBlocked,
       WriteError, WriteReturn, WriteEnd, StreamReturn, Shutdown, stHist
  <2> QED  BY <2>1, StOrderSame
<1>5. CASE DrainReturn
  <2>1. CASE stDrain.more
    <3>1. UNCHANGED <<stQueue, stSent, stFdsSent, stNext, stSize>>
      BY <1>5, <2>1 DEF DrainReturn
    <3> QED  BY <3>1, StOrderSame
  <2>2. CASE ~stDrain.more
    <3>1. stQueue' = << >> /\ stSize' = 0 /\ UNCHANGED <<stSent, stFdsSent, stNext>>
      BY <1>5, <2>2 DEF DrainReturn
    <3> QED  BY <3>1, StOrderClear
  <2> QED  BY <2>1, <2>2
<1>6. CASE Close
  <2>1. stQueue' = << >> /\ stSize' = 0 /\ UNCHANGED <<stSent, stFdsSent, stNext>>
    BY <1>6 DEF Close
  <2> QED  BY <2>1, StOrderClear
<1> QED  BY <1>1, <1>2, <1>3, <1>4, <1>5, <1>6 DEF StNext

\* What streamUpdateWriteWatcher leaves watched.
LEMMA StUpdated ==
  ASSUME NEW w, UpdateWriteWatcher(w)
  PROVE  /\ stQueue' # << >> \/ stShutdownPending' => "write" \in stWatch' \cup stLost'
         /\ "read" \in w <=> "read" \in stWatch'
         /\ "read" \in stLost <=> "read" \in stLost'
  BY DEF UpdateWriteWatcher, Register

\* What waits is watched after every step.
LEMMA StWatchStep ==
  ASSUME StOrderInv, StWatchInv, StNext
  PROVE  StWatchInv'
<1> USE DEF StWatchInv
<1>u. ASSUME NEW w, UpdateWriteWatcher(w), "read" \in w <=> "read" \in stWatch,
             stReading' = stReading, ~stWritable' => stQueue' = << >>
      PROVE  StWatchInv'
  BY <1>u, StUpdated
<1>1. ASSUME NEW n \in StSizes, NEW fds \in BOOLEAN, Write(n, fds)
      PROVE  StWatchInv'
  <2>1. stWritable /\ stWritable' = stWritable /\ stReading' = stReading /\ UpdateWriteWatcher(stWatch)
    BY <1>1, Zenon DEF Write, stRead
  <2> QED  BY <1>u, <2>1
<1>2. ASSUME NEW n \in StSizes, WriteSome(n)
      PROVE  StWatchInv'
  BY <1>2 DEF WriteSome, stConn, stRead, stWatched
<1>3. CASE TryWrite
  BY <1>3 DEF TryWrite, stConn, stRead, stWatched
<1>4. ASSUME NEW b \in BOOLEAN, ConnectDone(b)
      PROVE  StWatchInv'
  <2>1. /\ stReading' = stReading /\ stWritable' = stWritable /\ stQueue' = stQueue
        /\ stShutdownPending' = stShutdownPending /\ stClosed' = stClosed
    BY <1>4, Zenon DEF ConnectDone, stRead
  <2>2. CASE b
    <3>1. UpdateWriteWatcher(stWatch \ {"write"})
      BY <1>4, <2>2, Zenon DEF ConnectDone
    <3> QED  BY <1>u, <2>1, <3>1
  <2>3. CASE ~b
    <3>1. stWatch' = stWatch \ {"write"} /\ stLost' = stLost
      BY <1>4, <2>3, Zenon DEF ConnectDone
    <3>2. stFailed' = ~b
      BY <1>4, Zenon DEF ConnectDone
    <3>3. stFailed'
      BY <2>3, <3>2, Zenon
    <3> QED  BY <2>1, <3>1, <3>3
  <2> QED  BY <2>2, <2>3
<1>5. ASSUME NEW b \in BOOLEAN, ReadReady(b)
      PROVE  StWatchInv'
  BY <1>5, Zenon DEF ReadReady, stConn, stWatched
<1>6. CASE Connect \/ ReadStart \/ ReadStop
  BY <1>6 DEF Connect, ReadStart, ReadStop, Register, stConn, stRead, stWatched
<1>13. CASE Connect6
  <2>1. UNCHANGED <<stClosed, stFailed, stQueue, stReading, stShutdownPending, stWritable>>
    BY <1>13, Zenon DEF Connect6, stRead
  <2>2. \/ stWatch' = {} /\ stLost' = stLost \cup stWatch
        \/ stWatch' = {"write"} /\ stLost' = (stLost \cup stWatch) \ {"write"}
        \/ stWatch' = {} /\ stLost' = stLost \cup stWatch \cup {"write"}
    BY <1>13, Zenon DEF Connect6
  <2> QED  BY <2>1, <2>2
<1>7. CASE WriteReady \/ WriteBlocked \/ WriteError \/ WriteReturn
  BY <1>7 DEF WriteReady, WriteBlocked, WriteError, WriteReturn, stConn, stRead, stWatched
<1>8. CASE WriteEnd
  <2>1. UNCHANGED <<stClosed, stFailed, stQueue, stReading>> /\ stQueue = << >>
    BY <1>8, Zenon DEF WriteEnd, stConn, stRead
  <2>2. CASE stShutdownPending
    <3>1. stShutdownPending' = FALSE /\ UNCHANGED <<stWatch, stLost>>
      BY <1>8, <2>2, Zenon DEF WriteEnd, stWatched
    <3> QED  BY <2>1, <3>1
  <2>3. CASE ~stShutdownPending
    <3>1. UpdateWriteWatcher(stWatch) /\ stWritable' = stWritable
      BY <1>8, <2>3, Zenon DEF WriteEnd
    <3> QED  BY <1>u, <2>1, <3>1
  <2> QED  BY <2>2, <2>3
<1>9. CASE DrainReturn
  <2>1. UNCHANGED <<stClosed, stFailed, stReading, stShutdownPending, stWritable>>
    BY <1>9, Zenon DEF DrainReturn, stConn, stRead
  <2>2. CASE stDrain.more
    <3>1. UNCHANGED <<stQueue, stWatch, stLost>>
      BY <1>9, <2>2, Zenon DEF DrainReturn, stWatched
    <3> QED  BY <2>1, <3>1
  <2>3. CASE ~stDrain.more
    <3>1. UpdateWriteWatcher(stWatch) /\ stQueue' = << >>
      BY <1>9, <2>3, Zenon DEF DrainReturn
    <3> QED  BY <1>u, <2>1, <3>1
  <2> QED  BY <2>2, <2>3
<1>10. CASE StreamReturn
  <2>1. UNCHANGED <<stClosed, stFailed, stQueue, stReading, stShutdownPending, stWritable>>
    BY <1>10, Zenon DEF StreamReturn, stConn, stRead
  <2>2. CASE stFrame = "shutdown"
    <3>1. UpdateWriteWatcher(stWatch)
      BY <1>10, <2>2, Zenon DEF StreamReturn
    <3> QED  BY <1>u, <2>1, <3>1
  <2>3. CASE stFrame # "shutdown"
    <3>1. UNCHANGED <<stWatch, stLost>>
      BY <1>10, <2>3, Zenon DEF StreamReturn, stWatched
    <3> QED  BY <2>1, <3>1
  <2> QED  BY <2>2, <2>3
<1>11. CASE Shutdown
  <2>1. UNCHANGED <<stClosed, stFailed, stQueue, stReading, stWatch, stLost>>
    BY <1>11, Zenon DEF Shutdown, stConn, stRead, stWatched
  <2>2. \/ stQueue # << >> /\ stShutdownPending' = TRUE /\ stWritable' = stWritable
        \/ stQueue = << >> /\ stShutdownPending' = stShutdownPending
    BY <1>11, Zenon DEF Shutdown
  <2> QED  BY <2>1, <2>2
<1>12. CASE Close
  BY <1>12 DEF Close
<1> QED  BY <1>1, <1>2, <1>3, <1>4, <1>5, <1>6, <1>7, <1>8, <1>9, <1>10, <1>11, <1>12, <1>13 DEF StNext

\* What is in the queue is reported by the step that takes it out, and by no
\* other, unless the stream is closed while the queue is drained.
LEMMA StCallsSame ==
  ASSUME StCallsInv, stFrame # "drain", stFrame' # "drain", UNCHANGED <<stCalls, stQueue, stNext>>
  PROVE  StCallsInv'
  BY DEF StCallsInv

LEMMA StCallsStep ==
  ASSUME StOrderInv, StCallsInv, StNext
  PROVE  StCallsInv'
<1> DEFINE q == stQueue
           N == Len(q)
<1>0. /\ N \in Nat /\ q \in Seq(StRequest) /\ stNext \in Nat \ {0}
      /\ \A k \in 1 .. N : q[k].id \in StIds /\ q[k].id \in Nat /\ q[k].id < stNext
      /\ \A j, k \in 1 .. N : j < k => q[j].id < q[k].id
  BY StTyped DEF StOrderInv
<1>d. \A j, k \in 1 .. N : j # k => q[j].id # q[k].id
  <2> HIDE DEF q, N
  <2> SUFFICES ASSUME NEW j \in 1 .. N, NEW k \in 1 .. N, j # k
               PROVE  q[j].id # q[k].id
    OBVIOUS
  <2>1. j < k \/ k < j
    BY <1>0
  <2> QED  BY <1>0, <2>1
<1>c. /\ stCalls \in [StIds -> Nat]
      /\ \A i \in StIds : stCalls[i] <= 1 /\ (i >= stNext => stCalls[i] = 0)
      /\ stFrame # "drain" => \A k \in 1 .. N : stCalls[q[k].id] = 0
      /\ stFrame = "drain" =>
           /\ stDrain.at \in 1 .. N
           /\ stDrain.more => stDrain.at < N
           /\ \A k \in 1 .. N : k > stDrain.at => stCalls[q[k].id] = 0
  <2>1. ~(stClosed /\ stFrame = "drain")
    BY DEF StNext, StMayCall, Write, WriteSome, ConnectDone, ReadReady, TryWrite, Connect, Connect6,
       ReadStart, ReadStop, WriteReady, WriteBlocked, WriteError, WriteReturn, WriteEnd, DrainReturn,
       StreamReturn, Shutdown, Close
  <2> QED  BY <2>1 DEF StCallsInv
<1>i. \A i \in StIds : i \in Nat
  BY StAssumption DEF StIds
<1>1. ASSUME NEW n \in StSizes, NEW fds \in BOOLEAN, Write(n, fds)
      PROVE  StCallsInv'
  <2> DEFINE r == [id |-> stNext, left |-> n, fds |-> fds]
  <2>1. /\ stNext \in StIds /\ stQueue' = Append(q, r) /\ stNext' = stNext + 1
        /\ stCalls' = stCalls /\ stFrame' = stFrame /\ stDrain' = stDrain
    BY <1>1 DEF Write
  <2>2. r \in StRequest /\ r.id = stNext
    BY <2>1, StAssumption DEF StRequest
  <2> HIDE DEF r
  <2>3. Len(stQueue') = N + 1 /\ stQueue'[N + 1] = r /\ \A k \in 1 .. N : stQueue'[k] = q[k]
    BY <1>0, <2>1, <2>2
  <2> HIDE DEF q, N
  <2>4. stCalls[stNext] = 0
    BY <1>0, <1>c, <2>1
  <2>5. \A k \in 1 .. N + 1 : (k \in 1 .. N /\ stQueue'[k] = q[k]) \/ stQueue'[k].id = stNext
    BY <1>0, <2>2, <2>3
  <2>6. \A i \in StIds : stCalls[i] <= 1 /\ (i >= stNext + 1 => stCalls[i] = 0)
    BY <1>0, <1>c, <1>i
  <2>7. stFrame # "drain" => \A k \in 1 .. N + 1 : stCalls[stQueue'[k].id] = 0
    BY <1>c, <2>4, <2>5
  <2>8. stFrame = "drain" =>
           /\ stDrain.at \in 1 .. N + 1
           /\ stDrain.more => stDrain.at < N + 1
           /\ \A k \in 1 .. N + 1 : k > stDrain.at => stCalls[stQueue'[k].id] = 0
    <3> SUFFICES ASSUME stFrame = "drain"
                 PROVE  /\ stDrain.at \in 1 .. N + 1 /\ (stDrain.more => stDrain.at < N + 1)
                        /\ \A k \in 1 .. N + 1 : k > stDrain.at => stCalls[stQueue'[k].id] = 0
      OBVIOUS
    <3>1. /\ stDrain.at \in 1 .. N /\ (stDrain.more => stDrain.at < N)
          /\ \A k \in 1 .. N : k > stDrain.at => stCalls[q[k].id] = 0
      BY <1>c
    <3>2. stDrain.at \in 1 .. N + 1 /\ stDrain.at < N + 1
      BY <1>0, <3>1
    <3>3. \A k \in 1 .. N + 1 : k > stDrain.at => stCalls[stQueue'[k].id] = 0
      BY <2>4, <2>5, <3>1
    <3> QED  BY <3>2, <3>3
  <2> QED  BY <1>c, <2>1, <2>3, <2>6, <2>7, <2>8 DEF StCallsInv
<1>2. ASSUME NEW n \in StSizes, WriteSome(n)
      PROVE  StCallsInv'
  <2> DEFINE r == q[1]
  <2>1. q # << >> /\ Head(q) = r /\ N >= 1 /\ 1 \in 1 .. N
    <3>1. q # << >>
      BY <1>2 DEF WriteSome
    <3> QED  BY <1>0, <3>1
  <2>2. stFrame = "writing" /\ stNext' = stNext
    BY <1>2 DEF WriteSome
  <2>3. CASE n = r.left
    <3>1. q' = Tail(q) /\ stCalls' = [stCalls EXCEPT ![r.id] = @ + 1] /\ stFrame' = "write"
      BY <1>2, <2>1, <2>3 DEF WriteSome
    <3>2. Len(q') = N - 1 /\ \A k \in 1 .. N - 1 : q'[k] = q[k + 1] /\ k + 1 \in 1 .. N /\ k + 1 # 1
      BY <1>0, <2>1, <3>1
    <3>3. r.id \in StIds /\ stCalls[r.id] = 0 /\ r.id < stNext /\ r.id \in Nat
      BY <1>0, <1>c, <2>1, <2>2
    <3> HIDE DEF r
    <3>4. /\ stCalls' \in [StIds -> Nat] /\ stCalls'[r.id] = 1
          /\ \A i \in StIds : i # r.id => stCalls'[i] = stCalls[i]
      BY <1>c, <3>1, <3>3
    <3>5. \A i \in StIds : stCalls'[i] <= 1 /\ (i >= stNext => stCalls'[i] = 0)
      <4> SUFFICES ASSUME NEW i \in StIds
                   PROVE  stCalls'[i] <= 1 /\ (i >= stNext => stCalls'[i] = 0)
        OBVIOUS
      <4>1. CASE i = r.id
        BY <1>0, <3>3, <3>4, <4>1
      <4>2. CASE i # r.id
        BY <1>c, <3>4, <4>2
      <4> QED  BY <4>1, <4>2
    <3>6. \A k \in 1 .. N - 1 : stCalls'[q'[k].id] = 0
      <4> SUFFICES ASSUME NEW k \in 1 .. N - 1
                   PROVE  stCalls'[q'[k].id] = 0
        OBVIOUS
      <4>1. q'[k] = q[k + 1] /\ k + 1 \in 1 .. N /\ k + 1 # 1
        BY <3>2
      <4>2. q[k + 1].id # r.id /\ q[k + 1].id \in StIds /\ stCalls[q[k + 1].id] = 0
        BY <1>0, <1>c, <1>d, <2>1, <2>2, <4>1 DEF r
      <4> QED  BY <3>4, <4>1, <4>2
    <3> QED  BY <2>2, <3>1, <3>2, <3>4, <3>5, <3>6 DEF StCallsInv
  <2>4. CASE n # r.left
    <3> DEFINE t == [id |-> r.id, left |-> r.left - n, fds |-> FALSE]
    <3>1. q' = <<t>> \o Tail(q) /\ stCalls' = stCalls /\ stFrame' = stFrame
      BY <1>2, <2>1, <2>4 DEF WriteSome
    <3>2. t.id = r.id
      OBVIOUS
    <3> HIDE DEF t
    <3>3. Len(q') = N /\ q'[1] = t /\ \A k \in 1 .. N : k # 1 => q'[k] = q[k]
      <4>1. Tail(q) \in Seq(StRequest) /\ Len(Tail(q)) = N - 1 /\ \A k \in 1 .. N - 1 : Tail(q)[k] = q[k + 1]
        BY <1>0, <2>1
      <4>2. Len(q') = N /\ q'[1] = t /\ \A k \in 1 .. N : k # 1 => q'[k] = Tail(q)[k - 1]
        BY <1>0, <3>1, <4>1
      <4>3. \A k \in 1 .. N : k # 1 => k - 1 \in 1 .. N - 1 /\ (k - 1) + 1 = k
        BY <1>0
      <4>4. ASSUME NEW k \in 1 .. N, k # 1
            PROVE  Tail(q)[k - 1] = q[k]
        BY <4>1, <4>3, <4>4
      <4> QED  BY <4>2, <4>4
    <3>4. \A k \in 1 .. N : q'[k].id = q[k].id
      BY <3>2, <3>3
    <3> QED  BY <1>c, <2>2, <3>1, <3>3, <3>4 DEF StCallsInv
  <2> QED  BY <2>3, <2>4
<1>3. CASE TryWrite
  <2>1. /\ stNext \in StIds /\ q = << >> /\ q' = q /\ stNext' = stNext + 1
        /\ stCalls' = [stCalls EXCEPT ![stNext] = 1] /\ stFrame' = stFrame
    BY <1>3 DEF TryWrite
  <2>2. N = 0 /\ 1 .. 0 = {}
    BY <2>1
  <2>3. stFrame # "drain"
    BY <1>c, <2>2
  <2>4. stCalls' \in [StIds -> Nat] /\ \A i \in StIds : stCalls'[i] = IF i = stNext THEN 1 ELSE stCalls[i]
    BY <1>c, <2>1
  <2>5. \A i \in StIds : stCalls'[i] <= 1 /\ (i >= stNext + 1 => stCalls'[i] = 0)
    BY <1>0, <1>c, <1>i, <2>4
  <2> QED  BY <2>1, <2>2, <2>3, <2>4, <2>5 DEF StCallsInv
<1>4. ASSUME \/ \E b \in BOOLEAN : ConnectDone(b) \/ ReadReady(b)
             \/ WriteReady \/ WriteBlocked \/ WriteReturn \/ WriteEnd \/ StreamReturn
      PROVE  StCallsInv'
  <2>1. UNCHANGED <<stCalls, stQueue, stNext>>
    BY <1>4, Zenon DEF ConnectDone, ReadReady, WriteReady, WriteBlocked, WriteReturn, WriteEnd,
       StreamReturn, stHist
  <2>2. stFrame # "drain" /\ stFrame' # "drain"
    BY <1>4 DEF ConnectDone, ReadReady, WriteReady, WriteBlocked, WriteReturn, WriteEnd, StreamReturn
  <2> QED  BY <2>1, <2>2, StCallsSame
<1>5. CASE Connect \/ Connect6 \/ ReadStart \/ ReadStop \/ Shutdown
  <2>1. UNCHANGED <<stCalls, stQueue, stNext, stFrame, stDrain, stClosed>>
    BY <1>5, Zenon DEF Connect, Connect6, ReadStart, ReadStop, Shutdown, stHist
  <2> QED  BY <2>1 DEF StCallsInv
<1>6. ASSUME NEW a \in 1 .. N, DrainCall(a), stFrame' = "drain", UNCHANGED <<stQueue, stNext>>,
             \A k \in 1 .. N : k >= a => stCalls[q[k].id] = 0
      PROVE  StCallsInv'
  <2>1. /\ stDrain' = [at |-> a, more |-> a < N]
        /\ stCalls' = [stCalls EXCEPT ![q[a].id] = @ + 1]
    BY <1>6 DEF DrainCall
  <2>2. stDrain'.at = a /\ (stDrain'.more => a < N)
    BY <2>1
  <2>3. q[a].id \in StIds /\ stCalls[q[a].id] = 0 /\ q[a].id < stNext /\ q[a].id \in Nat
    BY <1>0, <1>6
  <2>4. /\ stCalls' \in [StIds -> Nat] /\ stCalls'[q[a].id] = 1
        /\ \A i \in StIds : i # q[a].id => stCalls'[i] = stCalls[i]
    BY <1>c, <2>1, <2>3
  <2>5. \A i \in StIds : stCalls'[i] <= 1 /\ (i >= stNext => stCalls'[i] = 0)
    <3> SUFFICES ASSUME NEW i \in StIds
                 PROVE  stCalls'[i] <= 1 /\ (i >= stNext => stCalls'[i] = 0)
      OBVIOUS
    <3>1. CASE i = q[a].id
      BY <1>0, <2>3, <2>4, <3>1
    <3>2. CASE i # q[a].id
      BY <1>c, <2>4, <3>2
    <3> QED  BY <3>1, <3>2
  <2>6. \A k \in 1 .. N : k > a => stCalls'[q[k].id] = 0
    <3> SUFFICES ASSUME NEW k \in 1 .. N, k > a
                 PROVE  stCalls'[q[k].id] = 0
      OBVIOUS
    <3>1. k # a /\ k >= a
      BY <1>0
    <3>2. q[k].id # q[a].id /\ q[k].id \in StIds /\ stCalls[q[k].id] = 0
      BY <1>0, <1>6, <1>d, <3>1
    <3> QED  BY <2>4, <3>2
  <2>7. q' = q /\ stNext' = stNext
    BY <1>6
  <2> QED  BY <1>6, <2>2, <2>4, <2>5, <2>6, <2>7 DEF StCallsInv
<1>7. CASE WriteError
  <2>1. stFrame = "writing" /\ q # << >> /\ stFrame' = "drain" /\ DrainCall(1) /\ UNCHANGED <<stQueue, stNext>>
    BY <1>7 DEF WriteError
  <2>2. 1 \in 1 .. N
    BY <1>0, <2>1
  <2> QED  BY <1>6, <1>c, <2>1, <2>2
<1>8. CASE DrainReturn
  <2>0. stFrame = "drain" /\ stNext' = stNext
    BY <1>8 DEF DrainReturn
  <2>1. CASE stDrain.more
    <3>1. stDrain.at \in 1 .. N /\ stDrain.at < N /\ \A k \in 1 .. N : k > stDrain.at => stCalls[q[k].id] = 0
      BY <1>c, <2>0, <2>1
    <3>2. DrainCall(stDrain.at + 1) /\ UNCHANGED <<stQueue, stNext>> /\ stFrame' = "drain"
      BY <1>8, <2>0, <2>1 DEF DrainReturn
    <3>3. stDrain.at + 1 \in 1 .. N /\ \A k \in 1 .. N : k >= stDrain.at + 1 => k > stDrain.at
      BY <1>0, <3>1
    <3> QED  BY <1>6, <3>1, <3>2, <3>3
  <2>2. CASE ~stDrain.more
    <3>1. stQueue' = << >> /\ stCalls' = stCalls /\ stFrame' = "none"
      BY <1>8, <2>2 DEF DrainReturn
    <3>2. Len(stQueue') = 0 /\ 1 .. 0 = {}
      BY <3>1
    <3> QED  BY <1>c, <2>0, <3>1, <3>2 DEF StCallsInv
  <2> QED  BY <2>1, <2>2
<1>9. CASE Close
  <2>1. /\ stClosed' /\ stFrame' = stFrame /\ stNext' = stNext /\ stQueue' = << >>
        /\ stCalls' = [i \in StIds |-> stCalls[i] + Cardinality({k \in DOMAIN q : q[k].id = i})]
    BY <1>9 DEF Close
  <2>2. Len(stQueue') = 0 /\ 1 .. 0 = {}
    BY <2>1
  <2>3. ASSUME NEW i \in StIds
        PROVE  /\ stCalls'[i] \in Nat
               /\ stFrame # "drain" => stCalls'[i] <= 1
               /\ i >= stNext => stCalls'[i] = 0
    <3> DEFINE K == {k \in DOMAIN q : q[k].id = i}
    <3>1. stCalls'[i] = stCalls[i] + Cardinality(K) /\ stCalls[i] \in Nat /\ stCalls[i] <= 1
          /\ (i >= stNext => stCalls[i] = 0)
      BY <1>c, <2>1, <2>3
    <3>2. DOMAIN q = 1 .. N
      BY <1>0
    <3>3. CASE \E k \in 1 .. N : q[k].id = i
      <4>1. PICK k \in 1 .. N : q[k].id = i
        BY <3>3
      <4>2. K = {k}
        BY <1>d, <3>2, <4>1
      <4>3. Cardinality(K) = 1
        BY <4>2, FS_Singleton
      <4>4. (stFrame # "drain" => stCalls[i] = 0) /\ i < stNext
        BY <1>0, <1>c, <2>1, <4>1
      <4>5. i \in Nat
        BY <1>i
      <4> HIDE DEF K
      <4> QED  BY <1>0, <3>1, <4>3, <4>4, <4>5
    <3>4. CASE ~\E k \in 1 .. N : q[k].id = i
      <4>1. K = {}
        BY <3>2, <3>4
      <4>2. Cardinality(K) = 0
        BY <4>1, FS_EmptySet
      <4> HIDE DEF K
      <4> QED  BY <3>1, <4>2
    <3> QED  BY <3>3, <3>4
  <2>4. stCalls' \in [StIds -> Nat]
    BY <2>1, <2>3
  <2> QED  BY <2>1, <2>2, <2>3, <2>4 DEF StCallsInv
<1> QED  BY <1>1, <1>2, <1>3, <1>4, <1>5, <1>7, <1>8, <1>9 DEF StNext

LEMMA StStep ==
  ASSUME StInv, [StNext]_stVars
  PROVE  StInv'
<1>1. CASE StNext
  BY <1>1, StOrderStep, StCallsStep, StWatchStep DEF StInv
<1>2. CASE UNCHANGED stVars
  <2>1. UNCHANGED <<stQueue, stSent, stFdsSent, stNext, stSize, stCalls, stFrame, stDrain, stClosed, stFailed,
                    stShutdownPending, stWatch, stLost, stReading, stWritable>>
    BY <1>2 DEF stVars
  <2>2. StOrderInv'
    BY <2>1, StOrderSame DEF StInv
  <2>3. StCallsInv'
    BY <2>1 DEF StCallsInv, StInv
  <2>4. StWatchInv'
    BY <2>1 DEF StWatchInv, StInv
  <2> QED  BY <2>2, <2>3, <2>4 DEF StInv
<1> QED  BY <1>1, <1>2

LEMMA StInitOK == StInit => StInv
<1> SUFFICES ASSUME StInit
             PROVE  StInv
  OBVIOUS
<1>1. stQueue = << >> /\ stSent = << >> /\ stFdsSent = {} /\ stSize = 0 /\ stNext = 1
  BY DEF StInit
<1>2. stQueue \in Seq(StRequest) /\ stSent \in Seq(StIds) /\ Len(stQueue) = 0 /\ Len(stSent) = 0
      /\ DOMAIN stQueue = {} /\ 1 .. 0 = {}
  BY <1>1
<1>3. StRemaining = 0
  <2> DEFINE f == [k \in DOMAIN stQueue |-> stQueue[k].left]
  <2>1. StRemaining = SumFunctionOnSet(f, {})
    BY <1>2 DEF StRemaining, SumFunction
  <2> HIDE DEF f
  <2> QED  BY <2>1, SumEmpty
<1>4. StOrderInv
  BY <1>1, <1>2, <1>3 DEF StOrderInv
<1>5. StCallsInv
  BY <1>2 DEF StInit, StCallsInv
<1>6. StWatchInv
  BY DEF StInit, StWatchInv
<1> QED  BY <1>4, <1>5, <1>6 DEF StInv

LEMMA StInvGives == StInv => StreamOrder /\ StreamWatched
<1> SUFFICES ASSUME StInv
             PROVE  StreamOrder /\ StreamWatched
  OBVIOUS
<1>1. StOrderInv /\ StCallsInv /\ StWatchInv
  BY DEF StInv
<1>2. DOMAIN stQueue = 1 .. Len(stQueue) /\ DOMAIN stSent = 1 .. Len(stSent)
  BY <1>1, StTyped
<1>3. stFrame # "drain" => \A i \in StQueued : stCalls[i] = 0
  BY <1>1, <1>2 DEF StQueued, StCallsInv
<1>4. StreamOrder
  BY <1>1, <1>2, <1>3 DEF StreamOrder, StOrderInv, StCallsInv, StWatchInv
<1>5. StreamWatched
  BY <1>1 DEF StreamWatched, StWatchInv
<1> QED  BY <1>4, <1>5

-----------------------------------------------------------------------------
(* Datagram sockets                                                         *)

\* Datagrams have been numbered in the order of the calls; what has been sent
\* came before what waits, unless it was sent past the queue, and only the
\* first can be both, in its callback.
UdOrderInv ==
  /\ udNext \in Nat \ {0}
  /\ udQueue \in Seq(UdIds) /\ udSent \in Seq(UdIds)
  /\ \A k \in 1 .. Len(udQueue) : udQueue[k] < udNext
  /\ \A j, k \in 1 .. Len(udQueue) : j < k => udQueue[j] < udQueue[k]
  /\ \A j \in 1 .. Len(udSent) : udSent[j] < udNext
  /\ \A j, k \in 1 .. Len(udSent) : j < k => udSent[j] < udSent[k] \/ udSent[j] \in udPast
  /\ \A j \in 1 .. Len(udSent), k \in 1 .. Len(udQueue) :
       udSent[j] < udQueue[k] \/ udSent[j] \in udPast \/ (udFrame = "callback" /\ k = 1 /\ udSent[j] = udQueue[k])

\* How often a datagram has been reported; the first of the queue once while
\* its callback runs.
UdReports(i) ==
  IF udTold[i] # "yes" THEN 0
  ELSE IF \E k \in 1 .. Len(udQueue) : udQueue[k] = i
       THEN IF udFrame = "callback" /\ i = udQueue[1] THEN 1 ELSE 0
       ELSE 1

UdCallsInv ==
  /\ udCalls \in [UdIds -> Nat] /\ DOMAIN udTold = UdIds
  /\ \A i \in UdIds : i >= udNext => udTold[i] = "none"
  /\ \A k \in 1 .. Len(udQueue) : udTold[udQueue[k]] = "yes"
  /\ \A i \in UdIds : udTold[i] # "yes" => udCalls[i] = 0
  /\ (udOpen \/ udFrame # "callback") => \A i \in UdIds : udCalls[i] = UdReports(i)

UdWatchInv ==
  /\ udFrame = "callback" /\ udOpen => udQueue # << >>
  /\ udFrame = "sending" => udOpen
  /\ udOpen => udCount = Len(udQueue)
  /\ udOpen /\ udQueue # << >> => "write" \in udWatch \/ udLost
  /\ ~udOpen => udQueue = << >>

UdInv == UdOrderInv /\ UdCallsInv /\ UdWatchInv

LEMMA UdTyped ==
  ASSUME UdOrderInv
  PROVE  /\ Len(udQueue) \in Nat /\ DOMAIN udQueue = 1 .. Len(udQueue)
         /\ Len(udSent) \in Nat /\ DOMAIN udSent = 1 .. Len(udSent)
         /\ \A k \in 1 .. Len(udQueue) : udQueue[k] \in UdIds /\ udQueue[k] \in Nat
         /\ \A j \in 1 .. Len(udSent) : udSent[j] \in UdIds /\ udSent[j] \in Nat
         /\ \A i \in UdIds : i \in Nat
<1>1. udQueue \in Seq(UdIds) /\ udSent \in Seq(UdIds)
  BY DEF UdOrderInv
<1>2. /\ Len(udQueue) \in Nat /\ DOMAIN udQueue = 1 .. Len(udQueue)
      /\ Len(udSent) \in Nat /\ DOMAIN udSent = 1 .. Len(udSent)
      /\ \A k \in 1 .. Len(udQueue) : udQueue[k] \in UdIds
      /\ \A j \in 1 .. Len(udSent) : udSent[j] \in UdIds
  BY <1>1
<1>3. \A i \in UdIds : i \in Nat
  BY UdAssumption DEF UdIds
<1> QED  BY <1>2, <1>3

\* No datagram is in the queue twice.
LEMMA UdDistinct ==
  ASSUME UdOrderInv
  PROVE  \A j, k \in 1 .. Len(udQueue) : udQueue[j] = udQueue[k] => j = k
<1> DEFINE q == udQueue
           N == Len(q)
<1>1. /\ N \in Nat /\ \A k \in 1 .. N : q[k] \in Nat
      /\ \A j, k \in 1 .. N : j < k => q[j] < q[k]
  BY UdTyped DEF UdOrderInv
<1> HIDE DEF q, N
<1>2. ASSUME NEW j \in 1 .. N, NEW k \in 1 .. N, q[j] = q[k], j # k
      PROVE  FALSE
  <2>1. j < k \/ k < j
    BY <1>1, <1>2
  <2> QED  BY <1>1, <1>2, <2>1
<1> QED  BY <1>2 DEF q, N

\* A number larger than all of an increasing list keeps it increasing, but for
\* some that are not in their places.
LEMMA AppendLarger ==
  ASSUME NEW s, NEW t, NEW P, NEW M \in Nat, NEW x \in Nat,
         \A j \in 1 .. M : s[j] \in Nat /\ s[j] < x /\ t[j] = s[j],
         \A j, k \in 1 .. M : j < k => s[j] < s[k] \/ s[j] \in P,
         t[M + 1] = x
  PROVE  /\ \A j \in 1 .. M + 1 : t[j] < x + 1
         /\ \A j, k \in 1 .. M + 1 : j < k => t[j] < t[k] \/ t[j] \in P
<1>1. \A j \in 1 .. M + 1 : j \in 1 .. M \/ j = M + 1
  OBVIOUS
<1>2. \A j \in 1 .. M + 1 : t[j] < x + 1
  BY <1>1
<1>3. ASSUME NEW j \in 1 .. M + 1, NEW k \in 1 .. M + 1, j < k
      PROVE  t[j] < t[k] \/ t[j] \in P
  <2>1. j \in 1 .. M
    BY <1>3
  <2>2. CASE k \in 1 .. M
    BY <1>3, <2>1, <2>2
  <2>3. CASE k = M + 1
    BY <2>1, <2>3
  <2> QED  BY <1>1, <2>2, <2>3
<1> QED  BY <1>2, <1>3

\* Sends, at once, refused or into the queue
LEMMA UdSendStep ==
  ASSUME UdInv, NEW o \in {"sent", "fails", "blocks"}, UdpSend(o)
  PROVE  UdInv'
<1> DEFINE q == udQueue
           s == udSent
           N == Len(q)
           M == Len(s)
<1>0. /\ N \in Nat /\ M \in Nat /\ q \in Seq(UdIds) /\ s \in Seq(UdIds) /\ udNext \in Nat \ {0}
      /\ \A k \in 1 .. N : q[k] \in UdIds /\ q[k] \in Nat /\ q[k] < udNext
      /\ \A j, k \in 1 .. N : j < k => q[j] < q[k]
      /\ \A j \in 1 .. M : s[j] \in Nat /\ s[j] < udNext
      /\ \A j, k \in 1 .. M : j < k => s[j] < s[k] \/ s[j] \in udPast
      /\ \A i \in UdIds : i \in Nat
  BY UdTyped DEF UdInv, UdOrderInv
<1>a. \A j \in 1 .. M, k \in 1 .. N : s[j] < q[k] \/ s[j] \in udPast \/ (udFrame = "callback" /\ k = 1 /\ s[j] = q[k])
  BY DEF UdInv, UdOrderInv
<1>c. /\ udCalls \in [UdIds -> Nat] /\ DOMAIN udTold = UdIds
      /\ \A i \in UdIds : i >= udNext => udTold[i] = "none"
      /\ \A k \in 1 .. N : udTold[q[k]] = "yes"
      /\ \A i \in UdIds : udCalls[i] = UdReports(i)
      /\ \A i \in UdIds : udTold[i] # "yes" => udCalls[i] = 0
  BY DEF UdInv, UdCallsInv, UdpSend, UdMayCall
<1>w. /\ udFrame = "callback" => q # << >>
      /\ udFrame = "sending" => udOpen
      /\ udOpen => udCount = N
      /\ udOpen /\ q # << >> => "write" \in udWatch \/ udLost
      /\ ~udOpen => q = << >>
  BY DEF UdInv, UdWatchInv, UdpSend, UdMayCall
<1>u. /\ udNext \in UdIds /\ udOpen /\ (q # << >> => o # "sent") /\ udNext' = udNext + 1
      /\ udOpen' = udOpen /\ udFrame' = udFrame /\ udPast' = udPast
      /\ udTold' = [udTold EXCEPT ![udNext] = IF o = "fails" THEN "no" ELSE "yes"]
  BY DEF UdpSend, UdMayCall
<1>t. /\ DOMAIN udTold' = UdIds
      /\ udTold'[udNext] = IF o = "fails" THEN "no" ELSE "yes"
      /\ \A i \in UdIds : i # udNext => udTold'[i] = udTold[i]
  BY <1>c, <1>u
<1>n. \A i \in UdIds : i >= udNext + 1 => udTold'[i] = "none"
  <2> SUFFICES ASSUME NEW i \in UdIds, i >= udNext + 1
               PROVE  udTold'[i] = "none"
    OBVIOUS
  <2>1. i # udNext /\ i >= udNext
    BY <1>0
  <2> QED  BY <1>c, <1>t, <2>1
<1>z. udTold[udNext] = "none" /\ udCalls[udNext] = 0
  <2>1. udNext >= udNext
    BY <1>0
  <2>2. udTold[udNext] = "none"
    BY <1>c, <1>u, <2>1
  <2> QED  BY <1>c, <1>u, <2>2 DEF UdReports
<1>x. \A k \in 1 .. N : q[k] # udNext
  BY <1>0
<1>1. CASE o = "sent"
  <2>1. s' = Append(s, udNext) /\ udCalls' = [udCalls EXCEPT ![udNext] = 1]
        /\ UNCHANGED <<udQueue, udCount, udWatch, udLost>> /\ q = << >>
    BY <1>1, <1>u DEF UdpSend
  <2>2. N = 0 /\ q' = q /\ Len(q') = 0 /\ 1 .. 0 = {}
    BY <2>1
  <2>3. /\ s' \in Seq(UdIds) /\ Len(s') = M + 1 /\ s'[M + 1] = udNext
        /\ \A j \in 1 .. M : s'[j] = s[j]
    BY <1>0, <1>u, <2>1
  <2>4. /\ \A j \in 1 .. M + 1 : s'[j] < udNext + 1
        /\ \A j, k \in 1 .. M + 1 : j < k => s'[j] < s'[k] \/ s'[j] \in udPast
    <3>1. /\ udNext \in Nat /\ M \in Nat /\ s'[M + 1] = udNext
          /\ \A j \in 1 .. M : s[j] \in Nat /\ s[j] < udNext /\ s'[j] = s[j]
          /\ \A j, k \in 1 .. M : j < k => s[j] < s[k] \/ s[j] \in udPast
      BY <1>0, <2>3
    <3> HIDE DEF s, M
    <3> QED  BY <3>1, AppendLarger
  <2>5. UdOrderInv'
    BY <1>0, <1>u, <2>2, <2>3, <2>4 DEF UdOrderInv
  <2>6. udCalls' \in [UdIds -> Nat] /\ udCalls'[udNext] = 1 /\ \A i \in UdIds : i # udNext => udCalls'[i] = udCalls[i]
    BY <1>c, <1>u, <2>1
  <2>7. \A i \in UdIds : udCalls'[i] = UdReports(i)'
    <3> SUFFICES ASSUME NEW i \in UdIds
                 PROVE  udCalls'[i] = UdReports(i)'
      OBVIOUS
    <3>1. UdReports(i)' = IF udTold'[i] # "yes" THEN 0 ELSE 1
      BY <2>2 DEF UdReports
    <3>2. UdReports(i) = IF udTold[i] # "yes" THEN 0 ELSE 1
      BY <2>2 DEF UdReports
    <3>3. CASE i = udNext
      BY <1>1, <1>t, <2>6, <3>1, <3>3
    <3>4. CASE i # udNext
      BY <1>c, <1>t, <2>6, <3>1, <3>2, <3>4
    <3> QED  BY <3>3, <3>4
  <2>8. UdCallsInv'
    <3>1. \A i \in UdIds : udTold'[i] # "yes" => udCalls'[i] = 0
      BY <1>1, <1>c, <1>t, <2>6
    <3> QED  BY <1>t, <1>n, <1>u, <2>2, <2>6, <2>7, <3>1 DEF UdCallsInv
  <2>9. UdWatchInv'
    BY <1>w, <1>u, <2>1 DEF UdWatchInv
  <2> QED  BY <2>5, <2>8, <2>9 DEF UdInv
<1>2. CASE o = "fails"
  <2>1. UNCHANGED <<udSent, udCalls, udQueue, udCount, udWatch, udLost>>
    BY <1>2 DEF UdpSend
  <2>3. \A k \in 1 .. N : q[k] < udNext + 1
    <3> HIDE DEF q, N
    <3> QED  BY <1>0
  <2>4. \A j \in 1 .. M : s[j] < udNext + 1
    <3> HIDE DEF s, M
    <3> QED  BY <1>0
  <2>5. UdOrderInv'
    BY <1>0, <1>a, <1>u, <2>1, <2>3, <2>4 DEF UdOrderInv
  <2>6. \A k \in 1 .. N : udTold'[q[k]] = "yes"
    BY <1>0, <1>c, <1>t, <1>x
  <2>7. \A i \in UdIds : udCalls[i] = UdReports(i)'
    <3> SUFFICES ASSUME NEW i \in UdIds
                 PROVE  udCalls[i] = UdReports(i)'
      OBVIOUS
    <3>3. CASE i = udNext
      BY <1>2, <1>t, <1>z, <3>3 DEF UdReports
    <3>4. CASE i # udNext
      <4>1. udTold'[i] = udTold[i]
        BY <1>t, <3>4
      <4>2. UdReports(i)' = UdReports(i)
        BY <1>u, <2>1, <4>1 DEF UdReports
      <4> QED  BY <1>c, <4>2
    <3> QED  BY <3>3, <3>4
  <2>8. \A i \in UdIds : udTold'[i] # "yes" => udCalls[i] = 0
    BY <1>c, <1>t, <1>z
  <2>9. UdCallsInv'
    BY <1>c, <1>t, <1>n, <1>u, <2>1, <2>6, <2>7, <2>8 DEF UdCallsInv
  <2>10. UdWatchInv'
    BY <1>w, <1>u, <2>1 DEF UdWatchInv
  <2> QED  BY <2>5, <2>9, <2>10 DEF UdInv
<1>3. CASE o = "blocks"
  <2>1. q' = Append(q, udNext) /\ udCount' = udCount + 1 /\ ("write" \in udWatch' \/ udLost')
        /\ udSent' = udSent /\ udCalls' = udCalls
    BY <1>3 DEF UdpSend
  <2>2. /\ q' \in Seq(UdIds) /\ Len(q') = N + 1 /\ q'[N + 1] = udNext
        /\ \A k \in 1 .. N : q'[k] = q[k]
    BY <1>0, <1>u, <2>1
  <2>w. udFrame = "callback" => N \in Nat \ {0}
    BY <1>0, <1>w
  <2> HIDE DEF q, N
  <2>3. \A k \in 1 .. N + 1 : (k \in 1 .. N /\ q'[k] = q[k]) \/ (k = N + 1 /\ q'[k] = udNext)
    BY <1>0, <2>2
  <2>4. /\ \A k \in 1 .. N + 1 : q'[k] < udNext + 1
        /\ \A j, k \in 1 .. N + 1 : j < k => q'[j] < q'[k]
    <3>1. /\ udNext \in Nat /\ N \in Nat /\ q'[N + 1] = udNext
          /\ \A k \in 1 .. N : q[k] \in Nat /\ q[k] < udNext /\ q'[k] = q[k]
          /\ \A j, k \in 1 .. N : j < k => q[j] < q[k]
      BY <1>0, <2>2
    <3>2. \A j, k \in 1 .. N : j < k => q[j] < q[k] \/ q[j] \in {}
      BY <3>1
    <3>3. /\ \A k \in 1 .. N + 1 : q'[k] < udNext + 1
          /\ \A j, k \in 1 .. N + 1 : j < k => q'[j] < q'[k] \/ q'[j] \in {}
      BY <3>1, <3>2, AppendLarger
    <3> QED  BY <3>3
  <2>5. \A j \in 1 .. M : s[j] < udNext + 1
    <3> HIDE DEF s, M
    <3> QED  BY <1>0
  <2>6. \A j \in 1 .. M, k \in 1 .. N + 1 : s[j] < q'[k] \/ s[j] \in udPast \/ (udFrame = "callback" /\ k = 1 /\ s[j] = q'[k])
    BY <1>0, <1>a, <2>3
  <2>7. UdOrderInv'
    <3>1. udQueue' \in Seq(UdIds) /\ Len(udQueue') = N + 1 /\ udSent' = udSent
      BY <2>1, <2>2 DEF q
    <3> QED  BY <1>0, <1>u, <2>4, <2>5, <2>6, <3>1 DEF UdOrderInv, q
  <2>8. \A k \in 1 .. N + 1 : udTold'[q'[k]] = "yes"
    <3> SUFFICES ASSUME NEW k \in 1 .. N + 1
                 PROVE  udTold'[q'[k]] = "yes"
      OBVIOUS
    <3>1. CASE k \in 1 .. N /\ q'[k] = q[k]
      BY <1>0, <1>c, <1>t, <1>x, <3>1
    <3>2. CASE q'[k] = udNext
      BY <1>3, <1>t, <3>2
    <3> QED  BY <2>3, <3>1, <3>2
  <2>9. \A i \in UdIds : udCalls'[i] = UdReports(i)'
    <3> SUFFICES ASSUME NEW i \in UdIds
                 PROVE  udCalls'[i] = UdReports(i)'
      OBVIOUS
    <3>0. Len(udQueue') = N + 1 /\ udQueue' = q' /\ udFrame' = udFrame
      BY <1>u, <2>2 DEF q
    <3>1. UdReports(i)' = IF udTold'[i] # "yes" THEN 0
                          ELSE IF \E k \in 1 .. N + 1 : q'[k] = i
                               THEN IF udFrame = "callback" /\ i = q'[1] THEN 1 ELSE 0
                               ELSE 1
      BY <3>0 DEF UdReports
    <3>2. UdReports(i) = IF udTold[i] # "yes" THEN 0
                         ELSE IF \E k \in 1 .. N : q[k] = i
                              THEN IF udFrame = "callback" /\ i = q[1] THEN 1 ELSE 0
                              ELSE 1
      BY DEF UdReports, q, N
    <3>3. CASE i = udNext
      <4>1. \E k \in 1 .. N + 1 : q'[k] = i
        BY <1>0, <2>2, <3>3
      <4>2. ~(udFrame = "callback" /\ i = q'[1])
        <5>1. udFrame = "callback" => 1 \in 1 .. N
          BY <2>w
        <5> QED  BY <1>x, <2>2, <3>3, <5>1
      <4>3. UdReports(i)' = 0
        BY <3>1, <4>1, <4>2
      <4> QED  BY <1>z, <2>1, <3>3, <4>3
    <3>4. CASE i # udNext
      <4>1. (\E k \in 1 .. N + 1 : q'[k] = i) <=> (\E k \in 1 .. N : q[k] = i)
        <5>1. ASSUME NEW k \in 1 .. N + 1, q'[k] = i
              PROVE  \E m \in 1 .. N : q[m] = i
          BY <2>3, <3>4, <5>1
        <5>2. ASSUME NEW k \in 1 .. N, q[k] = i
              PROVE  \E m \in 1 .. N + 1 : q'[m] = i
          BY <1>0, <2>2, <5>2
        <5> QED  BY <5>1, <5>2
      <4>2. udFrame = "callback" => q'[1] = q[1]
        <5>1. udFrame = "callback" => 1 \in 1 .. N
          BY <2>w
        <5> QED  BY <2>2, <5>1
      <4>3. udTold'[i] = udTold[i]
        BY <1>t, <3>4
      <4>4. UdReports(i)' = UdReports(i)
        <5>1. CASE udTold[i] # "yes"
          BY <3>1, <3>2, <4>3, <5>1
        <5>2. CASE udTold[i] = "yes" /\ ~\E k \in 1 .. N : q[k] = i
          BY <3>1, <3>2, <4>1, <4>3, <5>2
        <5>3. CASE udTold[i] = "yes" /\ \E k \in 1 .. N : q[k] = i
          <6>1. UdReports(i) = IF udFrame = "callback" /\ i = q[1] THEN 1 ELSE 0
            BY <3>2, <5>3
          <6>2. UdReports(i)' = IF udFrame = "callback" /\ i = q'[1] THEN 1 ELSE 0
            BY <3>1, <4>1, <4>3, <5>3
          <6> QED  BY <4>2, <6>1, <6>2
        <5> QED  BY <5>1, <5>2, <5>3
      <4> QED  BY <1>c, <2>1, <4>4
    <3> QED  BY <3>3, <3>4
  <2>10. UdCallsInv'
    <3>1. Len(udQueue') = N + 1 /\ udQueue' = q'
      BY <2>2 DEF q
    <3>2. \A i \in UdIds : udTold'[i] # "yes" => udCalls[i] = 0
      BY <1>3, <1>c, <1>t
    <3> QED  BY <1>c, <1>t, <1>n, <1>u, <2>1, <2>8, <2>9, <3>1, <3>2 DEF UdCallsInv
  <2>11. UdWatchInv'
    <3>1. Len(udQueue') = N + 1 /\ udQueue' = q' /\ q' # << >>
      BY <1>0, <2>2 DEF q
    <3>2. udCount' = N + 1
      BY <1>0, <1>w, <1>u, <2>1
    <3> QED  BY <1>u, <2>1, <3>1, <3>2 DEF UdWatchInv
  <2> QED  BY <2>7, <2>10, <2>11 DEF UdInv
<1> QED  BY <1>1, <1>2, <1>3

\* loopyUDPTrySend and the batches
LEMMA UdTrySendStep ==
  ASSUME UdInv, UdpTrySend
  PROVE  UdInv'
<1> DEFINE q == udQueue
           s == udSent
           N == Len(q)
           M == Len(s)
           P == udPast'
<1>0. /\ N \in Nat /\ M \in Nat /\ q \in Seq(UdIds) /\ s \in Seq(UdIds) /\ udNext \in Nat \ {0}
      /\ \A k \in 1 .. N : q[k] \in UdIds /\ q[k] \in Nat /\ q[k] < udNext
      /\ \A j, k \in 1 .. N : j < k => q[j] < q[k]
      /\ \A j \in 1 .. M : s[j] \in Nat /\ s[j] < udNext
      /\ \A j, k \in 1 .. M : j < k => s[j] < s[k] \/ s[j] \in udPast
      /\ \A j \in 1 .. M, k \in 1 .. N : s[j] < q[k] \/ s[j] \in udPast \/ (udFrame = "callback" /\ k = 1 /\ s[j] = q[k])
  BY UdTyped DEF UdInv, UdOrderInv
<1>1. /\ udNext \in UdIds /\ s' = Append(s, udNext) /\ udNext' = udNext + 1
      /\ P = IF q = << >> THEN udPast ELSE udPast \cup {udNext}
      /\ UNCHANGED <<udOpen, udQueue, udCount, udWatch, udLost, udFrame, udCalls, udTold>>
  BY DEF UdpTrySend
<1>2. /\ s' \in Seq(UdIds) /\ Len(s') = M + 1 /\ s'[M + 1] = udNext
      /\ \A j \in 1 .. M : s'[j] = s[j]
  BY <1>0, <1>1
<1>3. udPast \subseteq P /\ (N # 0 => udNext \in P)
  BY <1>0, <1>1
<1>4. UdOrderInv'
  <2> HIDE DEF q, s, N, M, P
  <2>1. /\ \A j \in 1 .. M + 1 : s'[j] < udNext + 1
        /\ \A j, k \in 1 .. M + 1 : j < k => s'[j] < s'[k] \/ s'[j] \in P
    <3>1. /\ udNext \in Nat /\ M \in Nat /\ s'[M + 1] = udNext
          /\ \A j \in 1 .. M : s[j] \in Nat /\ s[j] < udNext /\ s'[j] = s[j]
          /\ \A j, k \in 1 .. M : j < k => s[j] < s[k] \/ s[j] \in P
      BY <1>0, <1>2, <1>3
    <3> QED  BY <3>1, AppendLarger
  <2>2. \A j \in 1 .. M + 1, k \in 1 .. N : s'[j] < q[k] \/ s'[j] \in P \/ (udFrame = "callback" /\ k = 1 /\ s'[j] = q[k])
    <3> SUFFICES ASSUME NEW j \in 1 .. M + 1, NEW k \in 1 .. N
                 PROVE  s'[j] < q[k] \/ s'[j] \in P \/ (udFrame = "callback" /\ k = 1 /\ s'[j] = q[k])
      OBVIOUS
    <3>1. j \in 1 .. M \/ j = M + 1
      BY <1>0
    <3>2. CASE j \in 1 .. M
      BY <1>0, <1>2, <1>3, <3>2
    <3>3. CASE j = M + 1
      <4>1. N # 0
        BY <1>0
      <4> QED  BY <1>2, <1>3, <3>3, <4>1
    <3> QED  BY <3>1, <3>2, <3>3
  <2>3. \A k \in 1 .. N : q[k] < udNext + 1
    BY <1>0
  <2>4. /\ udSent' \in Seq(UdIds) /\ Len(udSent') = M + 1 /\ udSent' = s' /\ udPast' = P
        /\ udQueue' = q /\ Len(udQueue') = N /\ q \in Seq(UdIds) /\ udFrame' = udFrame
    BY <1>0, <1>1, <1>2 DEF s, q, N, P
  <2>5. udNext' \in Nat \ {0} /\ udNext' = udNext + 1
    BY <1>0, <1>1
  <2> QED  BY <1>0, <2>1, <2>2, <2>3, <2>4, <2>5 DEF UdOrderInv
<1>5. UdCallsInv'
  <2>1. \A i : UdReports(i)' = UdReports(i)
    BY <1>1 DEF UdReports
  <2>2. \A i \in UdIds : i >= udNext + 1 => i >= udNext
    BY <1>0, UdAssumption DEF UdIds
  <2> QED  BY <1>1, <2>1, <2>2 DEF UdInv, UdCallsInv
<1>6. UdWatchInv'
  BY <1>1 DEF UdInv, UdWatchInv
<1> QED  BY <1>4, <1>5, <1>6 DEF UdInv

\* The first datagram of the queue is sent, or fails, and is reported.
LEMMA UdSendFirstStep ==
  ASSUME UdInv, NEW ok \in BOOLEAN, UdpSendFirst(ok)
  PROVE  UdInv'
<1> DEFINE q == udQueue
           s == udSent
           N == Len(q)
           M == Len(s)
           h == q[1]
<1>0. /\ N \in Nat /\ M \in Nat /\ q \in Seq(UdIds) /\ s \in Seq(UdIds) /\ udNext \in Nat \ {0}
      /\ \A k \in 1 .. N : q[k] \in UdIds /\ q[k] \in Nat /\ q[k] < udNext
      /\ \A j, k \in 1 .. N : j < k => q[j] < q[k]
      /\ \A j \in 1 .. M : s[j] \in Nat /\ s[j] < udNext
      /\ \A j, k \in 1 .. M : j < k => s[j] < s[k] \/ s[j] \in udPast
  BY UdTyped DEF UdInv, UdOrderInv
<1>1. /\ udFrame = "sending" /\ q # << >> /\ udFrame' = "callback" /\ udOpen' = udOpen
      /\ udQueue' = udQueue /\ udCount' = udCount /\ udWatch' = udWatch /\ udNext' = udNext /\ udTold' = udTold
      /\ udPast' = udPast /\ udLost' = udLost /\ udOpen
      /\ s' = IF ok THEN Append(s, Head(q)) ELSE s
      /\ udCalls' = [udCalls EXCEPT ![Head(q)] = @ + 1]
  BY DEF UdpSendFirst, UdInv, UdWatchInv
<1>2. N \in Nat \ {0} /\ 1 \in 1 .. N /\ Head(q) = h
  BY <1>0, <1>1
<1>3. /\ udCalls \in [UdIds -> Nat] /\ DOMAIN udTold = UdIds
      /\ \A i \in UdIds : i >= udNext => udTold[i] = "none"
      /\ \A k \in 1 .. N : udTold[q[k]] = "yes"
      /\ \A i \in UdIds : udCalls[i] = UdReports(i)
      /\ \A i \in UdIds : udTold[i] # "yes" => udCalls[i] = 0
  BY <1>1 DEF UdInv, UdCallsInv
<1>4. \A j \in 1 .. M, k \in 1 .. N : s[j] < q[k] \/ s[j] \in udPast
  BY <1>1 DEF UdInv, UdOrderInv
<1>5. h \in UdIds /\ h \in Nat /\ h < udNext /\ \A k \in 1 .. N : k # 1 => h < q[k]
  <2>1. \A k \in 1 .. N : k # 1 => 1 < k
    BY <1>2
  <2> QED  BY <1>0, <1>2, <2>1
<1>6. UdOrderInv'
  <2>1. CASE ok
    <3>1. /\ s' \in Seq(UdIds) /\ Len(s') = M + 1 /\ s'[M + 1] = h
          /\ \A j \in 1 .. M : s'[j] = s[j]
      BY <1>0, <1>1, <1>2, <1>5, <2>1
    <3>2. \A j \in 1 .. M : s[j] < h \/ s[j] \in udPast
      BY <1>2, <1>4
    <3> HIDE DEF s, M, h, q, N
    <3>3. /\ \A j \in 1 .. M + 1 : s'[j] < udNext
          /\ \A j, k \in 1 .. M + 1 : j < k => s'[j] < s'[k] \/ s'[j] \in udPast
      BY <1>0, <1>5, <3>1, <3>2, SMTT(60)
    <3>4. \A j \in 1 .. M + 1, k \in 1 .. N : s'[j] < q[k] \/ s'[j] \in udPast \/ (k = 1 /\ s'[j] = q[k])
      <4> SUFFICES ASSUME NEW j \in 1 .. M + 1, NEW k \in 1 .. N
                   PROVE  s'[j] < q[k] \/ s'[j] \in udPast \/ (k = 1 /\ s'[j] = q[k])
        OBVIOUS
      <4>1. j \in 1 .. M \/ j = M + 1
        BY <1>0
      <4>2. CASE j \in 1 .. M
        BY <1>4, <3>1, <4>2
      <4>3. CASE j = M + 1 /\ k = 1
        BY <3>1, <4>3 DEF h
      <4>4. CASE j = M + 1 /\ k # 1
        BY <1>5, <3>1, <4>4
      <4> QED  BY <4>1, <4>2, <4>3, <4>4
    <3>5. udSent' \in Seq(UdIds) /\ Len(udSent') = M + 1 /\ udQueue \in Seq(UdIds)
      BY <1>0, <3>1 DEF s, q
    <3> QED  BY <1>0, <1>1, <3>3, <3>4, <3>5, SMTT(60) DEF UdOrderInv, s, q, N
  <2>2. CASE ~ok
    <3>1. s' = s
      BY <1>1, <2>2
    <3> QED  BY <1>0, <1>1, <1>4, <3>1 DEF UdOrderInv
  <2> QED  BY <2>1, <2>2
<1>7. UdCallsInv'
  <2>1. /\ udCalls' = [udCalls EXCEPT ![h] = @ + 1]
    BY <1>1, <1>2
  <2>2. UdReports(h) = 0
    BY <1>1, <1>2, <1>3, <1>5 DEF UdReports
  <2>3. /\ udCalls' \in [UdIds -> Nat] /\ udCalls'[h] = 1
        /\ \A i \in UdIds : i # h => udCalls'[i] = udCalls[i]
    BY <1>3, <1>5, <2>1, <2>2
  <2>4. \A i \in UdIds : udCalls'[i] = UdReports(i)'
    <3> SUFFICES ASSUME NEW i \in UdIds
                 PROVE  udCalls'[i] = UdReports(i)'
      OBVIOUS
    <3>1. CASE i = h
      <4>1. UdReports(i)' = 1
        <5>1. udTold'[i] = "yes" /\ (\E k \in 1 .. Len(udQueue') : udQueue'[k] = i) /\ udFrame' = "callback"
              /\ i = udQueue'[1]
          BY <1>1, <1>2, <1>3, <3>1
        <5> QED  BY <5>1 DEF UdReports
      <4> QED  BY <2>3, <3>1, <4>1
    <3>2. CASE i # h
      <4>1. UdReports(i)' = UdReports(i)
        BY <1>1, <3>2 DEF UdReports
      <4> QED  BY <1>3, <2>3, <3>2, <4>1
    <3> QED  BY <3>1, <3>2
  <2>5. \A i \in UdIds : udTold[i] # "yes" => udCalls'[i] = 0
    BY <1>2, <1>3, <2>3
  <2> QED  BY <1>1, <1>3, <2>3, <2>4, <2>5 DEF UdCallsInv
<1>8. UdWatchInv'
  BY <1>1 DEF UdInv, UdWatchInv
<1> QED  BY <1>6, <1>7, <1>8 DEF UdInv

\* Its callback returns, and it is removed.
LEMMA UdSendReturnsStep ==
  ASSUME UdInv, UdpSendReturns
  PROVE  UdInv'
<1> DEFINE q == udQueue
           s == udSent
           N == Len(q)
           M == Len(s)
           h == q[1]
<1>0. /\ N \in Nat /\ M \in Nat /\ q \in Seq(UdIds) /\ s \in Seq(UdIds) /\ udNext \in Nat \ {0}
      /\ \A k \in 1 .. N : q[k] \in UdIds /\ q[k] \in Nat /\ q[k] < udNext
      /\ \A j, k \in 1 .. N : j < k => q[j] < q[k]
      /\ \A j \in 1 .. M : s[j] \in Nat /\ s[j] < udNext
      /\ \A j, k \in 1 .. M : j < k => s[j] < s[k] \/ s[j] \in udPast
      /\ \A j \in 1 .. M, k \in 1 .. N : s[j] < q[k] \/ s[j] \in udPast \/ (k = 1 /\ s[j] = q[k])
      /\ \A j, k \in 1 .. N : q[j] = q[k] => j = k
  BY UdTyped, UdDistinct DEF UdInv, UdOrderInv
<1>1. /\ udFrame = "callback" /\ q # << >> /\ udFrame' = "sending" /\ udOpen' = udOpen /\ udOpen
      /\ q' = Tail(q) /\ udCount' = udCount - 1 /\ udWatch' = udWatch /\ udNext' = udNext /\ udTold' = udTold
      /\ udSent' = udSent /\ udCalls' = udCalls /\ udCount = N /\ ("write" \in udWatch \/ udLost)
      /\ udPast' = udPast /\ udLost' = udLost
  BY DEF UdpSendReturns, UdInv, UdWatchInv, udHist
<1>2. N \in Nat \ {0} /\ 1 \in 1 .. N
  BY <1>0, <1>1
<1>3. /\ udCalls \in [UdIds -> Nat] /\ DOMAIN udTold = UdIds
      /\ \A i \in UdIds : i >= udNext => udTold[i] = "none"
      /\ \A k \in 1 .. N : udTold[q[k]] = "yes"
      /\ \A i \in UdIds : udCalls[i] = UdReports(i)
      /\ \A i \in UdIds : udTold[i] # "yes" => udCalls[i] = 0
  BY <1>1 DEF UdInv, UdCallsInv
<1>4. /\ q' \in Seq(UdIds) /\ Len(q') = N - 1
      /\ \A k \in 1 .. N - 1 : q'[k] = q[k + 1] /\ k + 1 \in 1 .. N /\ k + 1 # 1
  BY <1>0, <1>1, <1>2
<1>5. UdOrderInv'
  <2> HIDE DEF q, N, s, M
  <2>1. /\ \A k \in 1 .. N - 1 : q'[k] < udNext
        /\ \A j \in 1 .. M, k \in 1 .. N - 1 : s[j] < q'[k] \/ s[j] \in udPast
    BY <1>0, <1>4
  <2>2. \A j, k \in 1 .. N - 1 : j < k => q'[j] < q'[k]
    <3> SUFFICES ASSUME NEW j \in 1 .. N - 1, NEW k \in 1 .. N - 1, j < k
                 PROVE  q'[j] < q'[k]
      OBVIOUS
    <3>1. j + 1 < k + 1
      OBVIOUS
    <3> QED  BY <1>0, <1>4, <3>1
  <2>3. udQueue' \in Seq(UdIds) /\ Len(udQueue') = N - 1 /\ udSent' = s /\ udQueue' = q'
    BY <1>1, <1>4 DEF q, s
  <2> QED  BY <1>0, <1>1, <2>1, <2>2, <2>3 DEF UdOrderInv, M
<1>6. UdCallsInv'
  <2>1. \A k \in 1 .. N - 1 : udTold[q'[k]] = "yes"
    BY <1>3, <1>4
  <2>2. \A i \in UdIds : udCalls[i] = UdReports(i)'
    <3> SUFFICES ASSUME NEW i \in UdIds
                 PROVE  UdReports(i) = UdReports(i)'
      BY <1>3
    <3>1. UdReports(i)' = IF udTold[i] # "yes" THEN 0 ELSE IF \E k \in 1 .. N - 1 : q'[k] = i THEN 0 ELSE 1
      BY <1>1, <1>4 DEF UdReports
    <3>2. UdReports(i) = IF udTold[i] # "yes" THEN 0
                         ELSE IF \E k \in 1 .. N : q[k] = i THEN IF i = h THEN 1 ELSE 0 ELSE 1
      BY <1>1 DEF UdReports
    <3>3. (\E k \in 1 .. N - 1 : q'[k] = i) <=> (\E k \in 1 .. N : q[k] = i) /\ i # h
      <4>1. ASSUME NEW k \in 1 .. N - 1, q'[k] = i
            PROVE  (\E m \in 1 .. N : q[m] = i) /\ i # h
        BY <1>0, <1>2, <1>4, <4>1
      <4>2. ASSUME NEW k \in 1 .. N, q[k] = i, i # h
            PROVE  \E m \in 1 .. N - 1 : q'[m] = i
        <5>1. k - 1 \in 1 .. N - 1 /\ (k - 1) + 1 = k
          BY <1>0, <4>2
        <5>2. q'[k - 1] = q[k]
          BY <1>4, <5>1
        <5> QED  BY <4>2, <5>1, <5>2
      <4> QED  BY <4>1, <4>2
    <3>4. i = h => \E k \in 1 .. N : q[k] = i
      BY <1>2
    <3> QED  BY <3>1, <3>2, <3>3, <3>4
  <2>3. Len(udQueue') = N - 1 /\ udQueue' = q'
    BY <1>4
  <2> QED  BY <1>1, <1>3, <2>1, <2>2, <2>3 DEF UdCallsInv
<1>7. UdWatchInv'
  <2>1. Len(udQueue') = N - 1 /\ udCount' = N - 1
    BY <1>1, <1>4
  <2> QED  BY <1>1, <2>1 DEF UdWatchInv
<1> QED  BY <1>5, <1>6, <1>7 DEF UdInv

\* loopyUDPFree reports what waits.
LEMMA UdFreeStep ==
  ASSUME UdInv, UdpFree
  PROVE  UdInv'
<1> DEFINE q == udQueue
           N == Len(q)
<1>0. /\ N \in Nat /\ DOMAIN q = 1 .. N /\ udSent \in Seq(UdIds) /\ udNext \in Nat \ {0}
      /\ \A k \in 1 .. N : q[k] \in UdIds
      /\ \A j, k \in 1 .. N : q[j] = q[k] => j = k
      /\ \A j \in 1 .. Len(udSent) : udSent[j] < udNext
      /\ \A j, k \in 1 .. Len(udSent) : j < k => udSent[j] < udSent[k] \/ udSent[j] \in udPast
  BY UdTyped, UdDistinct DEF UdInv, UdOrderInv
<1>1. /\ udOpen /\ udFrame # "sending" /\ udFrame' = udFrame /\ udOpen' = FALSE /\ q' = << >>
      /\ udPast' = udPast
      /\ udNext' = udNext /\ udTold' = udTold /\ udSent' = udSent
      /\ udCalls' = [i \in UdIds |-> udCalls[i] + Cardinality({k \in DOMAIN q : q[k] = i})]
  BY DEF UdpFree, UdMayCall
<1>2. q' \in Seq(UdIds) /\ Len(q') = 0 /\ 1 .. 0 = {}
  BY <1>1
<1>3. /\ udCalls \in [UdIds -> Nat] /\ DOMAIN udTold = UdIds
      /\ \A i \in UdIds : i >= udNext => udTold[i] = "none"
      /\ \A k \in 1 .. N : udTold[q[k]] = "yes"
      /\ \A i \in UdIds : udCalls[i] = UdReports(i)
      /\ \A i \in UdIds : udTold[i] # "yes" => udCalls[i] = 0
  BY <1>1 DEF UdInv, UdCallsInv
<1>4. UdOrderInv'
  BY <1>0, <1>1, <1>2 DEF UdOrderInv
<1>5. ASSUME NEW i \in UdIds
      PROVE  /\ udFrame # "callback" => udCalls'[i] = UdReports(i)'
             /\ udTold[i] # "yes" => udCalls'[i] = 0
             /\ udCalls'[i] \in Nat
  <2> DEFINE K == {k \in DOMAIN q : q[k] = i}
  <2>1. udCalls'[i] = UdReports(i) + Cardinality(K)
    BY <1>1, <1>3
  <2>2. UdReports(i)' = IF udTold[i] # "yes" THEN 0 ELSE 1
    BY <1>1, <1>2 DEF UdReports
  <2>3. CASE \E k \in 1 .. N : q[k] = i
    <3>1. PICK k \in 1 .. N : q[k] = i
      BY <2>3
    <3>2. K = {k}
      BY <1>0, <3>1
    <3>3. Cardinality(K) = 1
      BY <3>2, FS_Singleton
    <3>4. udTold[i] = "yes"
      BY <1>3, <3>1
    <3>5. UdReports(i) \in Nat /\ (udFrame # "callback" => UdReports(i) = 0)
      BY <2>3, <3>4 DEF UdReports
    <3> HIDE DEF K
    <3> QED  BY <2>1, <2>2, <3>3, <3>4, <3>5
  <2>4. CASE ~\E k \in 1 .. N : q[k] = i
    <3>1. K = {}
      BY <1>0, <2>4
    <3>2. Cardinality(K) = 0
      BY <3>1, FS_EmptySet
    <3>3. UdReports(i) = IF udTold[i] # "yes" THEN 0 ELSE 1
      BY <2>4 DEF UdReports
    <3> HIDE DEF K
    <3> QED  BY <2>1, <2>2, <3>2, <3>3
  <2> QED  BY <2>3, <2>4
<1>6. udCalls' \in [UdIds -> Nat]
  BY <1>1, <1>5
<1>7. UdCallsInv'
  BY <1>1, <1>2, <1>3, <1>5, <1>6 DEF UdCallsInv
<1>8. UdWatchInv'
  BY <1>1 DEF UdWatchInv
<1> QED  BY <1>4, <1>7, <1>8 DEF UdInv

LEMMA UdStep ==
  ASSUME UdInv, [UdNext]_udVars
  PROVE  UdInv'
<1>1. ASSUME NEW o \in {"sent", "fails", "blocks"}, UdpSend(o)
      PROVE  UdInv'
  BY <1>1, UdSendStep
<1>2. ASSUME NEW b \in BOOLEAN, UdpSendFirst(b)
      PROVE  UdInv'
  BY <1>2, UdSendFirstStep
<1>3. CASE UdpSendReturns
  BY <1>3, UdSendReturnsStep
<1>4. CASE UdpFree
  BY <1>4, UdFreeStep
<1>10. CASE UdpTrySend
  BY <1>10, UdTrySendStep
<1>5. ASSUME UNCHANGED <<udHist, udQueue, udOpen, udCount>>, udFrame' # "callback" \/ udFrame' = udFrame,
             udFrame = "callback" => udFrame' = "callback", UdWatchInv'
      PROVE  UdInv'
  <2>0. UdOrderInv /\ UdCallsInv /\ UdWatchInv
    BY DEF UdInv
  <2>1. UNCHANGED <<udNext, udSent, udPast, udCalls, udTold, udQueue, udOpen>> /\ (udFrame' = "callback" <=> udFrame = "callback")
    BY <1>5 DEF udHist
  <2>2. UdOrderInv'
    BY <2>0, <2>1 DEF UdOrderInv
  <2>3. \A i : UdReports(i)' = UdReports(i)
    BY <2>1 DEF UdReports
  <2>4. UdCallsInv'
    BY <2>0, <2>1, <2>3 DEF UdCallsInv
  <2> QED  BY <1>5, <2>2, <2>4 DEF UdInv
<1>6. CASE UdpBind \/ \E b \in BOOLEAN : UdpConnect(b)
  BY <1>5, <1>6 DEF UdpBind, UdpConnect, UdInv, UdWatchInv, udHist
<1>7. ASSUME NEW b \in BOOLEAN, UdpReceive(b)
      PROVE  UdInv'
  BY <1>5, <1>7 DEF UdpReceive, UdInv, UdWatchInv, udHist
<1>8. CASE UdpWritable \/ UdpSendEnd
  BY <1>5, <1>8 DEF UdpWritable, UdpSendEnd, UdInv, UdWatchInv, udHist
<1>9. CASE UNCHANGED udVars
  <2>1. UNCHANGED <<udHist, udQueue, udOpen, udCount, udFrame, udWatch>>
    BY <1>9 DEF udVars, udHist
  <2> QED  BY <1>5, <2>1 DEF UdInv, UdWatchInv, udHist
<1> QED  BY <1>1, <1>2, <1>3, <1>4, <1>6, <1>7, <1>8, <1>9, <1>10 DEF UdNext

LEMMA UdInitOK == UdInit => UdInv
<1> SUFFICES ASSUME UdInit
             PROVE  UdInv
  OBVIOUS
<1>1. udQueue = << >> /\ udSent = << >> /\ udNext = 1
  BY DEF UdInit
<1>2. udQueue \in Seq(UdIds) /\ udSent \in Seq(UdIds) /\ Len(udQueue) = 0 /\ Len(udSent) = 0 /\ 1 .. 0 = {}
  BY <1>1
<1>3. UdOrderInv
  BY <1>1, <1>2 DEF UdOrderInv
<1>4. UdCallsInv
  BY <1>2 DEF UdInit, UdCallsInv, UdReports
<1>5. UdWatchInv
  BY <1>2 DEF UdInit, UdWatchInv
<1> QED  BY <1>3, <1>4, <1>5 DEF UdInv

LEMMA UdInvGives == UdInv => SendsExact
<1> SUFFICES ASSUME UdInv
             PROVE  SendsExact
  OBVIOUS
<1> DEFINE q == udQueue
           N == Len(q)
<1>1. /\ N \in Nat /\ DOMAIN q = 1 .. N /\ DOMAIN udSent = 1 .. Len(udSent) /\ q \in Seq(UdIds)
      /\ \A j, k \in 1 .. N : q[j] = q[k] => j = k
      /\ (udOpen \/ udFrame # "callback") => \A i \in UdIds : udCalls[i] = UdReports(i)
      /\ \A i \in UdIds : udTold[i] # "yes" => udCalls[i] = 0
  BY UdTyped, UdDistinct DEF UdInv, UdOrderInv, UdCallsInv
<1>2. ASSUME udOpen \/ udFrame # "callback", NEW i \in UdIds, udTold[i] = "yes"
      PROVE  udCalls[i] + Cardinality({k \in DOMAIN q : q[k] = i})
               = IF udFrame = "callback" /\ i = Head(q) THEN 2 ELSE 1
  <2> DEFINE K == {k \in DOMAIN q : q[k] = i}
  <2>1. CASE \E k \in 1 .. N : q[k] = i
    <3>1. PICK k \in 1 .. N : q[k] = i
      BY <2>1
    <3>2. K = {k}
      BY <1>1, <3>1
    <3>3. Cardinality(K) = 1
      BY <3>2, FS_Singleton
    <3>4. Head(q) = q[1]
      BY <1>1, <3>1
    <3>5. UdReports(i) = IF udFrame = "callback" /\ i = Head(q) THEN 1 ELSE 0
      BY <1>2, <2>1, <3>4 DEF UdReports
    <3> HIDE DEF K
    <3>6. udCalls[i] + Cardinality(K) = IF udFrame = "callback" /\ i = Head(q) THEN 2 ELSE 1
      BY <1>1, <1>2, <3>3, <3>5
    <3> QED  BY <3>6 DEF K
  <2>2. CASE ~\E k \in 1 .. N : q[k] = i
    <3>1. K = {}
      BY <1>1, <2>2
    <3>2. Cardinality(K) = 0
      BY <3>1, FS_EmptySet
    <3>3. UdReports(i) = 1
      BY <1>2, <2>2 DEF UdReports
    <3>4. ~(udFrame = "callback" /\ i = Head(q))
      <4>1. udFrame = "callback" => q # << >>
        BY <1>2 DEF UdInv, UdWatchInv
      <4>2. q # << >> => Head(q) = q[1] /\ 1 \in 1 .. N
        BY <1>1
      <4> QED  BY <2>2, <4>1, <4>2
    <3> HIDE DEF K
    <3>5. udCalls[i] + Cardinality(K) = 1
      BY <1>1, <1>2, <3>2, <3>3
    <3> QED  BY <3>4, <3>5 DEF K
  <2> QED  BY <2>1, <2>2
<1>3. \A i \in UdIds : udTold[i] # "yes" => udCalls[i] = 0
  BY <1>1
<1>4. \A j, k \in DOMAIN udSent : j < k => udSent[j] < udSent[k] \/ udSent[j] \in udPast
  BY <1>1 DEF UdInv, UdOrderInv
<1>5. (udOpen => udCount = Len(udQueue)) /\ (udOpen /\ udQueue # << >> => "write" \in udWatch \/ udLost)
  BY DEF UdInv, UdWatchInv
<1> QED  BY <1>2, <1>3, <1>4, <1>5 DEF SendsExact

-----------------------------------------------------------------------------
(* Pipes                                                                    *)

LEMMA PiStep ==
  ASSUME PipeReadSafe, [PiNext]_piVars
  PROVE  PipeReadSafe'
<1> USE DEF PipeReadSafe, PiMayCall
<1>1. ASSUME NEW b \in BOOLEAN, PipeReadStart(b)
      PROVE  PipeReadSafe'
  BY <1>1 DEF PipeReadStart
<1>2. ASSUME NEW b \in BOOLEAN, NEW n \in PiSizes, PipeWriteAsync(n, b)
      PROVE  PipeReadSafe'
  <2>1. ~piFreed /\ UNCHANGED <<piOpen, piFreed, piReadCb, piBuffer>>
    BY <1>2 DEF PipeWriteAsync
  <2>2. "read" \in piWatch => "read" \in piWatch'
    BY <1>2, Zenon DEF PipeWriteAsync
  <2> QED  BY <2>1, <2>2
<1>3. ASSUME NEW end \in {"read", "write"}, PipeCloseEnd(end)
      PROVE  PipeReadSafe'
  BY <1>3 DEF PipeCloseEnd
<1>4. CASE PipeReadStop
  BY <1>4 DEF PipeReadStop
<1>5. CASE PipeReadable
  BY <1>5 DEF PipeReadable
<1>6. CASE PipeWritable
  BY <1>6 DEF PipeWritable
<1>7. CASE PipeReturn
  BY <1>7 DEF PipeReturn
<1>8. CASE PipeClose \/ PipeUseFreed
  BY <1>8 DEF PipeClose, PipeUseFreed
<1>9. CASE UNCHANGED piVars
  BY <1>9 DEF piVars
<1> QED  BY <1>1, <1>2, <1>3, <1>4, <1>5, <1>6, <1>7, <1>8, <1>9 DEF PiNext

LEMMA PiInitOK == PiInit => PipeReadSafe
  BY DEF PiInit, PipeReadSafe

\* Bytes leave a stream in the order of the calls and no request is reported
\* twice; datagrams are reported once and leave in that order save those sent
\* past a queue; what waits is watched by the loop; a pipe's reader has a buffer
\* and an open end: for any number of requests of any lengths, any calls from
\* callbacks and any failing registrations, with the exceptions that
\* TransfersExact names (loopyStream.c, loopyUDP.c, loopyPipe.c).
THEOREM TransfersAreExact ==
  StSpec /\ UdSpec /\ PiSpec => []TransfersExact
<1>1. StInv /\ UdInv /\ PipeReadSafe => TransfersExact
  BY StInvGives, UdInvGives DEF TransfersExact
<1>2. StInv /\ [StNext]_stVars => StInv'
  BY StStep
<1> QED  BY <1>1, <1>2, StInitOK, UdInitOK, UdStep, PiInitOK, PiStep, PTL DEF StSpec, UdSpec, PiSpec

-----------------------------------------------------------------------------
(* The max-heap                                                             *)

Places(d, v) == {i \in DOMAIN d : d[i] = v}

Ordered(d) == \A c \in 2 .. Len(d) : d[c] <= d[c \div 2]

\* The map names values that are in the array, and no negative ones.
MapOK(pos, d) ==
  /\ pos \in [MhValues -> Nat]
  /\ \A v \in MhValues : pos[v] # 0 => v >= 0 /\ \E i \in 1 .. Len(d) : d[i] = v

MhInv ==
  /\ mhData \in Seq(MhValues) /\ MapOK(mhPos, mhData) /\ Ordered(mhData)
  /\ mhCount \in [MhValues -> Nat]
  /\ \A v \in MhValues : Cardinality(Places(mhData, v)) = mhCount[v]

\* While an element moves up it may be larger than its parent, but what is
\* below it is not; while it moves down it may be smaller than its children,
\* but what is above it is not.
Sifting(h, up) ==
  /\ h.data \in Seq(MhValues) /\ MapOK(h.pos, h.data)
  /\ h.at \in 1 .. Len(h.data)
  /\ \A c \in 2 .. Len(h.data) :
       /\ (IF up THEN c # h.at ELSE c \div 2 # h.at) => h.data[c] <= h.data[c \div 2]
       /\ c \div 2 = h.at /\ h.at > 1 => h.data[c] <= h.data[h.at \div 2]

\* Two arrays of the same values.
Permuted(d, e) ==
  Len(d) = Len(e) /\ \A v \in MhValues : Cardinality(Places(d, v)) = Cardinality(Places(e, v))

LEMMA PlacesFinite ==
  ASSUME NEW S, NEW d \in Seq(S), NEW v
  PROVE  IsFiniteSet(Places(d, v)) /\ Cardinality(Places(d, v)) \in Nat
<1>1. Len(d) \in Int /\ 1 \in Int /\ DOMAIN d = 1 .. Len(d)
  OBVIOUS
<1>2. IsFiniteSet(1 .. Len(d))
  BY <1>1, FS_Interval
<1>3. Places(d, v) \in SUBSET (1 .. Len(d))
  BY <1>1 DEF Places
<1>4. IsFiniteSet(Places(d, v))
  BY <1>2, <1>3, FS_Subset
<1> QED  BY <1>4, FS_CardinalityType

Swapped(d, i, j) == [d EXCEPT ![i] = d[j], ![j] = d[i]]

LEMMA SwapOK ==
  ASSUME NEW d \in Seq(MhValues), NEW i \in 1 .. Len(d), NEW j \in 1 .. Len(d), i # j,
         NEW e, e = Swapped(d, i, j)
  PROVE  /\ e \in Seq(MhValues) /\ Len(e) = Len(d)
         /\ e[i] = d[j] /\ e[j] = d[i] /\ \A k \in 1 .. Len(d) : k # i /\ k # j => e[k] = d[k]
         /\ Permuted(e, d)
<1>1. Len(d) \in Nat /\ DOMAIN d = 1 .. Len(d) /\ \A k \in 1 .. Len(d) : d[k] \in MhValues
  OBVIOUS
<1>2. /\ DOMAIN e = 1 .. Len(d) /\ e[i] = d[j] /\ e[j] = d[i]
      /\ \A k \in 1 .. Len(d) : k # i /\ k # j => e[k] = d[k]
  BY <1>1 DEF Swapped
<1>3. e \in Seq(MhValues) /\ Len(e) = Len(d)
  <2>1. e \in [1 .. Len(d) -> MhValues]
    BY <1>1 DEF Swapped
  <2> QED  BY <1>1, <1>2, <2>1
<1>4. ASSUME NEW v \in MhValues
      PROVE  Cardinality(Places(e, v)) = Cardinality(Places(d, v))
  <2> DEFINE other(k) == IF k = i THEN j ELSE IF k = j THEN i ELSE k
             K == Places(d, v)
             L == Places(e, v)
             f == [k \in K |-> other(k)]
  <2>1. \A k \in 1 .. Len(d) : other(k) \in 1 .. Len(d) /\ other(other(k)) = k /\ e[other(k)] = d[k] /\ d[other(k)] = e[k]
    BY <1>2
  <2>2. \A k : k \in K <=> k \in 1 .. Len(d) /\ d[k] = v
    BY <1>1 DEF Places
  <2>3. \A k : k \in L <=> k \in 1 .. Len(d) /\ e[k] = v
    BY <1>2 DEF Places
  <2> HIDE DEF other, K, L
  <2>4. f \in [K -> L] /\ \A a, b \in K : f[a] = f[b] => a = b
    <3>1. \A k \in K : other(k) \in L /\ other(other(k)) = k
      BY <2>1, <2>2, <2>3
    <3> QED  BY <3>1
  <2>5. \A k \in L : \E m \in K : f[m] = k
    <3>1. \A k \in L : other(k) \in K /\ other(other(k)) = k
      BY <2>1, <2>2, <2>3
    <3> QED  BY <3>1
  <2> HIDE DEF f
  <2>6. f \in Bijection(K, L)
    <3>1. DOMAIN f = K
      BY <2>4
    <3>2. f \in Injection(K, L)
      BY <2>4, <3>1 DEF Injection, IsInjective
    <3>3. f \in Surjection(K, L)
      BY <2>4, <2>5 DEF Surjection
    <3> QED  BY <3>2, <3>3 DEF Bijection
  <2>7. IsFiniteSet(K)
    BY PlacesFinite DEF K
  <2> QED  BY <2>6, <2>7, FS_Bijection DEF ExistsBijection, K, L
<1> QED  BY <1>2, <1>3, <1>4 DEF Permuted

LEMMA SetPosOK ==
  ASSUME NEW pos, NEW d, MapOK(pos, d), NEW v \in MhValues, NEW i \in Nat,
         i # 0 => \E k \in 1 .. Len(d) : d[k] = v
  PROVE  MapOK(SetPos(pos, v, i), d)
<1>0. v \in Int /\ pos \in [MhValues -> Nat]
  BY MhAssumption DEF MapOK
<1>1. CASE v >= 0
  <2> DEFINE new == [pos EXCEPT ![v] = i]
  <2>1. SetPos(pos, v, i) = new
    BY <1>1 DEF SetPos
  <2>2. new \in [MhValues -> Nat] /\ new[v] = i /\ \A w \in MhValues : w # v => new[w] = pos[w]
    BY <1>0
  <2> HIDE DEF new
  <2>3. ASSUME NEW w \in MhValues, new[w] # 0
        PROVE  w >= 0 /\ \E k \in 1 .. Len(d) : d[k] = w
    <3>1. CASE w = v
      BY <1>1, <2>2, <2>3, <3>1
    <3>2. CASE w # v
      BY <2>2, <2>3, <3>2 DEF MapOK
    <3> QED  BY <3>1, <3>2
  <2> QED  BY <2>1, <2>2, <2>3 DEF MapOK
<1>2. CASE ~(v >= 0)
  BY <1>2 DEF SetPos
<1> QED  BY <1>1, <1>2

\* heapSwap keeps the values and the map.
LEMMA HeapSwapOK ==
  ASSUME NEW h, h.data \in Seq(MhValues), MapOK(h.pos, h.data), h.at \in 1 .. Len(h.data),
         NEW j \in 1 .. Len(h.data), j # h.at, NEW g, g = HeapSwap(h, j)
  PROVE  /\ g.data \in Seq(MhValues) /\ Len(g.data) = Len(h.data) /\ Permuted(g.data, h.data)
         /\ MapOK(g.pos, g.data) /\ g.at = j
         /\ g.data[h.at] = h.data[j] /\ g.data[j] = h.data[h.at]
         /\ \A k \in 1 .. Len(h.data) : k # h.at /\ k # j => g.data[k] = h.data[k]
<1> DEFINE d == h.data
           i == h.at
           e == g.data
<1>1. /\ e = [d EXCEPT ![i] = d[j], ![j] = d[i]]
      /\ g.pos = SetPos(SetPos(h.pos, d[i], j), d[j], i) /\ g.at = j
  BY DEF HeapSwap
<1> HIDE DEF d, i, e
<1>2. d \in Seq(MhValues) /\ i \in 1 .. Len(d) /\ j \in 1 .. Len(d) /\ i # j
  BY DEF d, i
<1>3. /\ e \in Seq(MhValues) /\ Len(e) = Len(d) /\ Permuted(e, d)
      /\ e[i] = d[j] /\ e[j] = d[i] /\ \A k \in 1 .. Len(d) : k # i /\ k # j => e[k] = d[k]
  <2>1. e = Swapped(d, i, j)
    BY <1>1 DEF Swapped
  <2>2. i # j /\ i \in 1 .. Len(d) /\ j \in 1 .. Len(d)
    BY <1>2
  <2>3. d \in Seq(MhValues)
    BY <1>2
  <2>4. \A x \in Seq(MhValues) : \A a, b \in 1 .. Len(x) : \A y : a # b /\ y = Swapped(x, a, b) =>
          /\ y \in Seq(MhValues) /\ Len(y) = Len(x)
          /\ y[a] = x[b] /\ y[b] = x[a] /\ \A k \in 1 .. Len(x) : k # a /\ k # b => y[k] = x[k]
          /\ Permuted(y, x)
    BY SwapOK, ZenonT(60)
  <2>5. \A a, b \in 1 .. Len(d) : \A y : a # b /\ y = Swapped(d, a, b) =>
          /\ y \in Seq(MhValues) /\ Len(y) = Len(d)
          /\ y[a] = d[b] /\ y[b] = d[a] /\ \A k \in 1 .. Len(d) : k # a /\ k # b => y[k] = d[k]
          /\ Permuted(y, d)
    BY <2>3, <2>4
  <2>6. \A y : y = Swapped(d, i, j) =>
          /\ y \in Seq(MhValues) /\ Len(y) = Len(d)
          /\ y[i] = d[j] /\ y[j] = d[i] /\ \A k \in 1 .. Len(d) : k # i /\ k # j => y[k] = d[k]
          /\ Permuted(y, d)
    BY <2>2, <2>5
  <2> QED  BY <2>1, <2>6
<1>4. d[i] \in MhValues /\ d[j] \in MhValues /\ i \in Nat /\ j \in Nat
  BY <1>2
<1>5. MapOK(h.pos, e)
  <2>1. ASSUME NEW v \in MhValues, NEW k \in 1 .. Len(d), d[k] = v
        PROVE  \E m \in 1 .. Len(e) : e[m] = v
    <3>1. CASE k = i
      BY <1>2, <1>3, <2>1, <3>1
    <3>2. CASE k = j
      BY <1>2, <1>3, <2>1, <3>2
    <3>3. CASE k # i /\ k # j
      BY <1>3, <2>1, <3>3
    <3> QED  BY <3>1, <3>2, <3>3
  <2> QED  BY <2>1 DEF MapOK, d
<1>6. MapOK(SetPos(h.pos, d[i], j), e)
  BY <1>2, <1>3, <1>4, <1>5, SetPosOK
<1>7. MapOK(g.pos, e)
  <2>1. \E k \in 1 .. Len(e) : e[k] = d[j]
    BY <1>2, <1>3
  <2>2. g.pos = SetPos(SetPos(h.pos, d[i], j), d[j], i)
    BY <1>1
  <2> QED  BY <1>4, <1>6, <2>1, <2>2, SetPosOK
<1> QED  BY <1>1, <1>3, <1>7 DEF d, e, i

LEMMA ValuesOf ==
  ASSUME NEW d \in Seq(MhValues)
  PROVE  Len(d) \in Nat /\ \A k \in 1 .. Len(d) : d[k] \in Int
<1>1. Len(d) \in Nat /\ \A k \in 1 .. Len(d) : d[k] \in MhValues
  OBVIOUS
<1> QED  BY <1>1, MhAssumption

\* A round goes on with the loop's condition, or leaves an ordered heap.
LEMMA UpRoundOK ==
  ASSUME NEW h, Sifting(h, TRUE), NEW g, g = UpRound(h)
  PROVE  /\ Sifting(g, TRUE) /\ Permuted(g.data, h.data)
         /\ (g = h /\ Ordered(h.data)) \/ (g.at < h.at /\ ~Ordered(h.data))
<1> DEFINE d == h.data
           i == h.at
           p == i \div 2
           e == g.data
<1>1. /\ d \in Seq(MhValues) /\ MapOK(h.pos, d) /\ i \in 1 .. Len(d)
      /\ \A c \in 2 .. Len(d) : c # i => d[c] <= d[c \div 2]
      /\ \A c \in 2 .. Len(d) : c \div 2 = i /\ i > 1 => d[c] <= d[p]
  BY DEF Sifting
<1>2. Len(d) \in Nat /\ \A k \in 1 .. Len(d) : d[k] \in Int
  BY <1>1, ValuesOf
<1>3. \A c \in 2 .. Len(d) : c \div 2 \in 1 .. Len(d) /\ c \div 2 < c
  BY <1>2
<1>4. CASE i > 1 /\ d[p] < d[i]
  <2>1. g = HeapSwap(h, p)
    BY <1>4 DEF UpRound
  <2>2. p \in 1 .. Len(d) /\ p < i /\ i \in 2 .. Len(d) /\ p # i
    BY <1>1, <1>2, <1>4
  <2>3. /\ e \in Seq(MhValues) /\ Len(e) = Len(d) /\ Permuted(e, d)
        /\ MapOK(g.pos, e) /\ g.at = p
        /\ e[i] = d[p] /\ e[p] = d[i]
        /\ \A k \in 1 .. Len(d) : k # i /\ k # p => e[k] = d[k]
    BY <1>1, <2>1, <2>2, HeapSwapOK
  <2> HIDE DEF d, i, e
  <2>4. ASSUME NEW c \in 2 .. Len(d), c # p
        PROVE  e[c] <= e[c \div 2]
    <3>1. c \in 1 .. Len(d) /\ c \div 2 \in 1 .. Len(d) /\ c \div 2 < c /\ c \in Int
      BY <1>2, <1>3
    <3>2. d[i] \in Int /\ d[p] \in Int /\ d[c] \in Int /\ d[c \div 2] \in Int
      BY <1>1, <1>2, <2>2, <3>1
    <3>3. CASE c = i
      BY <1>4, <2>3, <3>2, <3>3
    <3>4. CASE c # i /\ c \div 2 = i
      <4>1. d[c] <= d[p]
        BY <1>1, <1>4, <3>4
      <4> QED  BY <2>3, <2>4, <3>1, <3>4, <4>1
    <3>5. CASE c # i /\ c \div 2 = p
      <4>1. d[c] <= d[p]
        BY <1>1, <3>5
      <4>2. d[c] <= d[i]
        BY <1>4, <3>2, <4>1
      <4> QED  BY <2>3, <2>4, <3>1, <3>5, <4>2
    <3>6. CASE c # i /\ c \div 2 # i /\ c \div 2 # p
      <4>1. d[c] <= d[c \div 2]
        BY <1>1, <3>6
      <4> QED  BY <2>3, <2>4, <3>1, <3>6, <4>1
    <3> QED  BY <3>3, <3>4, <3>5, <3>6
  <2>5. ASSUME NEW c \in 2 .. Len(d), c \div 2 = p, p > 1
        PROVE  e[c] <= e[p \div 2]
    <3>1. c \in 1 .. Len(d) /\ p \div 2 \in 1 .. Len(d) /\ p \div 2 < p /\ c \in Int /\ c # p /\ p \in 2 .. Len(d) /\ p \in Int
      BY <1>2, <1>3, <2>2, <2>5
    <3>2. d[i] \in Int /\ d[p] \in Int /\ d[c] \in Int /\ d[p \div 2] \in Int
      BY <1>1, <1>2, <2>2, <3>1
    <3>3. e[p \div 2] = d[p \div 2]
      <4>1. p \div 2 # p /\ p \div 2 # i
        BY <1>1, <1>2, <2>2, <3>1
      <4> QED  BY <2>3, <3>1, <4>1
    <3>4. d[p] <= d[p \div 2]
      BY <1>1, <2>2, <3>1
    <3>5. CASE c = i
      BY <2>3, <3>3, <3>4, <3>5
    <3>6. CASE c # i
      <4>1. d[c] <= d[p]
        BY <1>1, <2>5, <3>6
      <4>2. d[c] <= d[p \div 2]
        BY <3>2, <3>4, <4>1
      <4> QED  BY <2>3, <3>1, <3>3, <3>6, <4>2
    <3> QED  BY <3>5, <3>6
  <2>6. Sifting(g, TRUE)
    <3>1. g.data = e /\ g.at = p
      BY <2>3 DEF e
    <3> QED  BY <2>2, <2>3, <2>4, <2>5, <3>1 DEF Sifting
  <2>7. ~Ordered(d)
    <3>1. d[p] < d[i] /\ d[p] \in Int /\ d[i] \in Int
      BY <1>1, <1>2, <1>4, <2>2
    <3>2. ~(d[i] <= d[p])
      BY <3>1
    <3> QED  BY <2>2, <3>2 DEF Ordered
  <2> QED  BY <2>2, <2>3, <2>6, <2>7 DEF d, e, i
<1>5. CASE ~(i > 1 /\ d[p] < d[i])
  <2>1. g = h
    BY <1>5 DEF UpRound
  <2>2. ASSUME NEW c \in 2 .. Len(d)
        PROVE  d[c] <= d[c \div 2]
    <3>1. CASE c # i
      BY <1>1, <3>1
    <3>2. CASE c = i
      <4>1. ~(d[p] < d[i]) /\ d[p] \in Int /\ d[i] \in Int
        BY <1>1, <1>2, <1>3, <1>5, <3>2
      <4> HIDE DEF d, i
      <4> QED  BY <3>2, <4>1
    <3> QED  BY <3>1, <3>2
  <2>3. Ordered(d)
    BY <2>2 DEF Ordered
  <2> QED  BY <2>1, <2>3 DEF Permuted
<1> QED  BY <1>4, <1>5

LEMMA DownRoundOK ==
  ASSUME NEW h, Sifting(h, FALSE), NEW g, g = DownRound(h)
  PROVE  /\ Sifting(g, FALSE) /\ Permuted(g.data, h.data)
         /\ (g = h /\ Ordered(h.data)) \/ (g.at > h.at /\ ~Ordered(h.data))
<1> DEFINE d == h.data
           i == h.at
           m == Largest(h)
           e == g.data
<1>1. /\ d \in Seq(MhValues) /\ MapOK(h.pos, d) /\ i \in 1 .. Len(d)
      /\ \A c \in 2 .. Len(d) : c \div 2 # i => d[c] <= d[c \div 2]
      /\ \A c \in 2 .. Len(d) : c \div 2 = i /\ i > 1 => d[c] <= d[i \div 2]
  BY DEF Sifting
<1>2. Len(d) \in Nat /\ \A k \in 1 .. Len(d) : d[k] \in Int
  BY <1>1, ValuesOf
<1>3. \A c \in 2 .. Len(d) : c \in 1 .. Len(d) /\ c \div 2 \in 1 .. Len(d) /\ c \div 2 < c /\ (c \div 2 = i => c = 2 * i \/ c = 2 * i + 1)
  <2>1. \A c \in 2 .. Len(d) : c \in 1 .. Len(d) /\ c \div 2 \in 1 .. Len(d) /\ c \div 2 < c
    BY <1>2
  <2>2. \A c \in Nat : c = 2 * (c \div 2) \/ c = 2 * (c \div 2) + 1
    OBVIOUS
  <2>3. \A c \in 2 .. Len(d) : c \in Nat
    BY <1>2
  <2> HIDE DEF d, i
  <2> QED  BY <2>1, <2>2, <2>3
<1>4. m = IF 2 * i + 1 <= Len(d) /\ d[2 * i + 1] > d[IF 2 * i <= Len(d) /\ d[2 * i] > d[i] THEN 2 * i ELSE i] THEN 2 * i + 1
          ELSE IF 2 * i <= Len(d) /\ d[2 * i] > d[i] THEN 2 * i ELSE i
  BY DEF Largest
<1>5. g = IF m = i THEN h ELSE HeapSwap(h, m)
  BY DEF DownRound
<1> HIDE DEF m, d, i, e
\* It is the largest of the element and its children.
<1>6. /\ m \in 1 .. Len(d) /\ m \in Int /\ i \in Int
      /\ m = i \/ (m \in 2 .. Len(d) /\ m \div 2 = i /\ m > i /\ d[m] > d[i])
      /\ \A c \in 2 .. Len(d) : c \div 2 = i => d[c] <= d[m]
  <2>1. i \in Nat \ {0} /\ i \in 1 .. Len(d)
    BY <1>1, <1>2
  <2>2. d[i] \in Int
    BY <1>2, <2>1
  <2>3. 2 * i + 1 <= Len(d) => 2 * i + 1 \in 1 .. Len(d) /\ 2 * i + 1 \in 2 .. Len(d) /\ (2 * i + 1) \div 2 = i /\ d[2 * i + 1] \in Int
    BY <1>2, <2>1
  <2>4. 2 * i <= Len(d) => 2 * i \in 1 .. Len(d) /\ 2 * i \in 2 .. Len(d) /\ (2 * i) \div 2 = i /\ d[2 * i] \in Int
    BY <1>2, <2>1
  <2>5. 2 * i > i /\ 2 * i + 1 > i /\ 2 * i \in Int /\ 2 * i + 1 \in Int /\ (2 * i + 1 <= Len(d) => 2 * i <= Len(d))
    BY <1>2, <2>1
  <2> DEFINE l == 2 * i
             r == 2 * i + 1
  <2>6. \A c \in 2 .. Len(d) : c \div 2 = i => (c = l /\ l <= Len(d)) \/ (c = r /\ r <= Len(d))
    <3>1. \A c \in 2 .. Len(d) : c <= Len(d)
      BY <1>2
    <3> QED  BY <1>3, <3>1
  <2> HIDE DEF l, r
  <2>7. m = IF r <= Len(d) /\ d[r] > d[IF l <= Len(d) /\ d[l] > d[i] THEN l ELSE i] THEN r
            ELSE IF l <= Len(d) /\ d[l] > d[i] THEN l ELSE i
    BY <1>4 DEF l, r
  <2>8. /\ r <= Len(d) => r \in 1 .. Len(d) /\ r \in 2 .. Len(d) /\ r \div 2 = i /\ d[r] \in Int /\ l <= Len(d)
        /\ l <= Len(d) => l \in 1 .. Len(d) /\ l \in 2 .. Len(d) /\ l \div 2 = i /\ d[l] \in Int
        /\ l > i /\ r > i /\ l \in Int /\ r \in Int
    BY <2>3, <2>4, <2>5 DEF l, r
  <2>9. CASE l <= Len(d) /\ d[l] > d[i]
    <3>1. m = IF r <= Len(d) /\ d[r] > d[l] THEN r ELSE l
      BY <2>7, <2>9
    <3>2. CASE r <= Len(d) /\ d[r] > d[l]
      <4>1. m = r /\ d[r] > d[i] /\ d[l] <= d[r] /\ d[r] <= d[r]
        BY <2>2, <2>8, <2>9, <3>1, <3>2
      <4> QED  BY <2>1, <2>6, <2>8, <3>2, <4>1
    <3>3. CASE ~(r <= Len(d) /\ d[r] > d[l])
      <4>1. m = l /\ (r <= Len(d) => d[r] <= d[l]) /\ d[l] <= d[l]
        BY <2>8, <2>9, <3>1, <3>3
      <4> QED  BY <2>1, <2>6, <2>8, <2>9, <4>1
    <3> QED  BY <3>2, <3>3
  <2>10. CASE ~(l <= Len(d) /\ d[l] > d[i])
    <3>1. m = IF r <= Len(d) /\ d[r] > d[i] THEN r ELSE i
      BY <2>7, <2>10
    <3>0. l <= Len(d) => d[l] <= d[i]
      BY <2>2, <2>8, <2>10
    <3>2. CASE r <= Len(d) /\ d[r] > d[i]
      <4>1. m = r /\ d[l] <= d[r] /\ d[r] <= d[r]
        BY <2>2, <2>8, <3>0, <3>1, <3>2
      <4> QED  BY <2>1, <2>6, <2>8, <3>2, <4>1
    <3>3. CASE ~(r <= Len(d) /\ d[r] > d[i])
      <4>1. m = i /\ (r <= Len(d) => d[r] <= d[i])
        BY <2>2, <2>8, <3>1, <3>3
      <4> QED  BY <2>1, <2>6, <3>0, <4>1
    <3> QED  BY <3>2, <3>3
  <2> QED  BY <2>9, <2>10
<1>7. CASE m # i
  <2>1. g = HeapSwap(h, m) /\ m \in 2 .. Len(d) /\ m \div 2 = i /\ m > i /\ d[m] > d[i]
    BY <1>5, <1>6, <1>7
  <2>3. /\ e \in Seq(MhValues) /\ Len(e) = Len(d) /\ Permuted(e, d)
        /\ MapOK(g.pos, e) /\ g.at = m
        /\ e[i] = d[m] /\ e[m] = d[i]
        /\ \A k \in 1 .. Len(d) : k # i /\ k # m => e[k] = d[k]
    BY <1>1, <1>6, <1>7, <2>1, HeapSwapOK DEF d, e, i
  <2>4. ASSUME NEW c \in 2 .. Len(d), c \div 2 # m
        PROVE  e[c] <= e[c \div 2]
    <3>1. c \in 1 .. Len(d) /\ c \div 2 \in 1 .. Len(d) /\ c \div 2 < c /\ c \in Int /\ c \div 2 \in Int
      BY <1>2, <1>3
    <3>2. d[i] \in Int /\ d[m] \in Int /\ d[c] \in Int /\ d[c \div 2] \in Int
      BY <1>1, <1>2, <1>6, <3>1
    <3>3. CASE c = m
      BY <2>1, <2>3, <3>2, <3>3
    <3>4. CASE c # m /\ c \div 2 = i
      <4>1. d[c] <= d[m]
        BY <1>6, <3>4
      <4>2. c # i
        BY <3>1, <3>4
      <4> QED  BY <2>3, <3>1, <3>4, <4>1, <4>2
    <3>5. CASE c = i
      <4>1. i > 1 /\ d[m] <= d[i \div 2]
        <5>1. i > 1
          BY <3>5
        <5> QED  BY <1>1, <2>1, <5>1
      <4>2. e[c \div 2] = d[c \div 2]
        <5>1. c \div 2 # i /\ c \div 2 # m
          BY <2>1, <2>4, <3>1, <3>5
        <5> QED  BY <2>3, <3>1, <5>1
      <4> QED  BY <2>3, <3>5, <4>1, <4>2
    <3>6. CASE c # m /\ c # i /\ c \div 2 # i
      <4>1. d[c] <= d[c \div 2]
        BY <1>1, <3>6
      <4> QED  BY <2>3, <2>4, <3>1, <3>6, <4>1
    <3> QED  BY <3>3, <3>4, <3>5, <3>6
  <2>5. ASSUME NEW c \in 2 .. Len(d), c \div 2 = m
        PROVE  e[c] <= e[m \div 2]
    <3>1. c \in 1 .. Len(d) /\ c # m /\ c # i /\ c \in Int
      BY <1>2, <1>3, <1>6, <2>1, <2>5
    <3>2. d[c] <= d[m]
      BY <1>1, <1>7, <2>5
    <3> QED  BY <2>1, <2>3, <3>1, <3>2
  <2>6. Sifting(g, FALSE)
    <3>1. g.data = e /\ g.at = m
      BY <2>3 DEF e
    <3> QED  BY <1>6, <2>3, <2>4, <2>5, <3>1 DEF Sifting
  <2>7. ~Ordered(d)
    <3>1. d[m] > d[i] /\ d[m] \in Int /\ d[i] \in Int
      BY <1>1, <1>2, <1>6, <2>1
    <3>2. ~(d[m] <= d[i])
      BY <3>1
    <3> QED  BY <2>1, <3>2 DEF Ordered
  <2> QED  BY <2>1, <2>3, <2>6, <2>7 DEF d, e, i
<1>8. CASE m = i
  <2>1. g = h
    BY <1>5, <1>8
  <2>2. \A c \in 2 .. Len(d) : d[c] <= d[c \div 2]
    BY <1>1, <1>6, <1>8
  <2>3. Ordered(d)
    BY <2>2 DEF Ordered
  <2> QED  BY <2>1, <2>3 DEF Permuted, d
<1> QED  BY <1>7, <1>8

AreRounds(g, h, up, k) ==
  g = [n \in 0 .. k |-> IF n = 0 THEN h ELSE IF up THEN UpRound(g[n - 1]) ELSE DownRound(g[n - 1])]

\* The rounds of a loop are a function with the equation of its definition.
LEMMA RoundsExist ==
  ASSUME NEW h, NEW up \in BOOLEAN, NEW k \in Nat
  PROVE  \E g : AreRounds(g, h, up, k)
<1> DEFINE Round(x) == IF up THEN UpRound(x) ELSE DownRound(x)
           Run(n, g) == /\ DOMAIN g = 0 .. n /\ g = [i \in 0 .. n |-> g[i]]
                        /\ g[0] = h /\ \A i \in 1 .. n : g[i] = Round(g[i - 1])
           bad == {n \in 0 .. k : ~\E g : Run(n, g)}
<1> SUFFICES \E g : g = [n \in 0 .. k |-> IF n = 0 THEN h ELSE Round(g[n - 1])]
  BY DEF AreRounds
<1> HIDE DEF Round
<1>1. bad = {}
  <2> SUFFICES ASSUME bad # {}
               PROVE  FALSE
    OBVIOUS
  <2>1. bad \subseteq Nat
    OBVIOUS
  <2>2. PICK n \in bad : \A m \in bad : n <= m
    <3> HIDE DEF bad
    <3> QED  BY <2>1, LeastNatural
  <2>3. n \in 0 .. k /\ n \in Nat
    OBVIOUS
  <2>4. CASE n = 0
    <3> DEFINE g == [i \in 0 .. 0 |-> h]
    <3>1. Run(0, g)
      OBVIOUS
    <3> QED  BY <2>2, <2>4, <3>1
  <2>5. CASE n # 0
    <3>1. n - 1 \in 0 .. k /\ n - 1 \notin bad
      <4>1. n - 1 \in 0 .. k /\ ~(n <= n - 1)
        BY <2>3, <2>5
      <4> HIDE DEF bad
      <4> QED  BY <2>2, <4>1
    <3>2. PICK g : Run(n - 1, g)
      BY <3>1
    <3> DEFINE last == Round(g[n - 1])
               f == [i \in 0 .. n |-> IF i = n THEN last ELSE g[i]]
    <3>3. DOMAIN f = 0 .. n /\ f = [i \in 0 .. n |-> f[i]] /\ f[0] = h
      BY <2>3, <2>5, <3>2
    <3>4. \A i \in 1 .. n : f[i] = Round(f[i - 1])
      <4> TAKE i \in 1 .. n
      <4>1. i - 1 \in 0 .. n /\ i \in 0 .. n /\ f[i - 1] = g[i - 1]
        BY <2>3, <2>5
      <4>2. CASE i = n
        BY <4>1, <4>2
      <4>3. CASE i # n
        <5>1. i \in 1 .. n - 1 /\ f[i] = g[i]
          BY <2>3, <4>3
        <5> QED  BY <3>2, <4>1, <5>1
      <4> QED  BY <4>2, <4>3
    <3>5. Run(n, f)
      <4> HIDE DEF f
      <4> QED  BY <3>3, <3>4
    <3> QED  BY <2>2, <3>5
  <2> QED  BY <2>4, <2>5
<1>2. PICK g : Run(k, g)
  BY <1>1
<1>3. \A i \in 0 .. k : g[i] = IF i = 0 THEN h ELSE Round(g[i - 1])
  <2> TAKE i \in 0 .. k
  <2>1. CASE i = 0
    BY <1>2, <2>1
  <2>2. CASE i # 0
    <3>1. i \in 1 .. k
      BY <2>2
    <3> QED  BY <1>2, <2>2, <3>1
  <2> QED  BY <2>1, <2>2
<1>4. g = [i \in 0 .. k |-> g[i]]
  BY <1>2
<1> HIDE DEF Run
<1> QED  BY <1>3, <1>4

\* The loops end in time, with an ordered heap of the same values.
LEMMA RoundsOK ==
  ASSUME NEW h, NEW up \in BOOLEAN, Sifting(h, up), NEW k, k = IF up THEN h.at ELSE Len(h.data)
  PROVE  LET g == Rounds(h, up, k)
         IN  g.data \in Seq(MhValues) /\ MapOK(g.pos, g.data) /\ Ordered(g.data) /\ Permuted(g.data, h.data)
<1> DEFINE f == CHOOSE g : AreRounds(g, h, up, k)
           Ahead(x, n) == IF up THEN x.at + n <= h.at ELSE h.at + n <= x.at
           Good(x, n) == Sifting(x, up) /\ Permuted(x.data, h.data) /\ (Ordered(x.data) \/ Ahead(x, n))
           bad == {n \in 0 .. k : ~Good(f[n], n)}
<1>1. h.data \in Seq(MhValues) /\ h.at \in 1 .. Len(h.data)
  BY DEF Sifting
<1>2. Len(h.data) \in Nat
  BY <1>1
<1>3. h.at \in Nat \ {0} /\ k \in Nat
  BY <1>1, <1>2
<1>4. f = [n \in 0 .. k |-> IF n = 0 THEN h ELSE IF up THEN UpRound(f[n - 1]) ELSE DownRound(f[n - 1])]
  <2>1. k \in Nat
    BY <1>3
  <2>2. AreRounds(f, h, up, k)
    BY <2>1, RoundsExist
  <2> QED  BY <2>2 DEF AreRounds
<1>5. Rounds(h, up, k) = f[k]
  BY DEF Rounds, f, AreRounds
<1> HIDE DEF f
<1>6. f[0] = h /\ \A n \in 1 .. k : f[n] = IF up THEN UpRound(f[n - 1]) ELSE DownRound(f[n - 1])
  <2>1. 0 \in 0 .. k
    BY <1>3
  <2>2. f[0] = h
    BY <1>4, <2>1
  <2>3. ASSUME NEW n \in 1 .. k
        PROVE  f[n] = IF up THEN UpRound(f[n - 1]) ELSE DownRound(f[n - 1])
    <3>1. n \in 0 .. k /\ n # 0
      BY <1>3
    <3> QED  BY <1>4, <3>1
  <2> QED  BY <2>2, <2>3
<1>7. Good(h, 0)
  <2>1. Permuted(h.data, h.data)
    BY DEF Permuted
  <2>2. Ahead(h, 0)
    BY <1>3
  <2> QED  BY <2>1, <2>2
<1>8. ASSUME NEW n \in Nat, NEW x, NEW y, Good(x, n), y = IF up THEN UpRound(x) ELSE DownRound(x)
      PROVE  Good(y, n + 1)
  <2>1. Sifting(y, up) /\ Permuted(y.data, x.data)
    BY <1>8, UpRoundOK, DownRoundOK
  <2>2. \/ y = x /\ Ordered(x.data)
        \/ ~Ordered(x.data) /\ (IF up THEN y.at < x.at ELSE y.at > x.at)
    BY <1>8, UpRoundOK, DownRoundOK
  <2>3. Permuted(y.data, h.data)
    BY <1>8, <2>1 DEF Permuted
  <2>4. x.at \in Nat /\ y.at \in Nat
    <3>1. x.data \in Seq(MhValues) /\ x.at \in 1 .. Len(x.data) /\ y.data \in Seq(MhValues) /\ y.at \in 1 .. Len(y.data)
      BY <1>8, <2>1 DEF Sifting
    <3>2. Len(x.data) \in Nat /\ Len(y.data) \in Nat
      BY <3>1
    <3> QED  BY <3>1, <3>2
  <2>5. CASE y = x /\ Ordered(x.data)
    BY <2>1, <2>3, <2>5
  <2>6. CASE ~Ordered(x.data) /\ (IF up THEN y.at < x.at ELSE y.at > x.at)
    <3>1. Ahead(x, n)
      BY <1>8, <2>6
    <3>2. Ahead(y, n + 1)
      <4>1. CASE up
        <5>1. x.at + n <= h.at /\ y.at < x.at
          BY <2>6, <3>1, <4>1
        <5>2. y.at + (n + 1) <= h.at
          BY <1>3, <2>4, <5>1
        <5> QED  BY <4>1, <5>2
      <4>2. CASE ~up
        <5>1. h.at + n <= x.at /\ y.at > x.at
          BY <2>6, <3>1, <4>2
        <5>2. h.at + (n + 1) <= y.at
          BY <1>3, <2>4, <5>1
        <5> QED  BY <4>2, <5>2
      <4> QED  BY <4>1, <4>2
    <3> QED  BY <2>1, <2>3, <3>2
  <2> QED  BY <2>2, <2>5, <2>6
<1> HIDE DEF Good
<1>9. bad = {}
  <2> SUFFICES ASSUME bad # {}
               PROVE  FALSE
    OBVIOUS
  <2>1. bad \subseteq Nat
    BY <1>3
  <2>2. PICK n \in bad : \A m \in bad : n <= m
    <3> HIDE DEF bad
    <3> QED  BY <2>1, LeastNatural
  <2>3. n \in 0 .. k /\ n \in Nat /\ ~Good(f[n], n)
    BY <1>3
  <2>4. n # 0
    BY <1>6, <1>7, <2>3
  <2>5. n - 1 \in 0 .. k /\ ~(n <= n - 1) /\ n - 1 \in Nat /\ (n - 1) + 1 = n /\ n \in 1 .. k
    BY <1>3, <2>3, <2>4
  <2>6. Good(f[n - 1], n - 1)
    <3>1. n - 1 \notin bad
      <4> HIDE DEF bad
      <4> QED  BY <2>2, <2>5
    <3> QED  BY <2>5, <3>1
  <2>7. f[n] = IF up THEN UpRound(f[n - 1]) ELSE DownRound(f[n - 1])
    BY <1>6, <2>5
  <2>8. Good(f[n], (n - 1) + 1)
    BY <1>8, <2>5, <2>6, <2>7
  <2> QED  BY <2>3, <2>5, <2>8
<1>10. Good(f[k], k)
  <2>1. k \in 0 .. k
    BY <1>3
  <2> QED  BY <1>9, <2>1
<1> DEFINE g == f[k]
<1>11. Sifting(g, up) /\ Permuted(g.data, h.data) /\ (Ordered(g.data) \/ Ahead(g, k))
  BY <1>10 DEF Good
<1>12. g.data \in Seq(MhValues) /\ MapOK(g.pos, g.data) /\ g.at \in 1 .. Len(h.data)
  BY <1>11 DEF Sifting, Permuted
<1>13. g.at \in Nat \ {0} /\ g.at <= Len(h.data)
  BY <1>2, <1>12
<1>14. ~Ahead(g, k)
  <2>1. CASE up
    <3>1. k = h.at
      BY <2>1
    <3>2. ~(g.at + k <= h.at)
      BY <1>3, <1>13, <3>1
    <3> QED  BY <2>1, <3>2
  <2>2. CASE ~up
    <3>1. k = Len(h.data)
      BY <2>2
    <3>2. ~(h.at + k <= g.at)
      BY <1>2, <1>3, <1>13, <3>1
    <3> QED  BY <2>2, <3>2
  <2> QED  BY <2>1, <2>2
<1> QED  BY <1>5, <1>11, <1>12, <1>14

LEMMA BubbleUpOK ==
  ASSUME NEW h, Sifting(h, TRUE), NEW g, g = HeapBubbleUp(h)
  PROVE  g.data \in Seq(MhValues) /\ MapOK(g.pos, g.data) /\ Ordered(g.data) /\ Permuted(g.data, h.data)
BY RoundsOK DEF HeapBubbleUp

LEMMA BubbleDownOK ==
  ASSUME NEW h, Sifting(h, FALSE), NEW g, g = HeapBubbleDown(h)
  PROVE  g.data \in Seq(MhValues) /\ MapOK(g.pos, g.data) /\ Ordered(g.data) /\ Permuted(g.data, h.data)
BY RoundsOK DEF HeapBubbleDown

One(w, v) == IF w = v THEN 1 ELSE 0

\* e has v at its end, and is d otherwise.
Gained(e, d, v) ==
  /\ e \in Seq(MhValues) /\ Len(e) = Len(d) + 1
  /\ e[Len(d) + 1] = v /\ \A k \in 1 .. Len(d) : e[k] = d[k]
  /\ \A w \in MhValues : Cardinality(Places(e, w)) = Cardinality(Places(d, w)) + One(w, v)

LEMMA AppendPlaces ==
  ASSUME NEW d \in Seq(MhValues), NEW v \in MhValues
  PROVE  Gained(Append(d, v), d, v)
<1> DEFINE e == Append(d, v)
<1>1. e \in Seq(MhValues) /\ Len(e) = Len(d) + 1 /\ e[Len(d) + 1] = v /\ \A k \in 1 .. Len(d) : e[k] = d[k]
  OBVIOUS
<1>2. Len(d) \in Nat /\ DOMAIN d = 1 .. Len(d) /\ DOMAIN e = 1 .. Len(d) + 1
  OBVIOUS
<1>3. \A k : k \in 1 .. Len(d) + 1 <=> k \in 1 .. Len(d) \/ k = Len(d) + 1
  BY <1>2
<1>4. Len(d) + 1 \notin 1 .. Len(d)
  BY <1>2
<1>5. ASSUME NEW w \in MhValues
      PROVE  Cardinality(Places(e, w)) = Cardinality(Places(d, w)) + One(w, v)
  <2> HIDE DEF e
  <2>1. IsFiniteSet(Places(d, w)) /\ Cardinality(Places(d, w)) \in Nat
    BY PlacesFinite
  <2>2. CASE w = v
    <3>1. Places(e, w) = Places(d, w) \cup {Len(d) + 1}
      BY <1>1, <1>2, <1>3, <2>2 DEF Places
    <3>2. Len(d) + 1 \notin Places(d, w)
      BY <1>2, <1>4 DEF Places
    <3>3. Cardinality(Places(e, w)) = Cardinality(Places(d, w)) + 1
      BY <2>1, <3>1, <3>2, FS_AddElement
    <3> QED  BY <2>2, <3>3 DEF One
  <2>3. CASE w # v
    <3>1. Places(e, w) = Places(d, w)
      BY <1>1, <1>2, <1>3, <2>3 DEF Places
    <3> QED  BY <2>1, <2>3, <3>1 DEF One
  <2> QED  BY <2>2, <2>3
<1> HIDE DEF e
<1>6. Gained(e, d, v)
  BY <1>1, <1>5 DEF Gained
<1> QED  BY <1>6 DEF e

\* The array after the element at i is overwritten by the last one.
Without(d, i) ==
  IF i = Len(d) THEN SubSeq(d, 1, Len(d) - 1) ELSE [SubSeq(d, 1, Len(d) - 1) EXCEPT ![i] = d[Len(d)]]

Lost(e, d, i) ==
  /\ e \in Seq(MhValues) /\ Len(e) = Len(d) - 1
  /\ \A k \in 1 .. Len(e) : e[k] = IF k = i THEN d[Len(d)] ELSE d[k]
  /\ \A w \in MhValues : Cardinality(Places(d, w)) = Cardinality(Places(e, w)) + One(w, d[i])

LEMMA WithoutOK ==
  ASSUME NEW d \in Seq(MhValues), NEW i \in 1 .. Len(d)
  PROVE  Lost(Without(d, i), d, i)
<1> DEFINE e == Without(d, i)
           L == Len(d)
           s == SubSeq(d, 1, L - 1)
<1>1. L \in Nat \ {0} /\ d[i] \in MhValues /\ L \in 1 .. L /\ d[L] \in MhValues /\ DOMAIN d = 1 .. L
  OBVIOUS
<1>2. s \in Seq(MhValues) /\ Len(s) = L - 1 /\ \A k \in 1 .. L - 1 : s[k] = d[k]
  BY <1>1
<1>3. \A k : k \in 1 .. L <=> k \in 1 .. L - 1 \/ k = L
  BY <1>1
<1>4. L \notin 1 .. L - 1 /\ (L - 1) + 1 = L
  BY <1>1
<1>5. e = IF i = L THEN s ELSE [s EXCEPT ![i] = d[L]]
  BY DEF Without
<1> HIDE DEF L, s, e
<1>6. e \in Seq(MhValues) /\ Len(e) = L - 1
  <2>1. CASE i = L
    BY <1>2, <1>5, <2>1
  <2>2. CASE i # L
    BY <1>1, <1>2, <1>5, <2>2
  <2> QED  BY <2>1, <2>2
<1>7. \A k \in 1 .. L - 1 : e[k] = IF k = i THEN d[L] ELSE d[k]
  <2>1. CASE i = L
    BY <1>2, <1>4, <1>5, <2>1
  <2>2. CASE i # L
    <3>1. DOMAIN s = 1 .. L - 1
      BY <1>1, <1>2
    <3> QED  BY <1>2, <1>5, <2>2, <3>1
  <2> QED  BY <2>1, <2>2
<1> DEFINE a == Append(e, d[i])
<1>8. /\ a \in Seq(MhValues) /\ Len(a) = L
      /\ a[L] = d[i] /\ \A k \in 1 .. L - 1 : a[k] = e[k]
      /\ \A w \in MhValues : Cardinality(Places(a, w)) = Cardinality(Places(e, w)) + One(w, d[i])
  <2> HIDE DEF a
  <2> DEFINE v == d[i]
  <2>1. a = Append(e, v) /\ e \in Seq(MhValues) /\ v \in MhValues
    BY <1>1, <1>6 DEF a
  <2> HIDE DEF v
  <2>2. /\ a \in Seq(MhValues) /\ Len(a) = Len(e) + 1
        /\ a[Len(e) + 1] = v /\ \A k \in 1 .. Len(e) : a[k] = e[k]
        /\ \A w \in MhValues : Cardinality(Places(a, w)) = Cardinality(Places(e, w)) + One(w, v)
    <3>1. Gained(a, e, v)
      BY <2>1, AppendPlaces
    <3> QED  BY <3>1 DEF Gained
  <2>3. Len(e) = L - 1 /\ Len(e) + 1 = L
    BY <1>4, <1>6
  <2> QED  BY <2>2, <2>3 DEF v
<1> HIDE DEF a
<1>9. \A w \in MhValues : Cardinality(Places(a, w)) = Cardinality(Places(d, w))
  <2>0. i \in 1 .. L
    BY DEF L
  <2>1. CASE i = L
    <3>1. \A k \in 1 .. L : a[k] = d[k]
      BY <1>3, <1>4, <1>7, <1>8, <2>1
    <3>2. DOMAIN a = 1 .. L
      BY <1>8
    <3> QED  BY <1>1, <3>1, <3>2 DEF Places
  <2>2. CASE i # L
    <3>1. Permuted(Swapped(d, i, L), d) /\ Len(Swapped(d, i, L)) = L
      <4>1. L \in 1 .. Len(d)
        BY <1>1 DEF L
      <4> QED  BY <2>2, <4>1, SwapOK DEF L
    <3>2. DOMAIN a = 1 .. L
      BY <1>8
    <3>3. DOMAIN Swapped(d, i, L) = 1 .. L
      BY <1>1 DEF Swapped
    <3>4. \A k \in 1 .. L : a[k] = Swapped(d, i, L)[k]
      <4>1. \A k \in 1 .. L : Swapped(d, i, L)[k] = IF k = L THEN d[i] ELSE IF k = i THEN d[L] ELSE d[k]
        BY <1>1, <2>0, <2>2 DEF Swapped
      <4>2. \A k \in 1 .. L : a[k] = IF k = L THEN d[i] ELSE IF k = i THEN d[L] ELSE d[k]
        BY <1>3, <1>4, <1>7, <1>8
      <4> QED  BY <4>1, <4>2
    <3>5. \A w \in MhValues : Places(a, w) = Places(Swapped(d, i, L), w)
      BY <3>2, <3>3, <3>4 DEF Places
    <3> QED  BY <3>1, <3>5 DEF Permuted
  <2> QED  BY <2>1, <2>2
<1>10. \A w \in MhValues : Cardinality(Places(d, w)) = Cardinality(Places(e, w)) + One(w, d[i])
  BY <1>8, <1>9
<1>11. Lost(e, d, i)
  BY <1>6, <1>7, <1>10 DEF L, Lost
<1> QED  BY <1>11 DEF e

\* The map without the value that goes, and with the new place of the last.
LEMMA WithoutMap ==
  ASSUME NEW d \in Seq(MhValues), NEW i \in 1 .. Len(d), NEW e, e = Without(d, i),
         NEW pos, MapOK(pos, d), NEW new, new = SetPos(pos, d[i], 0)
  PROVE  MapOK(new, e) /\ (i # Len(d) => MapOK(SetPos(new, d[Len(d)], i), e))
<1> DEFINE L == Len(d)
<1>1. /\ L \in Nat \ {0} /\ d[i] \in MhValues /\ L \in 1 .. L /\ d[L] \in MhValues /\ i \in Nat
      /\ \A k \in 1 .. L : k # L => k \in 1 .. L - 1
  OBVIOUS
<1>2. Len(e) = L - 1 /\ \A k \in 1 .. L - 1 : e[k] = IF k = i THEN d[L] ELSE d[k]
  <2>1. Len(e) = Len(d) - 1 /\ \A k \in 1 .. Len(e) : e[k] = IF k = i THEN d[Len(d)] ELSE d[k]
    BY WithoutOK DEF Lost
  <2> QED  BY <2>1
<1>3. MapOK(new, d)
  BY <1>1, SetPosOK
<1>4. i \in 1 .. L
  OBVIOUS
<1> HIDE DEF L
<1>5. new[d[i]] = 0
  <2>1. d[i] \in Int /\ pos \in [MhValues -> Nat]
    BY <1>1, MhAssumption DEF MapOK
  <2>2. CASE d[i] >= 0
    BY <1>1, <2>1, <2>2 DEF SetPos
  <2>3. CASE ~(d[i] >= 0)
    <3>1. new = pos
      BY <2>3 DEF SetPos
    <3> QED  BY <1>1, <2>3, <3>1 DEF MapOK
  <2> QED  BY <2>2, <2>3
<1>6. MapOK(new, e)
  <2>1. ASSUME NEW w \in MhValues, new[w] # 0
        PROVE  \E k \in 1 .. Len(e) : e[k] = w
    <3>1. w # d[i]
      BY <1>5, <2>1
    <3>2. PICK k \in 1 .. L : d[k] = w
      BY <1>3, <2>1 DEF MapOK, L
    <3>3. k # i
      BY <3>1, <3>2
    <3>4. CASE k = L
      <4>1. i \in 1 .. L - 1
        BY <1>1, <1>4, <3>3, <3>4
      <4> QED  BY <1>2, <3>2, <3>4, <4>1
    <3>5. CASE k # L
      <4>1. k \in 1 .. L - 1
        BY <1>1, <3>5
      <4> QED  BY <1>2, <3>2, <3>3, <4>1
    <3> QED  BY <3>4, <3>5
  <2> QED  BY <1>3, <2>1 DEF MapOK
<1>7. ASSUME i # L
      PROVE  MapOK(SetPos(new, d[L], i), e)
  <2>1. i \in 1 .. L - 1
    BY <1>1, <1>4, <1>7
  <2>2. \E k \in 1 .. Len(e) : e[k] = d[L]
    BY <1>2, <2>1
  <2> QED  BY <1>1, <1>6, <2>2, SetPosOK
<1> QED  BY <1>6, <1>7 DEF L

\* What Remove and Pop leave is a heap but for the element at i.
LEMMA WithoutSifts ==
  ASSUME NEW d \in Seq(MhValues), Ordered(d), NEW i \in 1 .. Len(d), i # Len(d),
         NEW h, h.data = Without(d, i), MapOK(h.pos, h.data), h.at = i,
         NEW up, up = (i > 1 /\ h.data[i] > h.data[i \div 2])
  PROVE  Sifting(h, up)
<1> DEFINE L == Len(d)
           e == h.data
           M == L - 1
<1>1. /\ e \in Seq(MhValues) /\ Len(e) = M
      /\ \A k \in 1 .. M : e[k] = IF k = i THEN d[L] ELSE d[k]
  <2>1. Len(e) = L - 1 /\ \A k \in 1 .. Len(e) : e[k] = IF k = i THEN d[L] ELSE d[k]
    BY WithoutOK DEF Lost
  <2>2. e \in Seq(MhValues)
    BY WithoutOK DEF Lost
  <2> QED  BY <2>1, <2>2
<1>2. /\ M \in Nat /\ i \in 1 .. M /\ i \in Nat
      /\ \A k \in 1 .. M : d[k] \in Int /\ e[k] \in Int
      /\ \A c \in 2 .. M : d[c] <= d[c \div 2] /\ c \in 1 .. M /\ c \div 2 \in 1 .. M /\ c \div 2 < c /\ c \in Int
  <2>1. L \in Nat /\ \A k \in 1 .. L : d[k] \in Int
    BY ValuesOf
  <2>2. \A k \in 1 .. M : e[k] \in Int
    BY <1>1, ValuesOf
  <2>3. \A c \in 2 .. L : d[c] <= d[c \div 2]
    BY DEF Ordered
  <2>4. M \in Nat /\ i \in 1 .. M /\ i \in Nat
    BY <2>1
  <2>5. \A c \in 2 .. M : c \in 2 .. L
    BY <2>1
  <2>6. \A c \in 2 .. M : c \in 1 .. M /\ c \div 2 \in 1 .. M /\ c \div 2 < c /\ c \in Int
    BY <2>4
  <2>7. \A k \in 1 .. M : k \in 1 .. L
    BY <2>1
  <2> HIDE DEF L, M, e
  <2> QED  BY <2>1, <2>2, <2>3, <2>4, <2>5, <2>6, <2>7
<1>3. up = (i > 1 /\ e[i] > e[i \div 2])
  OBVIOUS
<1> HIDE DEF L, e, M
<1>4. i > 1 => i \in 2 .. M /\ i \div 2 \in 1 .. M /\ i \div 2 # i
  BY <1>2
<1>5. ASSUME NEW c \in 2 .. M, c \div 2 = i, i > 1
      PROVE  e[c] <= e[i \div 2]
  <2>1. c \in 1 .. M /\ c # i
    BY <1>2, <1>5
  <2>2. e[c] = d[c] /\ e[i \div 2] = d[i \div 2]
    BY <1>1, <1>4, <1>5, <2>1
  <2>3. d[c] <= d[i] /\ d[i] <= d[i \div 2]
    BY <1>2, <1>4, <1>5
  <2>4. d[c] \in Int /\ d[i] \in Int /\ d[i \div 2] \in Int
    BY <1>2, <1>4, <1>5, <2>1
  <2>5. d[c] <= d[i \div 2]
    BY <2>3, <2>4
  <2> QED  BY <2>2, <2>5
<1>6. ASSUME NEW c \in 2 .. M, IF up THEN c # i ELSE c \div 2 # i
      PROVE  e[c] <= e[c \div 2]
  <2>1. c \in 1 .. M /\ c \div 2 \in 1 .. M
    BY <1>2
  <2>2. CASE c = i
    <3>1. ~up
      BY <1>6, <2>2
    <3>2. i > 1
      BY <1>2, <2>2
    <3>3. ~(e[i] > e[i \div 2]) /\ e[i] \in Int /\ e[i \div 2] \in Int
      BY <1>2, <1>3, <1>4, <3>1, <3>2
    <3> QED  BY <2>2, <3>3
  <2>3. CASE c # i /\ c \div 2 = i
    <3>1. up
      BY <1>6, <2>3
    <3>2. i > 1 /\ e[i] > e[i \div 2]
      BY <1>3, <3>1
    <3>3. e[c] <= e[i \div 2]
      BY <1>5, <2>3, <3>2
    <3>4. e[c] \in Int /\ e[i] \in Int /\ e[i \div 2] \in Int
      BY <1>2, <1>4, <2>1, <3>2
    <3> QED  BY <2>3, <3>2, <3>3, <3>4
  <2>4. CASE c # i /\ c \div 2 # i
    BY <1>1, <1>2, <2>1, <2>4
  <2> QED  BY <2>2, <2>3, <2>4
<1>7. h.data \in Seq(MhValues) /\ h.at \in 1 .. Len(h.data) /\ Len(h.data) = M
  BY <1>1, <1>2 DEF e
<1> QED  BY <1>5, <1>6, <1>7 DEF Sifting, e

\* An ordered heap with its map, which is d without its element at i.
Taken(e, pos, d, i) ==
  /\ e \in Seq(MhValues) /\ MapOK(pos, e) /\ Ordered(e)
  /\ \A w \in MhValues : Cardinality(Places(d, w)) = Cardinality(Places(e, w)) + One(w, d[i])

LEMMA LastTaken ==
  ASSUME NEW d \in Seq(MhValues), NEW pos, MapOK(pos, d), Ordered(d), d # << >>
  PROVE  Taken(SubSeq(d, 1, Len(d) - 1), SetPos(pos, d[Len(d)], 0), d, Len(d))
<1> DEFINE L == Len(d)
           e == Without(d, L)
<1>1. L \in 1 .. Len(d) /\ L \in Nat
  OBVIOUS
<1> HIDE DEF L, e
<1>2. Lost(e, d, L)
  BY <1>1, WithoutOK DEF e
<1>3. MapOK(SetPos(pos, d[L], 0), e)
  BY <1>1, WithoutMap DEF e
<1>4. Ordered(e)
  <2>1. Len(e) = L - 1 /\ \A k \in 1 .. L - 1 : e[k] = d[k]
    <3>1. Len(e) = L - 1 /\ \A k \in 1 .. Len(e) : e[k] = IF k = L THEN d[L] ELSE d[k]
      BY <1>2 DEF Lost, L
    <3> QED  BY <3>1
  <2>2. \A c \in 2 .. L : d[c] <= d[c \div 2]
    BY DEF Ordered, L
  <2>3. \A c \in 2 .. L - 1 : c \in 2 .. L /\ c \in 1 .. L - 1 /\ c \div 2 \in 1 .. L - 1
    BY <1>1
  <2> QED  BY <2>1, <2>2, <2>3 DEF Ordered
<1>5. e = SubSeq(d, 1, L - 1)
  BY DEF Without, e, L
<1>6. Taken(e, SetPos(pos, d[L], 0), d, L)
  BY <1>2, <1>3, <1>4 DEF Taken, Lost
<1> QED  BY <1>5, <1>6 DEF L

LEMMA OtherTaken ==
  ASSUME NEW d \in Seq(MhValues), NEW pos, MapOK(pos, d), Ordered(d), NEW i \in 1 .. Len(d), i # Len(d),
         NEW h, h.data = Without(d, i), h.pos = SetPos(SetPos(pos, d[i], 0), d[Len(d)], i), h.at = i,
         NEW g, g = IF i > 1 /\ h.data[i] > h.data[i \div 2] THEN HeapBubbleUp(h) ELSE HeapBubbleDown(h)
  PROVE  Taken(g.data, g.pos, d, i)
<1>1. Lost(h.data, d, i)
  BY WithoutOK
<1>2. MapOK(h.pos, h.data)
  BY WithoutMap
<1> DEFINE up == i > 1 /\ h.data[i] > h.data[i \div 2]
<1>3. Sifting(h, up)
  BY <1>2, WithoutSifts
<1>4. g = IF up THEN HeapBubbleUp(h) ELSE HeapBubbleDown(h)
  OBVIOUS
<1>5. up \in BOOLEAN
  OBVIOUS
<1> HIDE DEF up
<1>6. g.data \in Seq(MhValues) /\ MapOK(g.pos, g.data) /\ Ordered(g.data) /\ Permuted(g.data, h.data)
  <2>1. CASE up
    <3>1. Sifting(h, TRUE) /\ g = HeapBubbleUp(h)
      BY <1>3, <1>4, <1>5, <2>1
    <3> QED  BY <3>1, BubbleUpOK
  <2>2. CASE ~up
    <3>1. Sifting(h, FALSE) /\ g = HeapBubbleDown(h)
      BY <1>3, <1>4, <1>5, <2>2
    <3> QED  BY <3>1, BubbleDownOK
  <2> QED  BY <2>1, <2>2
<1>7. \A w \in MhValues : Cardinality(Places(d, w)) = Cardinality(Places(g.data, w)) + One(w, d[i])
  BY <1>1, <1>6 DEF Permuted, Lost
<1> QED  BY <1>6, <1>7 DEF Taken

LEMMA TakenStep ==
  ASSUME MhInv, NEW i \in 1 .. Len(mhData), Taken(mhData', mhPos', mhData, i), Counted(mhData[i], -1)
  PROVE  MhInv'
<1> DEFINE v == mhData[i]
<1>1. /\ mhData \in Seq(MhValues) /\ mhCount \in [MhValues -> Nat]
      /\ \A w \in MhValues : Cardinality(Places(mhData, w)) = mhCount[w]
  BY DEF MhInv
<1>2. v \in MhValues
  BY <1>1
<1>3. mhCount' = [mhCount EXCEPT ![v] = @ + (-1)]
  BY DEF Counted
<1> HIDE DEF v
<1>4. /\ mhData' \in Seq(MhValues) /\ MapOK(mhPos', mhData') /\ Ordered(mhData')
      /\ \A w \in MhValues : Cardinality(Places(mhData, w)) = Cardinality(Places(mhData', w)) + One(w, v)
  BY DEF Taken, v
<1>5. DOMAIN mhCount' = MhValues /\ mhCount' = [w \in MhValues |-> mhCount'[w]]
  BY <1>1, <1>3
<1>6. ASSUME NEW w \in MhValues
      PROVE  mhCount'[w] \in Nat /\ Cardinality(Places(mhData', w)) = mhCount'[w]
  <2>1. Cardinality(Places(mhData', w)) \in Nat
    BY <1>4, PlacesFinite
  <2>2. mhCount[w] = Cardinality(Places(mhData', w)) + One(w, v)
    BY <1>1, <1>4
  <2>3. CASE w = v
    <3>1. mhCount'[w] = mhCount[w] + (-1) /\ One(w, v) = 1
      BY <1>1, <1>2, <1>3, <2>3 DEF One
    <3> QED  BY <2>1, <2>2, <3>1
  <2>4. CASE w # v
    <3>1. mhCount'[w] = mhCount[w] /\ One(w, v) = 0
      BY <1>1, <1>2, <1>3, <2>4 DEF One
    <3> QED  BY <2>1, <2>2, <3>1
  <2> QED  BY <2>3, <2>4
<1>7. mhCount' \in [MhValues -> Nat]
  BY <1>5, <1>6
<1> QED  BY <1>4, <1>6, <1>7 DEF MhInv

LEMMA HeapInsertStep ==
  ASSUME MhInv, NEW v \in MhValues, HeapInsert(v)
  PROVE  MhInv'
<1> DEFINE d == mhData
           e == Append(d, v)
           L == Len(d)
           h == [data |-> e, pos |-> SetPos(mhPos, v, L + 1), at |-> L + 1]
           g == HeapBubbleUp(h)
<1>1. /\ d \in Seq(MhValues) /\ mhCount \in [MhValues -> Nat] /\ MapOK(mhPos, d) /\ Ordered(d)
      /\ \A w \in MhValues : Cardinality(Places(d, w)) = mhCount[w]
  BY DEF MhInv
<1>2. mhData' = g.data /\ mhPos' = g.pos /\ mhCount' = [mhCount EXCEPT ![v] = @ + 1]
  BY DEF HeapInsert, Become, Counted
<1>3. h.data = e /\ h.pos = SetPos(mhPos, v, L + 1) /\ h.at = L + 1
  OBVIOUS
<1>4. Gained(e, d, v)
  BY <1>1, AppendPlaces
<1>5. L \in Nat
  BY <1>1
<1> HIDE DEF d, e, L, h, g
<1>6. /\ e \in Seq(MhValues) /\ Len(e) = L + 1 /\ e[L + 1] = v /\ \A k \in 1 .. L : e[k] = d[k]
      /\ \A w \in MhValues : Cardinality(Places(e, w)) = Cardinality(Places(d, w)) + One(w, v)
  BY <1>4 DEF Gained, L
<1>7. L + 1 \in 1 .. Len(e) /\ L + 1 \in Nat /\ \A k \in 1 .. L : k \in 1 .. Len(e)
  <2>1. L + 1 \in 1 .. L + 1 /\ L + 1 \in Nat /\ \A k \in 1 .. L : k \in 1 .. L + 1
    BY <1>5
  <2> QED  BY <1>6, <2>1
<1>8. MapOK(h.pos, e)
  <2>1. MapOK(mhPos, e)
    <3>1. \A w \in MhValues : (\E k \in 1 .. L : d[k] = w) => \E k \in 1 .. Len(e) : e[k] = w
      BY <1>6, <1>7
    <3> QED  BY <1>1, <3>1 DEF MapOK, L
  <2>2. \E k \in 1 .. Len(e) : e[k] = v
    BY <1>6, <1>7
  <2> QED  BY <1>3, <1>7, <2>1, <2>2, SetPosOK
<1>9. Sifting(h, TRUE)
  <2>1. \A c \in 2 .. L : d[c] <= d[c \div 2]
    BY <1>1 DEF Ordered, L
  <2>2. \A c \in 2 .. L + 1 : c \div 2 # L + 1 /\ (c # L + 1 => c \in 2 .. L /\ c \in 1 .. L /\ c \div 2 \in 1 .. L)
    BY <1>5
  <2>3. \A c \in 2 .. L + 1 : c # L + 1 => e[c] <= e[c \div 2]
    BY <1>6, <2>1, <2>2
  <2> QED  BY <1>3, <1>6, <1>7, <1>8, <2>2, <2>3 DEF Sifting
<1>10. g.data \in Seq(MhValues) /\ MapOK(g.pos, g.data) /\ Ordered(g.data) /\ Permuted(g.data, e)
  BY <1>3, <1>9, BubbleUpOK DEF g
<1>11. \A w \in MhValues : Cardinality(Places(mhData', w)) = mhCount[w] + One(w, v)
  BY <1>1, <1>2, <1>6, <1>10 DEF Permuted
<1>12. DOMAIN mhCount' = MhValues /\ mhCount' = [w \in MhValues |-> mhCount'[w]]
  BY <1>1, <1>2
<1>13. ASSUME NEW w \in MhValues
       PROVE  mhCount'[w] \in Nat /\ mhCount'[w] = mhCount[w] + One(w, v)
  <2>1. CASE w = v
    BY <1>1, <1>2, <2>1 DEF One
  <2>2. CASE w # v
    BY <1>1, <1>2, <2>2 DEF One
  <2> QED  BY <2>1, <2>2
<1>14. mhCount' \in [MhValues -> Nat]
  BY <1>12, <1>13
<1> QED  BY <1>2, <1>10, <1>11, <1>13, <1>14 DEF MhInv

LEMMA HeapPopStep ==
  ASSUME MhInv, HeapPop
  PROVE  MhInv'
<1>1. /\ mhData \in Seq(MhValues) /\ MapOK(mhPos, mhData) /\ Ordered(mhData) /\ mhData # << >>
      /\ Counted(mhData[1], -1)
  BY DEF MhInv, HeapPop
<1>2. 1 \in 1 .. Len(mhData)
  BY <1>1
<1>3. CASE Len(mhData) = 1
  <2>1. mhData' = << >> /\ mhPos' = SetPos(mhPos, mhData[1], 0)
    BY <1>3 DEF HeapPop, Become
  <2>2. SubSeq(mhData, 1, Len(mhData) - 1) = << >>
    BY <1>1, <1>3
  <2>3. Taken(mhData', mhPos', mhData, 1)
    BY <1>1, <1>3, <2>1, <2>2, LastTaken
  <2> QED  BY <1>1, <1>2, <2>3, TakenStep
<1>4. CASE Len(mhData) # 1
  <2> DEFINE h == [data |-> [Shrunk EXCEPT ![1] = Final],
                   pos |-> SetPos(SetPos(mhPos, mhData[1], 0), Final, 1), at |-> 1]
             g == HeapBubbleDown(h)
  <2>1. mhData' = g.data /\ mhPos' = g.pos
    BY <1>4 DEF HeapPop, Become
  <2>2. h.data = Without(mhData, 1)
    BY <1>4 DEF Without, Shrunk, Final
  <2>3. h.pos = SetPos(SetPos(mhPos, mhData[1], 0), mhData[Len(mhData)], 1) /\ h.at = 1
    BY DEF Final
  <2> HIDE DEF h
  <2>4. g = IF 1 > 1 /\ h.data[1] > h.data[1 \div 2] THEN HeapBubbleUp(h) ELSE HeapBubbleDown(h)
    OBVIOUS
  <2> HIDE DEF g
  <2>5. Taken(g.data, g.pos, mhData, 1)
    BY <1>1, <1>2, <1>4, <2>2, <2>3, <2>4, OtherTaken
  <2> QED  BY <1>1, <1>2, <2>1, <2>5, TakenStep
<1> QED  BY <1>3, <1>4

\* What the map or the search finds is a place of v.
LEMMA FoundPlace ==
  ASSUME MhInv, NEW v \in MhValues, FindIndex(v) # 0
  PROVE  FindIndex(v) \in 1 .. Len(mhData) /\ mhData[FindIndex(v)] = v
<1> DEFINE mapped == IF v >= 0 THEN mhPos[v] ELSE 0
           places == {j \in DOMAIN mhData : mhData[j] = v}
<1>1. mhData \in Seq(MhValues) /\ MapOK(mhPos, mhData)
  BY DEF MhInv
<1>2. DOMAIN mhData = 1 .. Len(mhData) /\ Len(mhData) \in Nat
  BY <1>1
<1>3. FindIndex(v) = IF (mapped \in DOMAIN mhData /\ mhData[mapped] = v) \/ places = {}
                     THEN mapped ELSE CHOOSE j \in places : \A k \in places : j <= k
  BY DEF FindIndex
<1>4. CASE mapped \in DOMAIN mhData /\ mhData[mapped] = v
  BY <1>2, <1>3, <1>4
<1>5. CASE places = {}
  <2>1. FindIndex(v) = mapped
    BY <1>3, <1>5
  <2>2. v >= 0 /\ mhPos[v] # 0
    BY <2>1
  <2>3. \E i \in 1 .. Len(mhData) : mhData[i] = v
    BY <1>1, <2>2 DEF MapOK
  <2> QED  BY <1>2, <1>5, <2>3
<1>6. CASE ~(mapped \in DOMAIN mhData /\ mhData[mapped] = v) /\ places # {}
  <2>1. FindIndex(v) = CHOOSE j \in places : \A k \in places : j <= k
    BY <1>3, <1>6
  <2>2. places \subseteq Nat
    BY <1>2
  <2> HIDE DEF places
  <2>3. \E j \in places : \A k \in places : j <= k
    BY <1>6, <2>2, LeastNatural
  <2>4. FindIndex(v) \in places
    BY <2>1, <2>3
  <2> QED  BY <1>2, <2>4 DEF places
<1> QED  BY <1>4, <1>5, <1>6

LEMMA HeapRemoveStep ==
  ASSUME MhInv, NEW v \in MhValues, HeapRemove(v)
  PROVE  MhInv'
<1> DEFINE i == FindIndex(v)
<1>1. /\ mhData \in Seq(MhValues) /\ MapOK(mhPos, mhData) /\ Ordered(mhData) /\ mhData # << >>
  BY DEF MhInv, HeapRemove
<1>2. i \in 1 .. Len(mhData) /\ mhData[i] = v
  BY FoundPlace DEF HeapRemove
<1>3. HeapRemoveAt(v, i) /\ Counted(v, -1)
  BY DEF HeapRemove
<1> HIDE DEF i
<1>4. Counted(mhData[i], -1)
  BY <1>2, <1>3
<1>5. CASE i = Len(mhData)
  <2>1. mhData' = SubSeq(mhData, 1, Len(mhData) - 1) /\ mhPos' = SetPos(mhPos, mhData[Len(mhData)], 0)
    BY <1>2, <1>3, <1>5 DEF HeapRemoveAt, Become, Shrunk
  <2>2. Taken(mhData', mhPos', mhData, i)
    BY <1>1, <1>5, <2>1, LastTaken
  <2> QED  BY <1>2, <1>4, <2>2, TakenStep
<1>6. CASE i # Len(mhData)
  <2> DEFINE h == [data |-> [Shrunk EXCEPT ![i] = Final],
                   pos |-> SetPos(SetPos(mhPos, v, 0), Final, i), at |-> i]
             g == IF i > 1 /\ h.data[i] > h.data[i \div 2] THEN HeapBubbleUp(h) ELSE HeapBubbleDown(h)
  <2>1. mhData' = g.data /\ mhPos' = g.pos
    BY <1>3, <1>6 DEF HeapRemoveAt, Become
  <2>2. h.data = Without(mhData, i)
    BY <1>6 DEF Without, Shrunk, Final
  <2>3. h.pos = SetPos(SetPos(mhPos, mhData[i], 0), mhData[Len(mhData)], i) /\ h.at = i
    BY <1>2 DEF Final
  <2> HIDE DEF h
  <2>4. g = IF i > 1 /\ h.data[i] > h.data[i \div 2] THEN HeapBubbleUp(h) ELSE HeapBubbleDown(h)
    OBVIOUS
  <2> HIDE DEF g
  <2>5. Taken(g.data, g.pos, mhData, i)
    BY <1>1, <1>2, <1>6, <2>2, <2>3, <2>4, OtherTaken
  <2> QED  BY <1>2, <1>4, <2>1, <2>5, TakenStep
<1> QED  BY <1>5, <1>6

LEMMA EmptyHeap ==
  ASSUME NEW d, d = << >>, NEW pos, pos = [v \in MhValues |-> 0], NEW count, count = [v \in MhValues |-> 0]
  PROVE  /\ d \in Seq(MhValues) /\ MapOK(pos, d) /\ Ordered(d) /\ count \in [MhValues -> Nat]
         /\ \A v \in MhValues : Cardinality(Places(d, v)) = count[v]
<1>1. d \in Seq(MhValues) /\ Len(d) = 0 /\ DOMAIN d = {}
  OBVIOUS
<1>2. \A v : Places(d, v) = {}
  BY <1>1 DEF Places
<1> QED  BY <1>1, <1>2, FS_EmptySet DEF MapOK, Ordered

\* loopyMaxHeap.c keeps the values that were inserted and not removed, in heap
\* order, and its position map names only values that are in the array: Remove
\* never overwrites another value.
THEOREM MaxHeapIsMultiset == MhSpec => []HeapIsMultiset
<1>1. MhInit => MhInv
  BY EmptyHeap DEF MhInit, MhInv
<1>2. MhInv /\ [MhNext]_mhVars => MhInv'
  <2> SUFFICES ASSUME MhInv, [MhNext]_mhVars
               PROVE  MhInv'
    OBVIOUS
  <2>1. CASE HeapClear
    BY <2>1, EmptyHeap DEF HeapClear, MhInv
  <2>2. CASE UNCHANGED mhVars
    BY <2>2 DEF mhVars, MhInv
  <2> QED  BY <2>1, <2>2, HeapInsertStep, HeapRemoveStep, HeapPopStep DEF MhNext
<1>3. MhInv => HeapIsMultiset
  <2> SUFFICES ASSUME MhInv
               PROVE  HeapIsMultiset
    OBVIOUS
  <2>1. \A v \in MhValues : Cardinality({i \in DOMAIN mhData : mhData[i] = v}) = mhCount[v]
    BY DEF MhInv, Places
  <2>2. ASSUME NEW v \in MhValues, mhPos[v] # 0
        PROVE  mhCount[v] > 0
    <3>1. mhData \in Seq(MhValues)
      BY DEF MhInv
    <3>2. PICK i \in 1 .. Len(mhData) : mhData[i] = v
      BY <2>2 DEF MhInv, MapOK
    <3>3. Places(mhData, v) # {}
      BY <3>1, <3>2 DEF Places
    <3>4. IsFiniteSet(Places(mhData, v)) /\ Cardinality(Places(mhData, v)) \in Nat
      BY <3>1, PlacesFinite
    <3>5. Cardinality(Places(mhData, v)) # 0
      BY <3>3, <3>4, FS_EmptySet
    <3>6. Cardinality(Places(mhData, v)) = mhCount[v]
      BY DEF MhInv
    <3> QED  BY <3>4, <3>5, <3>6
  <2>3. \A i \in 2 .. Len(mhData) : mhData[i] <= mhData[i \div 2]
    BY DEF MhInv, Ordered
  <2> QED  BY <2>1, <2>2, <2>3 DEF HeapIsMultiset
<1> QED  BY <1>1, <1>2, <1>3, PTL DEF MhSpec
=============================================================================
