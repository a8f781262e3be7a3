--------------------------- MODULE LoopyWorkProofs ---------------------------
(***************************************************************************)
(* Proofs about the async handle, for any finite set of senders and any    *)
(* number of calls, and about the thread pool that wakes its loop with     *)
(* one, for any finite set of workers, any number of items, any queue      *)
(* limit, and whether or not threads can be created.                       *)
(*                                                                         *)
(* The handle's inductive invariant is the place of the wakeup token       *)
(* (TokenInv) together with the two counting facts that hang on it.        *)
(* Every step of the pool is a step of its async handle or leaves it alone,*)
(* so the handle's invariants hold under the pool too.  To them            *)
(* and to the properties the inductive invariant adds: where a worker is   *)
(* tells whether it holds an item and whether it is inside loopyAsyncSend  *)
(* (WorkerInv), the stages of the pool's life (StageInv), and how far each *)
(* item has got, by where it is (ProgressInv).                             *)
(***************************************************************************)
EXTENDS LoopyWork, FiniteSetTheorems, SequenceTheorems, FunctionTheorems, TLAPS

-----------------------------------------------------------------------------
(* The async handle                                                         *)

AsyncInv ==
  /\ AsyncTypeOK
  /\ TokenInv
  /\ NoLostWakeup
  /\ CallbacksBounded
  /\ FreedHandleUnused

\* The callers that have yet to try the compare-and-swap are finitely many;
\* one joins at SendCall, one leaves at SendCas.
LEMMA UndecidedCount ==
  ASSUME AsyncTypeOK
  PROVE  /\ IsFiniteSet(Undecided)
         /\ Cardinality(Undecided) \in Nat
  <1>1. Undecided \subseteq Senders
    BY DEF Undecided
  <1>2. IsFiniteSet(Undecided)
    BY <1>1, SendersAssumption, FS_Subset
  <1> QED
    BY <1>2, FS_CardinalityType

\* Types of the handle's state are kept by every step.
LEMMA TypeStep == AsyncTypeOK /\ [AsyncNext]_asyncVars => AsyncTypeOK'
  <1> SUFFICES ASSUME AsyncTypeOK, [AsyncNext]_asyncVars
               PROVE  AsyncTypeOK'
    OBVIOUS
  <1> USE DEF AsyncTypeOK
  <1>1. ASSUME NEW s \in Senders, SendCall(s) PROVE AsyncTypeOK'
    BY <1>1, MaxSendsAssumption DEF SendCall
  <1>2. ASSUME NEW s \in Senders, SendCas(s) PROVE AsyncTypeOK'
    BY <1>2 DEF SendCas
  <1>3. ASSUME NEW s \in Senders, SendWrite(s) PROVE AsyncTypeOK'
    BY <1>3 DEF SendWrite
  <1>4. CASE AsyncLoopStep
    BY <1>4 DEF AsyncLoopStep, PollReadable, Drain, ClearPending, CallbackStart, CallbackReturn
  <1>5. CASE AsyncFree
    BY <1>5 DEF AsyncFree
  <1>6. CASE UNCHANGED asyncVars
    BY <1>6 DEF asyncVars
  <1> QED
    BY <1>1, <1>2, <1>3, <1>4, <1>5, <1>6 DEF AsyncNext, SenderStep

\* Every step leaves the wakeup token in exactly one place.
LEMMA TokenStep ==
  AsyncTypeOK /\ TokenInv /\ [AsyncNext]_asyncVars => TokenInv'
  <1> SUFFICES ASSUME AsyncTypeOK, TokenInv, [AsyncNext]_asyncVars
               PROVE  TokenInv'
    OBVIOUS
  <1> USE DEF AsyncTypeOK, TokenInv
  <1>1. ASSUME NEW s \in Senders, SendCall(s) PROVE TokenInv'
    BY <1>1 DEF SendCall
  <1>2. ASSUME NEW s \in Senders, SendCas(s) PROVE TokenInv'
    BY <1>2 DEF SendCas
  <1>3. ASSUME NEW s \in Senders, SendWrite(s) PROVE TokenInv'
    BY <1>3 DEF SendWrite
  <1>4. CASE PollReadable
    BY <1>4 DEF PollReadable
  <1>5. CASE Drain
    BY <1>5 DEF Drain
  <1>6. CASE ClearPending
    BY <1>6 DEF ClearPending
  <1>7. CASE CallbackStart \/ CallbackReturn
    BY <1>7 DEF CallbackStart, CallbackReturn
  <1>8. CASE AsyncFree \/ UNCHANGED asyncVars
    BY <1>8 DEF AsyncFree, asyncVars
  <1> QED
    BY <1>1, <1>2, <1>3, <1>4, <1>5, <1>6, <1>7, <1>8
       DEF AsyncNext, SenderStep, AsyncLoopStep

\* While the token is in place, an uncovered call keeps a wakeup on its way.
LEMMA WakeupStep ==
  AsyncTypeOK /\ TokenInv /\ NoLostWakeup /\ [AsyncNext]_asyncVars => NoLostWakeup'
  <1> SUFFICES ASSUME AsyncTypeOK, TokenInv, NoLostWakeup, [AsyncNext]_asyncVars
               PROVE  NoLostWakeup'
    OBVIOUS
  <1> USE DEF AsyncTypeOK, TokenInv, NoLostWakeup
  <1>1. ASSUME NEW s \in Senders, SendCall(s) PROVE NoLostWakeup'
    BY <1>1 DEF SendCall
  <1>2. ASSUME NEW s \in Senders, SendCas(s) PROVE NoLostWakeup'
    BY <1>2 DEF SendCas
  <1>3. ASSUME NEW s \in Senders, SendWrite(s) PROVE NoLostWakeup'
    BY <1>3 DEF SendWrite
  <1>4. CASE AsyncLoopStep
    BY <1>4 DEF AsyncLoopStep, PollReadable, Drain, ClearPending, CallbackStart, CallbackReturn
  <1>5. CASE AsyncFree \/ UNCHANGED asyncVars
    BY <1>5 DEF AsyncFree, asyncVars
  <1> QED
    BY <1>1, <1>2, <1>3, <1>4, <1>5 DEF AsyncNext, SenderStep

\* Each callback uses up a call of its own.
LEMMA CountStep ==
  AsyncTypeOK /\ TokenInv /\ CallbacksBounded /\ [AsyncNext]_asyncVars => CallbacksBounded'
  <1> SUFFICES ASSUME AsyncTypeOK, TokenInv, CallbacksBounded, [AsyncNext]_asyncVars
               PROVE  CallbacksBounded'
    OBVIOUS
  <1>a. IsFiniteSet(Undecided) /\ Cardinality(Undecided) \in Nat
    BY UndecidedCount
  <1>1. ASSUME NEW s \in Senders, SendCall(s) PROVE CallbacksBounded'
    <2>1. Undecided' = Undecided \cup {s} /\ s \notin Undecided
      BY <1>1 DEF SendCall, Undecided, AsyncTypeOK
    <2>2. Cardinality(Undecided') = Cardinality(Undecided) + 1
      BY <2>1, <1>a, FS_AddElement
    <2> QED
      BY <1>1, <1>a, <2>2 DEF SendCall, CallbacksBounded, AsyncTypeOK
  <1>2. ASSUME NEW s \in Senders, SendCas(s) PROVE CallbacksBounded'
    <2>1. Undecided' = Undecided \ {s} /\ s \in Undecided
      BY <1>2 DEF SendCas, Undecided, AsyncTypeOK
    <2>2. Cardinality(Undecided') = Cardinality(Undecided) - 1
      BY <2>1, <1>a, FS_RemoveElement
    <2> QED
      BY <1>2, <1>a, <2>2 DEF SendCas, CallbacksBounded, AsyncTypeOK
  <1>3. ASSUME NEW s \in Senders, SendWrite(s) PROVE CallbacksBounded'
    <2>1. Undecided' = Undecided
      BY <1>3 DEF SendWrite, Undecided, AsyncTypeOK
    <2> QED
      BY <1>3, <1>a, <2>1 DEF SendWrite, CallbacksBounded, AsyncTypeOK
  <1>4. CASE AsyncLoopStep
    <2>1. Undecided' = Undecided
      BY <1>4 DEF AsyncLoopStep, PollReadable, Drain, ClearPending, CallbackStart,
                  CallbackReturn, Undecided
    <2> QED
      BY <1>4, <1>a, <2>1 DEF AsyncLoopStep, PollReadable, Drain, ClearPending, CallbackStart,
                  CallbackReturn, CallbacksBounded, AsyncTypeOK, TokenInv
  <1>5. CASE AsyncFree \/ UNCHANGED asyncVars
    <2>1. Undecided' = Undecided
      BY <1>5 DEF AsyncFree, asyncVars, Undecided
    <2> QED
      BY <1>5, <1>a, <2>1 DEF AsyncFree, asyncVars, CallbacksBounded
  <1> QED
    BY <1>1, <1>2, <1>3, <1>4, <1>5 DEF AsyncNext, SenderStep

\* A freed handle stays unused.
LEMMA FreedStep ==
  AsyncTypeOK /\ FreedHandleUnused /\ [AsyncNext]_asyncVars => FreedHandleUnused'
  <1> SUFFICES ASSUME AsyncTypeOK, FreedHandleUnused, [AsyncNext]_asyncVars
               PROVE  FreedHandleUnused'
    OBVIOUS
  <1> USE DEF AsyncTypeOK, FreedHandleUnused, Undecided
  <1>1. ASSUME NEW s \in Senders, SendCall(s) \/ SenderStep(s) PROVE FreedHandleUnused'
    BY <1>1 DEF SendCall, SenderStep, SendCas, SendWrite
  <1>2. CASE AsyncLoopStep
    BY <1>2 DEF AsyncLoopStep, PollReadable, Drain, ClearPending, CallbackStart, CallbackReturn
  <1>3. CASE AsyncFree \/ UNCHANGED asyncVars
    BY <1>3 DEF AsyncFree, asyncVars
  <1> QED
    BY <1>1, <1>2, <1>3 DEF AsyncNext

\* Together they are inductive.
LEMMA AsyncInvStep == AsyncInv /\ [AsyncNext]_asyncVars => AsyncInv'
  BY TypeStep, TokenStep, WakeupStep, CountStep, FreedStep DEF AsyncInv

\* The conjunction of the handle's invariants holds in every reachable state.
THEOREM AsyncInvariant == AsyncSpec => []AsyncInv
  <1>1. AsyncInit => AsyncInv
    <2> SUFFICES ASSUME AsyncInit PROVE AsyncInv
      OBVIOUS
    <2>1. Undecided = {}
      BY DEF AsyncInit, Undecided
    <2>2. Cardinality(Undecided) = 0
      BY <2>1, FS_EmptySet
    <2> QED
      BY <2>1, <2>2, MaxSendsAssumption
         DEF AsyncInit, AsyncInv, AsyncTypeOK, TokenInv, NoLostWakeup, CallbacksBounded,
             FreedHandleUnused
  <1> QED
    BY <1>1, AsyncInvStep, PTL DEF AsyncSpec

\* Type correctness of the loopyAsync handle.
THEOREM AsyncTypeCorrect == AsyncSpec => []AsyncTypeOK
  <1>1. AsyncInv => AsyncTypeOK
    BY DEF AsyncInv
  <1> QED
    BY <1>1, AsyncInvariant, PTL

\* However many threads call loopyAsyncSend, the pending flag and the
\* descriptor of loopyAsync.c hold one wakeup token between them.
THEOREM OneWakeupToken == AsyncSpec => []TokenInv
  <1>1. AsyncInv => TokenInv
    BY DEF AsyncInv
  <1> QED
    BY <1>1, AsyncInvariant, PTL

\* loopyAsyncSend never loses a wakeup, for any number of sending threads.
THEOREM WakeupNeverLost == AsyncSpec => []NoLostWakeup
  <1>1. AsyncInv => NoLostWakeup
    BY DEF AsyncInv
  <1> QED
    BY <1>1, AsyncInvariant, PTL

\* asyncEventCallback never invokes the callback more often than
\* loopyAsyncSend was called.
THEOREM CallbacksNeverInvented == AsyncSpec => []CallbacksBounded
  <1>1. AsyncInv => CallbacksBounded
    BY DEF AsyncInv
  <1> QED
    BY <1>1, AsyncInvariant, PTL

\* A new handle is a new signal.
LEMMA SignalInitial == AsyncInit => Abstract!SignalInit
  BY DEF AsyncInit, Abstract!SignalInit

\* Every step of the handle is a step of the signal or invisible to it.
LEMMA SignalStep ==
  AsyncInv /\ [AsyncNext]_asyncVars => [Abstract!SignalNext]_(Abstract!signalVars)
  <1> SUFFICES ASSUME AsyncInv, [AsyncNext]_asyncVars
               PROVE  [Abstract!SignalNext]_(Abstract!signalVars)
    OBVIOUS
  <1> USE DEF Abstract!SignalNext, Abstract!signalVars
  <1>1. ASSUME NEW s \in Senders, SendCall(s) PROVE Abstract!Signal(s)
    BY <1>1 DEF SendCall, Abstract!Signal
  <1>2. CASE CallbackStart
    <2>1. alive
      BY <1>2 DEF AsyncInv, FreedHandleUnused, AsyncTypeOK, CallbackStart
    <2>2. calls < sends
      BY <1>2, UndecidedCount DEF AsyncInv, CallbacksBounded, AsyncTypeOK, CallbackStart
    <2> QED
      BY <1>2, <2>1, <2>2 DEF CallbackStart, Abstract!Callback
  <1>3. CASE AsyncFree
    BY <1>3 DEF AsyncFree, Abstract!Close
  <1>4. ASSUME NEW s \in Senders, SenderStep(s) PROVE UNCHANGED Abstract!signalVars
    BY <1>4 DEF SenderStep, SendCas, SendWrite
  <1>5. CASE PollReadable \/ Drain \/ ClearPending \/ CallbackReturn
    BY <1>5 DEF PollReadable, Drain, ClearPending, CallbackReturn
  <1>6. CASE UNCHANGED asyncVars
    BY <1>6 DEF asyncVars
  <1> QED
    BY <1>1, <1>2, <1>3, <1>4, <1>5, <1>6 DEF AsyncNext, AsyncLoopStep

\* The safety half of the refinement: every behaviour of loopyAsync.c is one
\* of the abstract signal.
THEOREM AsyncRefinesSignal ==
  AsyncSpec => Abstract!SignalInit /\ [][Abstract!SignalNext]_(Abstract!signalVars)
  BY SignalInitial, SignalStep, AsyncInvariant, PTL DEF AsyncSpec

-----------------------------------------------------------------------------
(* The thread pool                                                          *)

Starting == {"create", "failing", "failjoin", "failed"}
Holding == {"check", "work", "finish", "enqueue"}

WorkerInv ==
  \A w \in Workers :
    /\ item[w] # 0 <=> wpc[w] \in Holding
    /\ spc[w] # "idle" <=> wpc[w] = "sending"

StageInv ==
  /\ mpc \in Starting =>
       /\ pendingItems = << >> /\ completedItems = << >>
       /\ \A w \in Workers : wpc[w] \in {"none", "lock", "towait", "waiting", "exited"}
  /\ mpc \in {"cb", "after"} <=> lpc = "cb"
  /\ mpc = "freed" => \A w \in Workers : wpc[w] = "exited"

\* The item has been worked on or cancelled, and its status says which.
Settled(i) ==
  IF i \in cancelled THEN status[i] = "CANCELLED"
                     ELSE status[i] = "OK" /\ runs[i] = 1

\* Occurrences of an item in a list, and the workers that hold it.
Occ(s, i) == {k \in DOMAIN s : s[k] = i}
Holders(i) == {w \in Workers : item[w] = i}

ProgressInv ==
  /\ \A i \in Items : i >= nextWorkId \/ Occ(pendingItems, i) # {} => runs[i] = 0
  /\ \A w \in Workers : wpc[w] = "check" => runs[item[w]] = 0
  /\ \A w \in Workers : wpc[w] = "work" => runs[item[w]] = 1 /\ item[w] \notin cancelled
  /\ \A w \in Workers : wpc[w] \in {"finish", "enqueue"} => Settled(item[w])
  /\ \A i \in Items : Occ(completedItems, i) # {} => Settled(i)

WorkInv ==
  /\ WorkTypeOK
  /\ AsyncInv
  /\ WorkerInv
  /\ StageInv
  /\ ItemInOnePlace
  /\ CountsAgree
  /\ ProgressInv
  /\ CancelIsFinal
  /\ CompletionSignalled

-----------------------------------------------------------------------------
(* Lists and places                                                         *)

\* The places of an item in a list can be counted.
LEMMA OccFinite ==
  ASSUME NEW S, NEW s \in Seq(S), NEW i
  PROVE  IsFiniteSet(Occ(s, i)) /\ Cardinality(Occ(s, i)) \in Nat
  <1>1. Len(s) \in Nat /\ DOMAIN s = 1 .. Len(s)
    BY LenProperties
  <1>2. IsFiniteSet(1 .. Len(s))
    BY <1>1, FS_Interval
  <1>3. Occ(s, i) \in SUBSET (1 .. Len(s))
    BY <1>1 DEF Occ
  <1>4. IsFiniteSet(Occ(s, i))
    BY <1>2, <1>3, FS_Subset
  <1> QED
    BY <1>4, FS_CardinalityType

\* An appended item occurs once more, the others as often as before.
LEMMA OccAppend ==
  ASSUME NEW S, NEW s \in Seq(S), NEW e \in S, NEW i
  PROVE  /\ Cardinality(Occ(Append(s, e), i)) = Cardinality(Occ(s, i)) + IF e = i THEN 1 ELSE 0
         /\ Occ(Append(s, e), i) # {} => Occ(s, i) # {} \/ e = i
  <1> DEFINE t == Append(s, e)
             n == Len(s)
  <1>1. /\ t \in Seq(S) /\ Len(t) = n + 1 /\ n \in Nat
        /\ \A k \in 1 .. n : t[k] = s[k]
        /\ t[n + 1] = e
        /\ DOMAIN s = 1 .. n /\ DOMAIN t = 1 .. n + 1
    BY AppendProperties, LenProperties
  <1> HIDE DEF t, n
  <1>2. IsFiniteSet(Occ(s, i)) /\ Cardinality(Occ(s, i)) \in Nat
    BY OccFinite
  <1>3. CASE e = i
    <2>1. Occ(t, i) = Occ(s, i) \cup {n + 1} /\ n + 1 \notin Occ(s, i)
      BY <1>1, <1>3 DEF Occ
    <2>2. Cardinality(Occ(t, i)) = Cardinality(Occ(s, i)) + 1
      BY <2>1, <1>2, FS_AddElement
    <2> QED
      BY <2>2, <1>3 DEF t
  <1>4. CASE e # i
    <2>1. Occ(t, i) = Occ(s, i)
      BY <1>1, <1>4 DEF Occ
    <2> QED
      BY <2>1, <1>2, <1>4 DEF t
  <1> QED
    BY <1>3, <1>4

\* The first item occurs once less in the rest of the list.
LEMMA OccTail ==
  ASSUME NEW S, NEW s \in Seq(S), s # << >>, NEW i
  PROVE  /\ Cardinality(Occ(Tail(s), i)) = Cardinality(Occ(s, i)) - IF Head(s) = i THEN 1 ELSE 0
         /\ Occ(Tail(s), i) # {} => Occ(s, i) # {}
         /\ Head(s) = i => Occ(s, i) # {}
  <1> DEFINE t == Tail(s)
             n == Len(s)
             A == Occ(t, i)
             B == Occ(s, i) \ {1}
             f == [k \in A |-> k + 1]
  <1>1. /\ t \in Seq(S) /\ Len(t) = n - 1 /\ n \in Nat /\ n > 0
        /\ \A k \in 1 .. n - 1 : t[k] = s[k + 1]
        /\ Head(s) = s[1]
        /\ DOMAIN s = 1 .. n /\ DOMAIN t = 1 .. n - 1
    BY HeadTailProperties, LenProperties, EmptySeq
  <1> HIDE DEF t, n
  <1>2. IsFiniteSet(Occ(s, i)) /\ Cardinality(Occ(s, i)) \in Nat /\ IsFiniteSet(A)
    BY <1>1, OccFinite
  <1>3. f \in [A -> B]
    BY <1>1 DEF Occ
  <1>4. \A a, b \in A : f[a] = f[b] => a = b
    BY <1>1 DEF Occ
  <1>5. \A b \in B : \E a \in A : f[a] = b
    <2> SUFFICES ASSUME NEW b \in B PROVE \E a \in A : f[a] = b
      OBVIOUS
    <2>1. b - 1 \in A /\ (b - 1) + 1 = b
      BY <1>1 DEF Occ
    <2> QED
      BY <2>1
  <1>6. ExistsBijection(A, B)
    <2>1. f \in Bijection(A, B)
      BY <1>3, <1>4, <1>5, Fun_IsBij
    <2> QED
      BY <2>1, Fun_ExistsBij
  <1>7. Cardinality(B) = Cardinality(A)
    BY <1>2, <1>6, FS_Bijection
  <1>8. Cardinality(B) = IF 1 \in Occ(s, i) THEN Cardinality(Occ(s, i)) - 1 ELSE Cardinality(Occ(s, i))
    BY <1>2, FS_RemoveElement
  <1>9. 1 \in Occ(s, i) <=> Head(s) = i
    BY <1>1 DEF Occ
  <1>10. A # {} => Occ(s, i) # {}
    BY <1>3
  <1> QED
    BY <1>2, <1>7, <1>8, <1>9, <1>10 DEF t

\* An empty list has no place for anything.
LEMMA OccEmpty ==
  ASSUME NEW i
  PROVE  Occ(<< >>, i) = {} /\ Cardinality(Occ(<< >>, i)) = 0
  BY FS_EmptySet DEF Occ

\* Something is in one place only if the numbers of its places add up to one.
LEMMA HoldersFinite ==
  ASSUME NEW i
  PROVE  IsFiniteSet(Holders(i)) /\ Cardinality(Holders(i)) \in Nat
  <1>1. Holders(i) \in SUBSET Senders
    BY DEF Holders, Workers
  <1>2. IsFiniteSet(Holders(i))
    BY <1>1, SendersAssumption, FS_Subset
  <1> QED
    BY <1>2, FS_CardinalityType

\* Places is the sum of four counts: queued, held, completed, called back.
LEMMA PlacesSum ==
  ASSUME NEW i
  PROVE  Places(i) = Cardinality(Occ(pendingItems, i)) + Cardinality(Holders(i))
                       + Cardinality(Occ(completedItems, i)) + Len(after[i])
  BY DEF Places, Occ, Holders

\* An item is not in two places.
LEMMA OnePlace ==
  ASSUME WorkTypeOK, ItemInOnePlace, mpc # "freed", NEW i \in Items
  PROVE  /\ Occ(pendingItems, i) # {} => Holders(i) = {} /\ Occ(completedItems, i) = {} /\ after[i] = << >>
         /\ Holders(i) # {} => Occ(pendingItems, i) = {} /\ Occ(completedItems, i) = {} /\ after[i] = << >>
         /\ Occ(completedItems, i) # {} => after[i] = << >>
         /\ \A w, v \in Workers : item[w] = i /\ item[v] = i => w = v
         /\ i >= nextWorkId => /\ Occ(pendingItems, i) = {} /\ Holders(i) = {}
                               /\ Occ(completedItems, i) = {} /\ after[i] = << >>
  <1> DEFINE p == Cardinality(Occ(pendingItems, i))
             h == Cardinality(Holders(i))
             c == Cardinality(Occ(completedItems, i))
             a == Len(after[i])
  <1>1. pendingItems \in Seq(Items) /\ completedItems \in Seq(Items) /\ after[i] \in Seq({"OK", "CANCELLED"})
        /\ nextWorkId \in Nat /\ i \in Nat
    BY ItemsAssumption DEF WorkTypeOK, Items
  <1>2. p \in Nat /\ h \in Nat /\ c \in Nat /\ a \in Nat
    BY <1>1, OccFinite, HoldersFinite, LenProperties
  <1>3. /\ p = 0 <=> Occ(pendingItems, i) = {}
        /\ h = 0 <=> Holders(i) = {}
        /\ c = 0 <=> Occ(completedItems, i) = {}
        /\ a = 0 <=> after[i] = << >>
    BY <1>1, OccFinite, HoldersFinite, FS_EmptySet, EmptySeq
  <1>4. p + h + c + a = IF i < nextWorkId THEN 1 ELSE 0
    BY PlacesSum DEF ItemInOnePlace
  <1>5. ASSUME NEW w \in Workers, NEW v \in Workers, item[w] = i, item[v] = i PROVE w = v
    <2>1. w \in Holders(i) /\ v \in Holders(i)
      BY <1>5 DEF Holders
    <2>2. h = 1
      <3> HIDE DEF p, h, c, a
      <3> QED
        BY <2>1, <1>1, <1>2, <1>3, <1>4
    <2>3. PICK x : Holders(i) = {x}
      BY <2>2, HoldersFinite, FS_Singleton
    <2> QED
      BY <2>1, <2>3
  <1> HIDE DEF p, h, c, a
  <1> QED
    BY <1>1, <1>2, <1>3, <1>4, <1>5

-----------------------------------------------------------------------------
(* The pool uses its async handle only through the handle's own steps       *)

\* Each step of the pool is one of the handle's, or a stutter of the handle.
LEMMA WorkIsAsync == [WorkNext]_workVars => [AsyncNext]_asyncVars
  <1> SUFFICES ASSUME [WorkNext]_workVars PROVE [AsyncNext]_asyncVars
    OBVIOUS
  <1>1. ASSUME NEW w \in Workers, NotifyCall(w) PROVE AsyncNext
    BY <1>1 DEF NotifyCall, AsyncNext, Workers
  <1>2. ASSUME NEW w \in Workers, NotifyStep(w) PROVE AsyncNext
    BY <1>2 DEF NotifyStep, AsyncNext, Workers
  <1>3. ASSUME NEW w \in Workers,
               \/ Lock(w) \/ Wait(w) \/ Check(w) \/ WorkReturn(w) \/ Finish(w)
               \/ EnqueueCompleted(w) \/ SpuriousWakeup(w) \/ CreateThread(w)
        PROVE  UNCHANGED asyncVars
    BY <1>3 DEF Lock, Wait, Check, WorkReturn, Finish, EnqueueCompleted, SpuriousWakeup, CreateThread
  <1>4. CASE FailJoin \/ FreeJoin
    BY <1>4 DEF FailJoin, FreeJoin, AsyncNext
  <1>5. CASE AsyncEvent \/ ProcessStart \/ ProcessEnd
    BY <1>5 DEF AsyncEvent, ProcessStart, ProcessEnd, AsyncNext, AsyncLoopStep
  <1>6. ASSUME \/ FailBroadcast \/ TakeCompleted \/ AfterReturn \/ CreateFails \/ Free \/ Queue
               \/ CancelAll \/ (\E i \in Items : Cancel(i)) \/ UNCHANGED workVars
        PROVE  UNCHANGED asyncVars
    BY <1>6 DEF FailBroadcast, TakeCompleted, AfterReturn, CreateFails, Free, Queue, CancelAll,
                Cancel, workVars
  <1> QED
    BY <1>1, <1>2, <1>3, <1>4, <1>5, <1>6 DEF WorkNext, WorkerStep, LoopThreadStep, ClientCall

\* loopyWork.c keeps to the protocol of loopyAsync.c: each of its steps is a
\* step of the handle or leaves the handle alone.
THEOREM WorkUsesAsync == WorkSpec => AsyncInit /\ [][AsyncNext]_asyncVars
  BY WorkIsAsync, PTL DEF WorkSpec, WorkInit

-----------------------------------------------------------------------------
(* What the steps do to the workers' program counters                       *)

WorkerPcs == {"none", "lock", "towait", "waiting", "check", "work", "finish",
              "enqueue", "send", "sending", "exited"}

\* A signal or a broadcast only moves workers from the condition variable to
\* the mutex.
LEMMA OnlyWakes ==
  ASSUME wpc \in [Workers -> WorkerPcs], wpc' \in Signalled \/ wpc' = Broadcast
  PROVE  /\ wpc' \in [Workers -> WorkerPcs]
         /\ \A w \in Workers : wpc'[w] = wpc[w] \/ (wpc[w] = "waiting" /\ wpc'[w] = "lock")
  <1>1. CASE wpc' = Broadcast
    BY <1>1 DEF Broadcast, WorkerPcs
  <1>2. CASE wpc' \in Signalled
    BY <1>2 DEF Signalled, Waiting, WorkerPcs
  <1> QED
    BY <1>1, <1>2

\* Nothing moves once the pool is freed.
LEMMA FreedIsFinal ==
  ASSUME WorkTypeOK, StageInv, WorkerInv, mpc = "freed", [WorkNext]_workVars
  PROVE  UNCHANGED workVars
  BY DEF StageInv, WorkerInv, WorkNext, WorkerStep, LoopThreadStep, ClientCall, InUse,
         Lock, Wait, Check, WorkReturn, Finish, EnqueueCompleted, NotifyCall, NotifyStep,
         SpuriousWakeup, CreateThread, FailBroadcast, FailJoin, FreeJoin, AsyncEvent, ProcessStart,
         TakeCompleted, AfterReturn, ProcessEnd, CreateFails, Free, Queue, CancelAll, Cancel

-----------------------------------------------------------------------------
(* Every step keeps the invariant                                           *)

\* The busy workers can be counted.
LEMMA BusyFinite == IsFiniteSet(Busy) /\ Cardinality(Busy) \in Nat
  <1>1. Busy \in SUBSET Senders
    BY DEF Busy, Workers
  <1>2. IsFiniteSet(Busy)
    BY <1>1, SendersAssumption, FS_Subset
  <1> QED
    BY <1>2, FS_CardinalityType

\* Types
LEMMA WorkTypeStep ==
  ASSUME WorkTypeOK, AsyncTypeOK', WorkerInv, StageInv, CountsAgree, [WorkNext]_workVars
  PROVE  WorkTypeOK'
  <1> USE ItemsAssumption DEF WorkTypeOK
  <1>1. ASSUME NEW w \in Workers, Lock(w) PROVE WorkTypeOK'
    <2>1. CASE UNCHANGED <<pendingItems, pendingCount, item, runningCount>>
      BY <1>1, <2>1 DEF Lock, Goto, doneVars
    <2>2. CASE pendingItems # << >> /\ Dequeue(w) /\ wpc' = Goto(w, "check")
      <3>1. Head(pendingItems) \in Items /\ Tail(pendingItems) \in Seq(Items) /\ Len(pendingItems) > 0
        BY <2>2, HeadTailProperties, EmptySeq, LenProperties
      <3>2. pendingCount = Len(pendingItems)
        BY <1>1 DEF Lock, StageInv, CountsAgree
      <3>3. pendingCount - 1 \in Nat
        BY <3>1, <3>2
      <3> QED
        BY <1>1, <2>2, <3>1, <3>3 DEF Lock, Goto, doneVars, Dequeue
    <2> QED
      BY <1>1, <2>1, <2>2 DEF Lock
  <1>2. ASSUME NEW w \in Workers, Wait(w) \/ SpuriousWakeup(w) \/ CreateThread(w) PROVE WorkTypeOK'
    BY <1>2 DEF Wait, SpuriousWakeup, CreateThread, Goto, queueVars, runVars, doneVars
  <1>3. ASSUME NEW w \in Workers, Check(w) \/ WorkReturn(w) PROVE WorkTypeOK'
    <2>1. item[w] \in Items
      BY <1>3 DEF Check, WorkReturn, WorkerInv, Holding
    <2>a. runs[item[w]] + 1 \in Nat
      BY <2>1
    <2>b. \/ runs' = runs \/ runs' = [runs EXCEPT ![item[w]] = runs[item[w]] + 1]
      BY <1>3 DEF Check, WorkReturn
    <2>c. \/ status' = status \/ status' = [status EXCEPT ![item[w]] = "OK"]
          \/ status' = [status EXCEPT ![item[w]] = "CANCELLED"]
      BY <1>3 DEF Check, WorkReturn
    <2>2. runs' \in [Items -> Nat] /\ status' \in [Items -> {"OK", "CANCELLED"}]
      BY <2>1, <2>a, <2>b, <2>c
    <2>3. wpc' = Goto(w, "finish") \/ wpc' = Goto(w, "work")
      BY <1>3 DEF Check, WorkReturn
    <2> QED
      BY <1>3, <2>2, <2>3 DEF Check, WorkReturn, Goto, queueVars, doneVars
  <1>4. ASSUME NEW w \in Workers, Finish(w) PROVE WorkTypeOK'
    <2>1. w \in Busy
      BY <1>4 DEF Busy, Finish
    <2>2. Cardinality(Busy) # 0
      BY <2>1, BusyFinite, FS_EmptySet
    <2>3. runningCount - 1 \in Nat
      BY <2>2, BusyFinite DEF CountsAgree
    <2> QED
      BY <1>4, <2>3 DEF Finish, Goto, queueVars, doneVars
  <1>5. ASSUME NEW w \in Workers, EnqueueCompleted(w) PROVE WorkTypeOK'
    <2>1. item[w] \in Items
      BY <1>5 DEF EnqueueCompleted, WorkerInv, Holding
    <2>2. Append(completedItems, item[w]) \in Seq(Items)
      BY <2>1, AppendProperties
    <2> QED
      BY <1>5, <2>2 DEF EnqueueCompleted, Goto, queueVars
  <1>6. ASSUME NEW w \in Workers, NotifyCall(w) \/ NotifyStep(w) PROVE WorkTypeOK'
    BY <1>6 DEF NotifyCall, NotifyStep, Goto, queueVars, runVars, doneVars
  <1>7. CASE FailBroadcast \/ Free
    <2>1. wpc' \in [Workers -> WorkerPcs]
      BY <1>7, OnlyWakes DEF FailBroadcast, Free, WorkerPcs
    <2> QED
      BY <1>7, <2>1 DEF FailBroadcast, Free, queueVars, runVars, doneVars, WorkerPcs
  <1>8. CASE FailJoin \/ FreeJoin
    <2>1. << >> \in Seq(Items)
      BY EmptySeq
    <2> QED
      BY <1>8, <2>1 DEF FailJoin, FreeJoin, queueVars, runVars, doneVars
  <1>9. CASE AsyncEvent \/ ProcessStart \/ ProcessEnd \/ CreateFails
    BY <1>9 DEF AsyncEvent, ProcessStart, ProcessEnd, CreateFails, queueVars, runVars, doneVars
  <1>10. CASE TakeCompleted
    <2>1. Head(completedItems) \in Items /\ Tail(completedItems) \in Seq(Items)
      BY <1>10, HeadTailProperties DEF TakeCompleted
    <2>2. cur' \in Items
      BY <1>10, <2>1 DEF TakeCompleted
    <2>3. Append(after[cur'], status[cur']) \in Seq({"OK", "CANCELLED"})
      BY <2>2, AppendProperties
    <2>4. after' \in [Items -> Seq({"OK", "CANCELLED"})]
      BY <1>10, <2>2, <2>3 DEF TakeCompleted
    <2> QED
      BY <1>10, <2>1, <2>2, <2>4 DEF TakeCompleted, queueVars, runVars
  <1>11. CASE AfterReturn
    BY <1>11 DEF AfterReturn, queueVars, runVars
  <1>12. CASE Queue
    <2>1. nextWorkId \in Items /\ nextWorkId + 1 \in 1 .. MaxItems + 1
      BY <1>12 DEF Queue, Items
    <2>2. pendingItems' \in Seq(Items)
      BY <1>12, <2>1, AppendProperties DEF Queue
    <2>3. wpc' \in [Workers -> WorkerPcs]
      BY <1>12, OnlyWakes DEF Queue, WorkerPcs
    <2> QED
      BY <1>12, <2>1, <2>2, <2>3 DEF Queue, runVars, doneVars, WorkerPcs
  <1>13. CASE CancelAll \/ \E i \in Items : Cancel(i)
    <2>1. Queued \subseteq Items
      BY LenProperties, ElementOfSeq DEF Queued
    <2>2. cancelled' \subseteq Items
      BY <1>13, <2>1 DEF CancelAll, Cancel
    <2> QED
      BY <1>13, <2>2 DEF CancelAll, Cancel, runVars, doneVars
  <1>14. CASE UNCHANGED workVars
    BY <1>14 DEF workVars, queueVars, runVars, doneVars
  <1> QED
    BY <1>1, <1>2, <1>3, <1>4, <1>5, <1>6, <1>7, <1>8, <1>9, <1>10, <1>11, <1>12, <1>13, <1>14
       DEF WorkNext, WorkerStep, LoopThreadStep, ClientCall

\* Where a worker is tells what it holds and whether it is sending.
LEMMA WorkerInvStep ==
  ASSUME WorkTypeOK, WorkerInv, [WorkNext]_workVars
  PROVE  WorkerInv'
  <1> USE DEF WorkTypeOK, WorkerInv, Holding
  <1>1. ASSUME NEW w \in Workers, Lock(w) PROVE WorkerInv'
    <2>1. spc' = spc
      BY <1>1 DEF Lock, asyncVars
    <2>2. CASE item' = item /\ wpc' \in {Goto(w, "exited"), Goto(w, "towait")}
      BY <1>1, <2>1, <2>2 DEF Lock, Goto
    <2>3. CASE pendingItems # << >> /\ Dequeue(w) /\ wpc' = Goto(w, "check")
      <3>1. Head(pendingItems) \in Items
        BY <2>3, HeadTailProperties
      <3>2. Head(pendingItems) # 0
        BY <3>1, ItemsAssumption DEF Items
      <3> QED
        BY <1>1, <2>1, <2>3, <3>2 DEF Lock, Goto, Dequeue
    <2> QED
      BY <1>1, <2>2, <2>3 DEF Lock
  <1>2. ASSUME NEW w \in Workers, \/ Wait(w) \/ SpuriousWakeup(w) \/ CreateThread(w) \/ Check(w)
                                  \/ WorkReturn(w) \/ Finish(w)
        PROVE WorkerInv'
    BY <1>2 DEF Wait, SpuriousWakeup, CreateThread, Check, WorkReturn, Finish, Goto, asyncVars, runVars
  <1>3. ASSUME NEW w \in Workers, EnqueueCompleted(w) PROVE WorkerInv'
    BY <1>3 DEF EnqueueCompleted, Goto, asyncVars
  <1>4. ASSUME NEW w \in Workers, NotifyCall(w) PROVE WorkerInv'
    BY <1>4 DEF NotifyCall, SendCall, Goto, runVars, AsyncTypeOK, Workers
  <1>5. ASSUME NEW w \in Workers, NotifyStep(w) PROVE WorkerInv'
    <2>1. item' = item
      BY <1>5 DEF NotifyStep, runVars
    <2>2. spc' = [spc EXCEPT ![w] = "write"] \/ spc' = [spc EXCEPT ![w] = "idle"]
      BY <1>5 DEF NotifyStep, SenderStep, SendCas, SendWrite
    <2>3. CASE spc' = [spc EXCEPT ![w] = "write"]
      BY <1>5, <2>1, <2>3 DEF NotifyStep, AsyncTypeOK, Workers
    <2>4. CASE spc' = [spc EXCEPT ![w] = "idle"]
      BY <1>5, <2>1, <2>4 DEF NotifyStep, AsyncTypeOK, Workers, Goto
    <2> QED
      BY <2>2, <2>3, <2>4
  <1>6. CASE FailBroadcast \/ Free \/ Queue
    <2>1. \A w \in Workers : wpc'[w] = wpc[w] \/ (wpc[w] = "waiting" /\ wpc'[w] = "lock")
      BY <1>6, OnlyWakes DEF FailBroadcast, Free, Queue, WorkerPcs
    <2>2. item' = item /\ spc' = spc
      BY <1>6 DEF FailBroadcast, Free, Queue, asyncVars, runVars
    <2> QED
      BY <2>1, <2>2
  <1>7. ASSUME \/ FailJoin \/ FreeJoin \/ AsyncEvent \/ ProcessStart \/ ProcessEnd \/ CreateFails
               \/ TakeCompleted \/ AfterReturn \/ CancelAll \/ \E i \in Items : Cancel(i)
        PROVE  item' = item /\ wpc' = wpc /\ spc' = spc
    BY <1>7 DEF FailJoin, FreeJoin, AsyncEvent, ProcessStart, ProcessEnd, CreateFails, TakeCompleted,
       AfterReturn, CancelAll, Cancel, AsyncFree, PollReadable, Drain, ClearPending, CallbackStart,
       CallbackReturn, asyncVars, runVars
  <1>8. CASE UNCHANGED workVars
    BY <1>8 DEF workVars, runVars, asyncVars
  <1> QED
    BY <1>1, <1>2, <1>3, <1>4, <1>5, <1>6, <1>7, <1>8
       DEF WorkNext, WorkerStep, LoopThreadStep, ClientCall

\* The stages of the pool's life.
LEMMA StageStep ==
  ASSUME WorkTypeOK, StageInv, WorkerInv, [WorkNext]_workVars
  PROVE  StageInv'
  <1> USE DEF WorkTypeOK, StageInv, Starting
  <1>1. ASSUME NEW w \in Workers, Lock(w) PROVE StageInv'
    BY <1>1 DEF Lock, Goto, Dequeue, asyncVars, doneVars
  <1>2. ASSUME NEW w \in Workers, Wait(w) \/ SpuriousWakeup(w) \/ CreateThread(w) PROVE StageInv'
    BY <1>2 DEF Wait, SpuriousWakeup, CreateThread, Goto, asyncVars, queueVars, doneVars
  <1>3. ASSUME NEW w \in Workers, Check(w) \/ WorkReturn(w) \/ Finish(w) \/ EnqueueCompleted(w)
                                  \/ NotifyCall(w) \/ NotifyStep(w)
        PROVE  StageInv'
    <2>1. mpc' = mpc /\ lpc' = lpc
      BY <1>3 DEF Check, WorkReturn, Finish, EnqueueCompleted, NotifyCall, NotifyStep, SendCall,
                  SenderStep, SendCas, SendWrite, asyncVars
    <2>2. wpc[w] \notin {"none", "lock", "towait", "waiting", "exited"}
      BY <1>3 DEF Check, WorkReturn, Finish, EnqueueCompleted, NotifyCall, NotifyStep
    <2> QED
      BY <2>1, <2>2
  <1>4. CASE FailBroadcast \/ Free \/ Queue
    <2>1. \A w \in Workers : wpc'[w] = wpc[w] \/ (wpc[w] = "waiting" /\ wpc'[w] = "lock")
      BY <1>4, OnlyWakes DEF FailBroadcast, Free, Queue, WorkerPcs
    <2> QED
      BY <1>4, <2>1 DEF FailBroadcast, Free, Queue, InUse, asyncVars, queueVars, doneVars
  <1>5. CASE FailJoin \/ FreeJoin
    BY <1>5 DEF FailJoin, FreeJoin, AsyncFree, queueVars, doneVars
  <1>6. CASE AsyncEvent \/ ProcessStart \/ ProcessEnd
    BY <1>6 DEF AsyncEvent, ProcessStart, ProcessEnd, PollReadable, Drain, ClearPending, CallbackStart,
                CallbackReturn, queueVars, doneVars
  <1>7. CASE CreateFails \/ TakeCompleted \/ AfterReturn
    BY <1>7 DEF CreateFails, TakeCompleted, AfterReturn, asyncVars, queueVars, doneVars
  <1>8. CASE CancelAll \/ (\E i \in Items : Cancel(i)) \/ UNCHANGED workVars
    BY <1>8 DEF CancelAll, Cancel, workVars, asyncVars, queueVars, doneVars
  <1> QED
    BY <1>1, <1>2, <1>3, <1>4, <1>5, <1>6, <1>7, <1>8
       DEF WorkNext, WorkerStep, LoopThreadStep, ClientCall

\* The counters follow the queue and the workers.
LEMMA CountsStep ==
  ASSUME WorkTypeOK, WorkTypeOK', StageInv, CountsAgree, [WorkNext]_workVars
  PROVE  CountsAgree'
  <1>a. IsFiniteSet(Busy) /\ Cardinality(Busy) \in Nat
    BY BusyFinite
  <1>1. ASSUME NEW w \in Workers, Lock(w) PROVE CountsAgree'
    <2>1. CASE /\ UNCHANGED <<pendingItems, pendingCount, item, runningCount>>
               /\ wpc' \in {Goto(w, "exited"), Goto(w, "towait")}
      <3>1. Busy' = Busy
        BY <1>1, <2>1 DEF Lock, Goto, Busy, WorkTypeOK
      <3> QED
        BY <1>1, <2>1, <3>1 DEF Lock, CountsAgree
    <2>2. CASE pendingItems # << >> /\ Dequeue(w) /\ wpc' = Goto(w, "check")
      <3>1. Len(Tail(pendingItems)) = Len(pendingItems) - 1 /\ Len(pendingItems) \in Nat
        BY <2>2, HeadTailProperties, LenProperties DEF WorkTypeOK
      <3>2. Busy' = Busy \cup {w} /\ w \notin Busy
        BY <1>1, <2>2 DEF Lock, Goto, Busy, WorkTypeOK
      <3>3. Cardinality(Busy') = Cardinality(Busy) + 1
        BY <3>2, <1>a, FS_AddElement
      <3>4. MaxQueue > 0 => pendingCount - 1 <= MaxQueue
        BY ItemsAssumption DEF CountsAgree, WorkTypeOK
      <3> QED
        BY <1>1, <2>2, <3>1, <3>3, <3>4 DEF Lock, Dequeue, CountsAgree
    <2> QED
      BY <1>1, <2>1, <2>2 DEF Lock
  <1>2. ASSUME NEW w \in Workers, Finish(w) PROVE CountsAgree'
    <2>1. Busy' = Busy \ {w} /\ w \in Busy
      BY <1>2 DEF Finish, Goto, Busy, WorkTypeOK
    <2>2. Cardinality(Busy') = Cardinality(Busy) - 1
      BY <2>1, <1>a, FS_RemoveElement
    <2> QED
      BY <1>2, <2>2 DEF Finish, CountsAgree, queueVars
  <1>3. ASSUME NEW w \in Workers, Check(w) \/ WorkReturn(w) \/ EnqueueCompleted(w) \/ NotifyCall(w)
                                  \/ NotifyStep(w) \/ Wait(w) \/ SpuriousWakeup(w)
        PROVE  CountsAgree'
    <2>1. Busy' = Busy
      BY <1>3 DEF Check, WorkReturn, EnqueueCompleted, NotifyCall, NotifyStep, Wait, SpuriousWakeup,
                  Goto, Busy, WorkTypeOK
    <2> QED
      BY <1>3, <2>1 DEF Check, WorkReturn, EnqueueCompleted, NotifyCall, NotifyStep, Wait,
                  SpuriousWakeup, CountsAgree, queueVars, runVars
  <1>4. ASSUME NEW w \in Workers, CreateThread(w) PROVE CountsAgree'
    <2>1. Busy' = Busy
      BY <1>4 DEF CreateThread, Goto, Busy, WorkTypeOK
    <2>2. mpc # "freed"
      BY <1>4 DEF CreateThread
    <2> QED
      BY <1>4, <2>1, <2>2 DEF CreateThread, CountsAgree, queueVars, runVars
  <1>5. CASE FailBroadcast \/ Free \/ Queue
    <2>1. \A w \in Workers : wpc'[w] = wpc[w] \/ (wpc[w] = "waiting" /\ wpc'[w] = "lock")
      BY <1>5, OnlyWakes DEF FailBroadcast, Free, Queue, WorkerPcs, WorkTypeOK
    <2>2. Busy' = Busy
      BY <2>1 DEF Busy
    <2>3. CASE Queue
      <3>1. mpc # "freed"
        BY <2>3 DEF Queue, InUse
      <3>2. Len(pendingItems') = Len(pendingItems) + 1
        BY <2>3, AppendProperties, ItemsAssumption DEF Queue, WorkTypeOK, Items
      <3>3. MaxQueue > 0 => pendingCount + 1 <= MaxQueue
        BY <2>3, ItemsAssumption DEF Queue, WorkTypeOK
      <3> QED
        BY <2>2, <2>3, <3>1, <3>2, <3>3 DEF Queue, CountsAgree, runVars
    <2>4. CASE FailBroadcast \/ Free
      BY <2>2, <2>4 DEF FailBroadcast, Free, CountsAgree, queueVars, runVars
    <2> QED
      BY <1>5, <2>3, <2>4
  <1>6. CASE FailJoin \/ AsyncEvent \/ ProcessStart \/ ProcessEnd \/ CreateFails \/ TakeCompleted \/ AfterReturn
    BY <1>6 DEF FailJoin, AsyncEvent, ProcessStart, ProcessEnd, CreateFails, TakeCompleted,
       AfterReturn, CountsAgree, Busy, queueVars, runVars
  <1>7. CASE FreeJoin
    BY <1>7 DEF FreeJoin, CountsAgree, Busy, runVars
  <1>8. CASE CancelAll \/ (\E i \in Items : Cancel(i)) \/ UNCHANGED workVars
    BY <1>8 DEF CancelAll, Cancel, workVars, CountsAgree, Busy, queueVars, runVars
  <1> QED
    BY <1>1, <1>2, <1>3, <1>4, <1>5, <1>6, <1>7, <1>8
       DEF WorkNext, WorkerStep, LoopThreadStep, ClientCall

\* The parts of Places(i), in the next state too.
LEMMA PlacesSumNext ==
  ASSUME NEW i
  PROVE  Places(i)' = Cardinality(Occ(pendingItems', i)) + Cardinality(Holders(i)')
                        + Cardinality(Occ(completedItems', i)) + Len(after'[i])
  BY DEF Places, Occ, Holders

\* Each hand-over of an item takes it out of one place and puts it into the next.
LEMMA PlacesStep ==
  ASSUME WorkTypeOK, WorkTypeOK', WorkerInv, StageInv, ItemInOnePlace, [WorkNext]_workVars
  PROVE  ItemInOnePlace'
  <1> SUFFICES ASSUME mpc' # "freed", NEW i \in Items
               PROVE  Places(i)' = IF i < nextWorkId' THEN 1 ELSE 0
    BY DEF ItemInOnePlace
  <1>a. mpc # "freed"
    BY FreedIsFinal DEF workVars
  <1>b. Places(i) = IF i < nextWorkId THEN 1 ELSE 0
    BY <1>a DEF ItemInOnePlace
  <1> DEFINE p == Cardinality(Occ(pendingItems, i))
             h == Cardinality(Holders(i))
             c == Cardinality(Occ(completedItems, i))
             a == Len(after[i])
  <1>c. /\ pendingItems \in Seq(Items) /\ completedItems \in Seq(Items)
        /\ after[i] \in Seq({"OK", "CANCELLED"})
        /\ nextWorkId \in Nat /\ i \in Nat /\ i # 0
    BY ItemsAssumption DEF WorkTypeOK, Items
  <1>d. p \in Nat /\ h \in Nat /\ c \in Nat /\ a \in Nat /\ IsFiniteSet(Holders(i))
    BY <1>c, OccFinite, HoldersFinite, LenProperties
  <1>e. Places(i) = p + h + c + a
    BY PlacesSum
  <1>f. ASSUME pendingItems' = pendingItems, item' = item, completedItems' = completedItems,
               after' = after, nextWorkId' = nextWorkId
        PROVE  Places(i)' = IF i < nextWorkId' THEN 1 ELSE 0
    <2>1. Places(i)' = Places(i)
      BY <1>f DEF Places
    <2> QED
      BY <2>1, <1>b, <1>f
  <1>1. ASSUME NEW w \in Workers, pendingItems # << >>, Dequeue(w), wpc[w] = "lock",
               completedItems' = completedItems, after' = after, nextWorkId' = nextWorkId
        PROVE  Places(i)' = IF i < nextWorkId' THEN 1 ELSE 0
    <2> DEFINE d == IF Head(pendingItems) = i THEN 1 ELSE 0
    <2>1. Cardinality(Occ(pendingItems', i)) = p - d
      BY <1>1, <1>c, OccTail DEF Dequeue
    <2>2. item[w] = 0
      BY <1>1 DEF WorkerInv, Holding
    <2>3. Cardinality(Holders(i)') = h + d
      <3>1. CASE Head(pendingItems) = i
        <4>1. Holders(i)' = Holders(i) \cup {w} /\ w \notin Holders(i)
          BY <1>1, <1>c, <2>2, <3>1 DEF Dequeue, Holders, WorkTypeOK
        <4> QED
          BY <4>1, <3>1, <1>d, FS_AddElement
      <3>2. CASE Head(pendingItems) # i
        <4>1. Holders(i)' = Holders(i)
          BY <1>1, <1>c, <2>2, <3>2 DEF Dequeue, Holders, WorkTypeOK
        <4> QED
          BY <4>1, <3>2, <1>d
      <3> QED
        BY <3>1, <3>2
    <2>4. Places(i)' = (p - d) + (h + d) + c + a
      BY <1>1, <2>1, <2>3, PlacesSumNext
    <2>5. d \in Nat
      OBVIOUS
    <2> HIDE DEF p, h, c, a, d
    <2>6. (p - d) + (h + d) + c + a = p + h + c + a
      BY <1>d, <2>5
    <2> QED
      BY <1>1, <1>b, <1>e, <2>4, <2>6
  <1>2. ASSUME NEW w \in Workers, EnqueueCompleted(w)
        PROVE  Places(i)' = IF i < nextWorkId' THEN 1 ELSE 0
    <2> DEFINE d == IF item[w] = i THEN 1 ELSE 0
    <2>1. item[w] \in Items
      BY <1>2 DEF EnqueueCompleted, WorkerInv, Holding, WorkTypeOK
    <2>2. Cardinality(Occ(completedItems', i)) = c + d
      BY <1>2, <1>c, <2>1, OccAppend DEF EnqueueCompleted
    <2>3. Cardinality(Holders(i)') = h - d
      <3>1. Holders(i)' = Holders(i) \ {w} /\ (w \in Holders(i) <=> item[w] = i)
        BY <1>2, <1>c DEF EnqueueCompleted, Holders, WorkTypeOK
      <3>2. Cardinality(Holders(i)') = IF w \in Holders(i) THEN h - 1 ELSE h
        BY <3>1, <1>d, FS_RemoveElement
      <3> QED
        BY <3>1, <3>2, <1>d
    <2>4. after' = after /\ nextWorkId' = nextWorkId /\ pendingItems' = pendingItems
      BY <1>2 DEF EnqueueCompleted, queueVars
    <2>5. Places(i)' = p + (h - d) + (c + d) + a
      BY <2>2, <2>3, <2>4, PlacesSumNext
    <2>6. d \in Nat
      OBVIOUS
    <2> HIDE DEF p, h, c, a, d
    <2>7. p + (h - d) + (c + d) + a = p + h + c + a
      BY <1>d, <2>6
    <2> QED
      BY <1>b, <1>e, <2>4, <2>5, <2>7
  <1>3. CASE TakeCompleted
    <2> DEFINE d == IF Head(completedItems) = i THEN 1 ELSE 0
    <2>1. Cardinality(Occ(completedItems', i)) = c - d
      BY <1>3, <1>c, OccTail DEF TakeCompleted
    <2>2. Len(after'[i]) = a + d
      <3>1. CASE Head(completedItems) = i
        <4>1. after'[i] = Append(after[i], status[i])
          BY <1>3, <3>1 DEF TakeCompleted, WorkTypeOK
        <4>2. status[i] \in {"OK", "CANCELLED"}
          BY DEF WorkTypeOK
        <4> QED
          BY <1>c, <3>1, <4>1, <4>2, AppendProperties
      <3>2. CASE Head(completedItems) # i
        <4>1. after'[i] = after[i]
          BY <1>3, <3>2 DEF TakeCompleted, WorkTypeOK
        <4> QED
          BY <3>2, <4>1, <1>d
      <3> QED
        BY <3>1, <3>2
    <2>3. item' = item /\ nextWorkId' = nextWorkId /\ pendingItems' = pendingItems
      BY <1>3 DEF TakeCompleted, queueVars, runVars
    <2>4. Holders(i)' = Holders(i)
      BY <2>3 DEF Holders
    <2>5. Places(i)' = p + h + (c - d) + (a + d)
      BY <2>1, <2>2, <2>3, <2>4, PlacesSumNext
    <2>6. d \in Nat
      OBVIOUS
    <2> HIDE DEF p, h, c, a, d
    <2>7. p + h + (c - d) + (a + d) = p + h + c + a
      BY <1>d, <2>6
    <2> QED
      BY <1>b, <1>e, <2>3, <2>5, <2>7
  <1>4. CASE Queue
    <2> DEFINE d == IF nextWorkId = i THEN 1 ELSE 0
    <2>1. nextWorkId \in Items
      BY <1>4, ItemsAssumption DEF Queue, WorkTypeOK, Items
    <2>2. Cardinality(Occ(pendingItems', i)) = p + d
      BY <1>4, <1>c, <2>1, OccAppend DEF Queue
    <2>3. item' = item /\ nextWorkId' = nextWorkId + 1 /\ completedItems' = completedItems /\ after' = after
      BY <1>4 DEF Queue, runVars, doneVars
    <2>4. Holders(i)' = Holders(i)
      BY <2>3 DEF Holders
    <2>5. Places(i)' = (p + d) + h + c + a
      BY <2>2, <2>3, <2>4, PlacesSumNext
    <2>6. d \in Nat
      OBVIOUS
    <2>7. (p + d) + h + c + a = (p + h + c + a) + d
      <3> HIDE DEF p, h, c, a, d
      <3> QED
        BY <1>d, <2>6
    <2>8. (IF i < nextWorkId THEN 1 ELSE 0) + d = IF i < nextWorkId + 1 THEN 1 ELSE 0
      BY <1>c
    <2> HIDE DEF p, h, c, a, d
    <2> QED
      BY <1>b, <1>e, <2>3, <2>5, <2>7, <2>8
  <1>5. ASSUME NEW w \in Workers, \/ Wait(w) \/ SpuriousWakeup(w) \/ CreateThread(w) \/ Check(w)
                                  \/ WorkReturn(w) \/ Finish(w) \/ NotifyCall(w) \/ NotifyStep(w)
        PROVE  /\ pendingItems' = pendingItems /\ item' = item /\ completedItems' = completedItems
               /\ after' = after /\ nextWorkId' = nextWorkId
    BY <1>5 DEF Wait, SpuriousWakeup, CreateThread, Check, WorkReturn, Finish, NotifyCall, NotifyStep,
                queueVars, runVars, doneVars
  <1>6. ASSUME \/ FailBroadcast \/ Free \/ FailJoin \/ AsyncEvent \/ ProcessStart \/ ProcessEnd
               \/ CreateFails \/ AfterReturn \/ CancelAll \/ (\E k \in Items : Cancel(k))
               \/ UNCHANGED workVars
        PROVE  /\ pendingItems' = pendingItems /\ item' = item /\ completedItems' = completedItems
               /\ after' = after /\ nextWorkId' = nextWorkId
    BY <1>6 DEF FailBroadcast, Free, FailJoin, AsyncEvent, ProcessStart, ProcessEnd, CreateFails,
                AfterReturn, CancelAll, Cancel, workVars, queueVars, runVars, doneVars
  <1>7. ASSUME NEW w \in Workers, Lock(w) PROVE Places(i)' = IF i < nextWorkId' THEN 1 ELSE 0
    <2>1. completedItems' = completedItems /\ after' = after /\ nextWorkId' = nextWorkId /\ wpc[w] = "lock"
      BY <1>7 DEF Lock, doneVars
    <2>2. CASE UNCHANGED <<pendingItems, pendingCount, item, runningCount>>
      BY <2>1, <2>2, <1>f
    <2>3. CASE pendingItems # << >> /\ Dequeue(w)
      BY <2>1, <2>3, <1>1
    <2> QED
      BY <1>7, <2>2, <2>3 DEF Lock
  <1>8. ~ FreeJoin
    BY DEF FreeJoin
  <1> HIDE DEF p, h, c, a
  <1> QED
    BY <1>2, <1>3, <1>4, <1>5, <1>6, <1>7, <1>8, <1>f DEF WorkNext, WorkerStep, LoopThreadStep, ClientCall

\* Only items in the queue are cancelled.
LEMMA CancelsQueued ==
  ASSUME WorkTypeOK, CancelAll \/ \E k \in Items : Cancel(k), NEW i \in Items, i \in cancelled',
         i \notin cancelled
  PROVE  Occ(pendingItems, i) # {}
  <1>1. i \in Queued
    BY DEF CancelAll, Cancel
  <1> QED
    BY <1>1 DEF Queued, Occ

\* How far an item has got follows it from place to place.
LEMMA ProgressStep ==
  ASSUME WorkTypeOK, WorkTypeOK', WorkerInv, StageInv, ItemInOnePlace, ProgressInv, [WorkNext]_workVars
  PROVE  ProgressInv'
  <1>a. CASE mpc = "freed"
    <2>1. UNCHANGED workVars
      BY <1>a, FreedIsFinal
    <2> QED
      BY <2>1 DEF workVars, queueVars, runVars, doneVars, ProgressInv, Settled
  <1> SUFFICES ASSUME mpc # "freed" PROVE ProgressInv'
    BY <1>a
  <1>b. pendingItems \in Seq(Items) /\ completedItems \in Seq(Items) /\ nextWorkId \in Nat /\ Items \subseteq Nat
    BY ItemsAssumption DEF WorkTypeOK, Items
  <1>c. \A w \in Workers : wpc[w] \in Holding => item[w] \in Items /\ w \in Holders(item[w])
    BY DEF WorkerInv, WorkTypeOK, Holders
  \* Steps that move a worker that holds nothing, or wake some.
  <1>d. ASSUME /\ pendingItems' = pendingItems \/ pendingItems' = << >>
               /\ completedItems' = completedItems \/ completedItems' = << >>
               /\ nextWorkId' = nextWorkId /\ cancelled' = cancelled
               /\ item' = item /\ status' = status /\ runs' = runs,
               \A w \in Workers : wpc'[w] = wpc[w] \/ wpc'[w] \notin Holding
        PROVE  ProgressInv'
    <2>1. \A i : Occ(pendingItems', i) # {} => Occ(pendingItems, i) # {}
      BY <1>d, OccEmpty
    <2>2. \A i : Occ(completedItems', i) # {} => Occ(completedItems, i) # {}
      BY <1>d, OccEmpty
    <2>3. \A w \in Workers : wpc'[w] \in Holding => wpc'[w] = wpc[w]
      BY <1>d
    <2>4. \A i : Settled(i) => Settled(i)'
      BY <1>d DEF Settled
    <2> QED
      BY <1>d, <2>1, <2>2, <2>3, <2>4 DEF ProgressInv, Holding
  <1>1. ASSUME NEW w \in Workers, Lock(w) PROVE ProgressInv'
    <2>1. /\ completedItems' = completedItems /\ nextWorkId' = nextWorkId /\ cancelled' = cancelled
          /\ status' = status /\ runs' = runs
      BY <1>1 DEF Lock, doneVars
    <2>2. CASE /\ UNCHANGED <<pendingItems, pendingCount, item, runningCount>>
               /\ wpc' \in {Goto(w, "exited"), Goto(w, "towait")}
      <3>1. \A v \in Workers : wpc'[v] = wpc[v] \/ wpc'[v] \notin Holding
        BY <2>2 DEF Goto, WorkTypeOK, Holding
      <3> QED
        BY <2>1, <2>2, <3>1, <1>d
    <2>3. CASE pendingItems # << >> /\ Dequeue(w) /\ wpc' = Goto(w, "check")
      <3>1. Head(pendingItems) \in Items /\ Occ(pendingItems, Head(pendingItems)) # {}
        BY <2>3, <1>b, OccTail, HeadTailProperties
      <3>2. \A i : Occ(pendingItems', i) # {} => Occ(pendingItems, i) # {}
        BY <2>3, <1>b, OccTail DEF Dequeue
      <3>3. wpc'[w] = "check" /\ item'[w] = Head(pendingItems)
        BY <2>3 DEF Goto, Dequeue, WorkTypeOK
      <3>4. \A v \in Workers : v # w => wpc'[v] = wpc[v] /\ item'[v] = item[v]
        BY <2>3 DEF Goto, Dequeue, WorkTypeOK
      <3>5. \A i : Settled(i) => Settled(i)'
        BY <2>1 DEF Settled
      <3>6. runs[Head(pendingItems)] = 0
        BY <3>1 DEF ProgressInv
      <3> QED
        BY <2>1, <3>2, <3>3, <3>4, <3>5, <3>6 DEF ProgressInv
    <2> QED
      BY <1>1, <2>2, <2>3 DEF Lock
  <1>2. ASSUME NEW w \in Workers, Check(w) \/ WorkReturn(w) PROVE ProgressInv'
    <2> DEFINE x == item[w]
    <2>1. x \in Items /\ Holders(x) # {}
      BY <1>2, <1>c DEF Check, WorkReturn, Holding
    <2>2. /\ Occ(pendingItems, x) = {} /\ Occ(completedItems, x) = {} /\ ~ (x >= nextWorkId)
          /\ \A v \in Workers : v # w => item[v] # x
      BY <2>1, OnePlace
    <2>3. /\ pendingItems' = pendingItems /\ completedItems' = completedItems /\ nextWorkId' = nextWorkId
          /\ cancelled' = cancelled /\ item' = item
      BY <1>2 DEF Check, WorkReturn, queueVars, doneVars
    <2>4. \A v \in Workers : v # w => wpc'[v] = wpc[v]
      BY <1>2 DEF Check, WorkReturn, Goto, WorkTypeOK
    <2>5. \A j \in Items : j # x => status'[j] = status[j] /\ runs'[j] = runs[j]
      BY <1>2 DEF Check, WorkReturn, WorkTypeOK
    <2>6. \A j \in Items : j # x /\ Settled(j) => Settled(j)'
      BY <2>3, <2>5 DEF Settled
    <2>7. \/ wpc'[w] = "work" /\ runs'[x] = 1 /\ x \notin cancelled
          \/ wpc'[w] = "finish" /\ Settled(x)'
      <3>1. CASE Check(w) /\ x \in cancelled
        BY <3>1, <2>1, <2>3 DEF Check, Goto, WorkTypeOK, Settled
      <3>2. CASE Check(w) /\ x \notin cancelled
        <4>1. runs[x] = 0
          BY <3>2 DEF Check, ProgressInv
        <4> QED
          BY <3>2, <2>1, <4>1 DEF Check, Goto, WorkTypeOK
      <3>3. CASE WorkReturn(w)
        <4>1. runs[x] = 1 /\ x \notin cancelled
          BY <3>3 DEF WorkReturn, ProgressInv
        <4> QED
          BY <3>3, <2>1, <2>3, <4>1 DEF WorkReturn, Goto, WorkTypeOK, Settled
      <3> QED
        BY <1>2, <3>1, <3>2, <3>3
    <2> HIDE DEF x
    <2>8. \A j \in Items : (j >= nextWorkId \/ Occ(pendingItems, j) # {}) => runs'[j] = 0
      BY <2>2, <2>5 DEF ProgressInv
    <2>9. \A j \in Items : Occ(completedItems, j) # {} => Settled(j)'
      BY <2>2, <2>6 DEF ProgressInv
    <2>10. ASSUME NEW v \in Workers, v # w
           PROVE  /\ wpc'[v] = "check" => runs'[item[v]] = 0
                  /\ wpc'[v] = "work" => runs'[item[v]] = 1 /\ item[v] \notin cancelled
                  /\ wpc'[v] \in {"finish", "enqueue"} => Settled(item[v])'
      <3>1. CASE wpc[v] \in Holding
        <4>1. item[v] \in Items /\ item[v] # x
          BY <3>1, <2>2, <2>10, <1>c
        <4>2. wpc'[v] = wpc[v] /\ runs'[item[v]] = runs[item[v]]
          BY <4>1, <2>4, <2>5, <2>10
        <4>3. Settled(item[v]) => Settled(item[v])'
          BY <4>1, <2>3, <2>5 DEF Settled
        <4> QED
          BY <4>2, <4>3 DEF ProgressInv
      <3>2. CASE wpc[v] \notin Holding
        BY <3>2, <2>4, <2>10 DEF Holding
      <3> QED
        BY <3>1, <3>2
    <2>11. Settled(item[w])' <=> Settled(x)'
      BY <2>3 DEF Settled, x
    <2> QED
      BY <2>3, <2>7, <2>8, <2>9, <2>10 DEF ProgressInv, Settled, x
  <1>3. ASSUME NEW w \in Workers, Finish(w) PROVE ProgressInv'
    <2>1. /\ pendingItems' = pendingItems /\ completedItems' = completedItems /\ nextWorkId' = nextWorkId
          /\ cancelled' = cancelled /\ item' = item /\ status' = status /\ runs' = runs
      BY <1>3 DEF Finish, queueVars, doneVars
    <2>2. wpc[w] = "finish" /\ wpc'[w] = "enqueue" /\ \A v \in Workers : v # w => wpc'[v] = wpc[v]
      BY <1>3 DEF Finish, Goto, WorkTypeOK
    <2> QED
      BY <2>1, <2>2 DEF ProgressInv, Settled
  <1>4. ASSUME NEW w \in Workers, EnqueueCompleted(w) PROVE ProgressInv'
    <2>1. /\ pendingItems' = pendingItems /\ nextWorkId' = nextWorkId
          /\ cancelled' = cancelled /\ status' = status /\ runs' = runs
      BY <1>4 DEF EnqueueCompleted, queueVars
    <2>2. item[w] \in Items /\ Settled(item[w])
      BY <1>4, <1>c DEF EnqueueCompleted, ProgressInv, Holding
    <2>3. \A i : Occ(completedItems', i) # {} => Occ(completedItems, i) # {} \/ item[w] = i
      BY <1>4, <1>b, <2>2, OccAppend DEF EnqueueCompleted
    <2>4. wpc'[w] = "send" /\ \A v \in Workers : v # w => wpc'[v] = wpc[v] /\ item'[v] = item[v]
      BY <1>4 DEF EnqueueCompleted, Goto, WorkTypeOK
    <2>5. \A i : Settled(i) => Settled(i)'
      BY <2>1 DEF Settled
    <2> QED
      BY <2>1, <2>2, <2>3, <2>4, <2>5 DEF ProgressInv
  <1>5. CASE TakeCompleted
    <2>1. /\ pendingItems' = pendingItems /\ nextWorkId' = nextWorkId /\ wpc' = wpc /\ item' = item
          /\ cancelled' = cancelled /\ status' = status /\ runs' = runs
      BY <1>5 DEF TakeCompleted, queueVars, runVars
    <2>2. \A i : Occ(completedItems', i) # {} => Occ(completedItems, i) # {}
      BY <1>5, <1>b, OccTail DEF TakeCompleted
    <2> QED
      BY <2>1, <2>2 DEF ProgressInv, Settled
  <1>6. CASE Queue
    <2>1. /\ completedItems' = completedItems /\ nextWorkId' = nextWorkId + 1 /\ item' = item
          /\ cancelled' = cancelled /\ status' = status /\ runs' = runs
      BY <1>6 DEF Queue, doneVars, runVars
    <2>2. nextWorkId \in Items
      BY <1>6, ItemsAssumption DEF Queue, WorkTypeOK, Items
    <2>3. \A i : Occ(pendingItems', i) # {} => Occ(pendingItems, i) # {} \/ nextWorkId = i
      BY <1>6, <1>b, <2>2, OccAppend DEF Queue
    <2>4. \A w \in Workers : wpc'[w] = wpc[w] \/ (wpc[w] = "waiting" /\ wpc'[w] = "lock")
      BY <1>6, OnlyWakes DEF Queue, WorkerPcs, WorkTypeOK
    <2>5. \A i \in Items : i >= nextWorkId + 1 => i >= nextWorkId
      BY <1>b
    <2>6. \A i \in Items : i = nextWorkId => i >= nextWorkId
      BY <1>b
    <2>7. \A i \in Items : (i >= nextWorkId' \/ Occ(pendingItems', i) # {}) => runs'[i] = 0
      BY <2>1, <2>3, <2>5, <2>6 DEF ProgressInv
    <2>8. \A w \in Workers : wpc'[w] \in Holding => wpc'[w] = wpc[w]
      BY <2>4 DEF Holding
    <2> QED
      BY <2>1, <2>7, <2>8 DEF ProgressInv, Holding, Settled
  <1>7. CASE CancelAll \/ \E i \in Items : Cancel(i)
    <2>1. /\ pendingItems' = pendingItems /\ completedItems' = completedItems /\ nextWorkId' = nextWorkId
          /\ wpc' = wpc /\ item' = item /\ status' = status /\ runs' = runs
      BY <1>7 DEF CancelAll, Cancel, runVars, doneVars
    <2>2. cancelled \subseteq cancelled'
      BY <1>7 DEF CancelAll, Cancel
    <2>3. \A i \in Items : i \in cancelled' /\ i \notin cancelled => Occ(pendingItems, i) # {}
      BY <1>7, CancelsQueued
    <2>4. \A w \in Workers : wpc[w] \in Holding => (item[w] \in cancelled' <=> item[w] \in cancelled)
      BY <1>c, <2>2, <2>3, OnePlace
    <2>5. \A i \in Items : Occ(completedItems, i) # {} => (i \in cancelled' <=> i \in cancelled)
      BY <2>2, <2>3, OnePlace
    <2>6. \A i : (i \in cancelled' <=> i \in cancelled) /\ Settled(i) => Settled(i)'
      BY <2>1 DEF Settled
    <2>7. \A i \in Items : Occ(completedItems', i) # {} => Settled(i)'
      BY <2>1, <2>5, <2>6 DEF ProgressInv
    <2>8. \A w \in Workers : wpc[w] \in {"finish", "enqueue"} => Settled(item[w])'
      BY <2>1, <2>4, <2>6 DEF ProgressInv, Holding, Settled
    <2> QED
      BY <2>1, <2>4, <2>7, <2>8 DEF ProgressInv, Holding, Settled
  <1>8. ASSUME NEW w \in Workers, \/ Wait(w) \/ SpuriousWakeup(w) \/ CreateThread(w)
                                  \/ NotifyCall(w) \/ NotifyStep(w)
        PROVE  ProgressInv'
    <2>1. /\ pendingItems' = pendingItems /\ completedItems' = completedItems /\ nextWorkId' = nextWorkId
          /\ cancelled' = cancelled /\ item' = item /\ status' = status /\ runs' = runs
      BY <1>8 DEF Wait, SpuriousWakeup, CreateThread, NotifyCall, NotifyStep, queueVars, runVars, doneVars
    <2>2. \A v \in Workers : wpc'[v] = wpc[v] \/ wpc'[v] \notin Holding
      BY <1>8 DEF Wait, SpuriousWakeup, CreateThread, NotifyCall, NotifyStep, Goto, WorkTypeOK, Holding
    <2> QED
      BY <2>1, <2>2, <1>d
  <1>9. CASE FailBroadcast \/ Free
    <2>1. \A w \in Workers : wpc'[w] = wpc[w] \/ (wpc[w] = "waiting" /\ wpc'[w] = "lock")
      BY <1>9, OnlyWakes DEF FailBroadcast, Free, WorkerPcs, WorkTypeOK
    <2>2. \A w \in Workers : wpc'[w] = wpc[w] \/ wpc'[w] \notin Holding
      BY <2>1 DEF Holding
    <2> QED
      BY <1>9, <1>d, <2>2 DEF FailBroadcast, Free, queueVars, runVars, doneVars
  <1>10. CASE \/ FailJoin \/ FreeJoin \/ AsyncEvent \/ ProcessStart \/ ProcessEnd \/ CreateFails
              \/ AfterReturn \/ UNCHANGED workVars
    <2>1. wpc' = wpc
      BY <1>10 DEF FailJoin, FreeJoin, AsyncEvent, ProcessStart, ProcessEnd, CreateFails, AfterReturn, workVars
    <2>2. /\ pendingItems' = pendingItems \/ pendingItems' = << >>
          /\ completedItems' = completedItems \/ completedItems' = << >>
          /\ nextWorkId' = nextWorkId /\ cancelled' = cancelled
          /\ item' = item /\ status' = status /\ runs' = runs
      BY <1>10 DEF FailJoin, FreeJoin, AsyncEvent, ProcessStart, ProcessEnd, CreateFails, AfterReturn,
                   workVars, queueVars, runVars, doneVars
    <2> QED
      BY <2>1, <2>2, <1>d
  <1> QED
    BY <1>1, <1>2, <1>3, <1>4, <1>5, <1>6, <1>7, <1>8, <1>9, <1>10
       DEF WorkNext, WorkerStep, LoopThreadStep, ClientCall

\* A cancelled item is never run, and its after-work callback is told so.
LEMMA CancelStep ==
  ASSUME WorkTypeOK, WorkerInv, StageInv, ItemInOnePlace, ProgressInv, CancelIsFinal,
         [WorkNext]_workVars
  PROVE  CancelIsFinal'
  <1>a. ASSUME cancelled' = cancelled, runs' = runs, after' = after PROVE CancelIsFinal'
    BY <1>a DEF CancelIsFinal
  <1>b. CASE mpc = "freed"
    BY <1>a, <1>b, FreedIsFinal DEF workVars, queueVars, runVars, doneVars
  <1> SUFFICES ASSUME mpc # "freed" PROVE CancelIsFinal'
    BY <1>b
  <1>1. ASSUME NEW w \in Workers, Check(w) PROVE CancelIsFinal'
    <2>1. cancelled' = cancelled /\ after' = after
      BY <1>1 DEF Check, queueVars, doneVars
    <2>2. CASE item[w] \in cancelled
      BY <1>a, <1>1, <2>1, <2>2 DEF Check
    <2>3. CASE item[w] \notin cancelled
      <3> DEFINE x == item[w]
      <3>1. x \in Items /\ Holders(x) # {}
        BY <1>1 DEF Check, WorkerInv, Holding, WorkTypeOK, Holders
      <3>2. after[x] = << >>
        BY <3>1, OnePlace
      <3>3. runs[x] = 0
        BY <1>1 DEF Check, ProgressInv
      <3>4. runs'[x] = 1 /\ \A i \in Items : i # x => runs'[i] = runs[i]
        BY <1>1, <2>3, <3>1, <3>3 DEF Check, WorkTypeOK
      <3>5. DOMAIN after[x] = {}
        BY <3>2
      <3> HIDE DEF x
      <3> QED
        BY <2>1, <2>3, <3>1, <3>4, <3>5 DEF CancelIsFinal, x
    <2> QED
      BY <2>2, <2>3
  <1>2. CASE CancelAll \/ \E i \in Items : Cancel(i)
    <2>1. runs' = runs /\ after' = after /\ cancelled \subseteq cancelled'
      BY <1>2 DEF CancelAll, Cancel, runVars, doneVars
    <2>2. ASSUME NEW i \in Items, i \in cancelled', i \notin cancelled
          PROVE  runs[i] = 0 /\ DOMAIN after[i] = {}
      <3>1. Occ(pendingItems, i) # {}
        BY <1>2, <2>2, CancelsQueued
      <3>2. after[i] = << >>
        BY <3>1, OnePlace
      <3> QED
        BY <3>1, <3>2 DEF ProgressInv
    <2> QED
      BY <2>1, <2>2 DEF CancelIsFinal
  <1>3. CASE TakeCompleted
    <2> DEFINE x == Head(completedItems)
    <2>1. runs' = runs /\ cancelled' = cancelled
      BY <1>3 DEF TakeCompleted, queueVars, runVars
    <2>2. x \in Items /\ Occ(completedItems, x) # {}
      BY <1>3, OccTail, HeadTailProperties DEF TakeCompleted, WorkTypeOK
    <2>3. Settled(x) /\ after[x] = << >>
      BY <2>2, OnePlace DEF ProgressInv
    <2>4. after'[x] = << status[x] >> /\ \A i \in Items : i # x => after'[i] = after[i]
      BY <1>3, <2>2, <2>3 DEF TakeCompleted, WorkTypeOK
    <2>5. DOMAIN after'[x] = {1} /\ after'[x][1] = status[x]
      BY <2>4
    <2> HIDE DEF x
    <2> QED
      BY <2>1, <2>2, <2>3, <2>4, <2>5 DEF CancelIsFinal, Settled
  <1>4. ASSUME NEW w \in Workers, \/ Lock(w) \/ Wait(w) \/ SpuriousWakeup(w) \/ CreateThread(w)
                                  \/ WorkReturn(w) \/ Finish(w) \/ EnqueueCompleted(w)
                                  \/ NotifyCall(w) \/ NotifyStep(w)
        PROVE  CancelIsFinal'
    BY <1>4, <1>a DEF Lock, Wait, SpuriousWakeup, CreateThread, WorkReturn, Finish, EnqueueCompleted,
                      NotifyCall, NotifyStep, queueVars, runVars, doneVars
  <1>5. CASE \/ FailBroadcast \/ Free \/ FailJoin \/ FreeJoin \/ AsyncEvent \/ ProcessStart
             \/ ProcessEnd \/ CreateFails \/ AfterReturn \/ Queue \/ UNCHANGED workVars
    BY <1>5, <1>a DEF FailBroadcast, Free, FailJoin, FreeJoin, AsyncEvent, ProcessStart, ProcessEnd,
                      CreateFails, AfterReturn, Queue, workVars, queueVars, runVars, doneVars
  <1> QED
    BY <1>1, <1>2, <1>3, <1>4, <1>5 DEF WorkNext, WorkerStep, LoopThreadStep, ClientCall

\* A completed item that waits keeps a signal on its way: a send that loses the
\* compare-and-swap relies on the wakeup whose token it met (TokenInv).
LEMMA SignalledStep ==
  ASSUME WorkTypeOK, AsyncInv, WorkerInv, StageInv, CompletionSignalled, [WorkNext]_workVars
  PROVE  CompletionSignalled'
  <1> DEFINE Signal == \/ \E w \in Workers : wpc[w] = "send" \/ spc[w] \in {"cas", "write"}
                       \/ wakeups > 0
                       \/ lpc \in {"clear", "call", "cb"}
             Open == mpc \in {"loop", "cb", "after"}
  <1>a. ASSUME Signal' PROVE CompletionSignalled'
    BY <1>a DEF CompletionSignalled
  <1>b. ASSUME ~ Open' PROVE CompletionSignalled'
    BY <1>b DEF CompletionSignalled
  <1>c. ASSUME completedItems' = completedItems, Open' => Open, Signal => Signal' PROVE CompletionSignalled'
    BY <1>c DEF CompletionSignalled
  <1>d. ASSUME \A w \in Workers : wpc[w] = "send" => wpc'[w] = "send", UNCHANGED asyncVars
        PROVE  Signal => Signal'
    BY <1>d DEF asyncVars
  <1>1. ASSUME NEW w \in Workers, EnqueueCompleted(w) PROVE CompletionSignalled'
    <2>1. wpc'[w] = "send"
      BY <1>1 DEF EnqueueCompleted, Goto, WorkTypeOK
    <2> QED
      BY <2>1, <1>a
  <1>2. ASSUME NEW w \in Workers, NotifyCall(w) PROVE CompletionSignalled'
    <2>1. spc'[w] = "cas"
      BY <1>2 DEF NotifyCall, SendCall, WorkTypeOK, AsyncTypeOK, Workers
    <2> QED
      BY <2>1, <1>a
  <1>3. ASSUME NEW w \in Workers, NotifyStep(w) PROVE CompletionSignalled'
    <2>1. CASE SendCas(w) /\ pending = 0
      <3>1. spc'[w] = "write"
        BY <2>1 DEF SendCas, WorkTypeOK, AsyncTypeOK, Workers
      <3> QED
        BY <3>1, <1>a
    <2>2. CASE SendCas(w) /\ pending # 0
      <3>1. pending = 1 /\ TokenInv
        BY <2>2 DEF AsyncInv, AsyncTypeOK
      <3>2. CASE wakeups = 1 \/ lpc = "clear"
        <4>1. Signal'
          BY <2>2, <3>2 DEF SendCas
        <4> QED
          BY <4>1, <1>a
      <3>3. CASE \E s \in Senders : spc[s] = "write"
        <4>1. PICK s \in Workers : spc[s] = "write"
          BY <3>3 DEF Workers
        <4>2. spc'[s] = "write"
          BY <2>2, <4>1 DEF SendCas, WorkTypeOK, AsyncTypeOK, Workers
        <4> QED
          BY <4>2, <1>a
      <3> QED
        BY <3>1, <3>2, <3>3 DEF TokenInv
    <2>3. CASE SendWrite(w)
      <3>1. wakeups' > 0
        BY <2>3 DEF SendWrite, WorkTypeOK, AsyncTypeOK
      <3> QED
        BY <3>1, <1>a
    <2> QED
      BY <1>3, <2>1, <2>2, <2>3 DEF NotifyStep, SenderStep
  <1>4. CASE AsyncEvent
    <2>1. CASE PollReadable
      <3>1. Signal'
        BY <2>1 DEF PollReadable
      <3> QED
        BY <3>1, <1>a
    <2>2. CASE Drain \/ ClearPending
      BY <2>2, <1>a DEF Drain, ClearPending
    <2> QED
      BY <1>4, <2>1, <2>2 DEF AsyncEvent
  <1>5. CASE ProcessStart \/ TakeCompleted \/ AfterReturn
    <2>1. lpc' = "cb"
      BY <1>5 DEF ProcessStart, CallbackStart, TakeCompleted, AfterReturn, StageInv, asyncVars
    <2> QED
      BY <2>1, <1>a
  <1>6. CASE ProcessEnd \/ \E w \in Workers : CreateThread(w)
    <2>1. completedItems' = << >>
      BY <1>6 DEF ProcessEnd, CreateThread, StageInv, Starting, doneVars
    <2> QED
      BY <2>1 DEF CompletionSignalled
  <1>7. CASE FailBroadcast \/ FailJoin \/ CreateFails \/ Free \/ FreeJoin
    BY <1>7, <1>b DEF FailBroadcast, FailJoin, CreateFails, Free, FreeJoin
  <1>8. ASSUME NEW w \in Workers, \/ Lock(w) \/ Wait(w) \/ SpuriousWakeup(w) \/ Check(w)
                                  \/ WorkReturn(w) \/ Finish(w)
        PROVE  CompletionSignalled'
    <2>1. completedItems' = completedItems /\ mpc' = mpc /\ UNCHANGED asyncVars
      BY <1>8 DEF Lock, Wait, SpuriousWakeup, Check, WorkReturn, Finish, doneVars
    <2>2. \A v \in Workers : wpc[v] = "send" => wpc'[v] = "send"
      BY <1>8 DEF Lock, Wait, SpuriousWakeup, Check, WorkReturn, Finish, Goto, WorkTypeOK
    <2> HIDE DEF Signal
    <2> QED
      BY <2>1, <2>2, <1>c, <1>d
  <1>9. CASE Queue \/ CancelAll \/ (\E i \in Items : Cancel(i)) \/ UNCHANGED workVars
    <2>1. completedItems' = completedItems /\ mpc' = mpc /\ UNCHANGED asyncVars
      BY <1>9 DEF Queue, CancelAll, Cancel, workVars, doneVars
    <2>2. wpc' = wpc \/ wpc' \in Signalled
      BY <1>9 DEF Queue, CancelAll, Cancel, workVars
    <2>3. \A v \in Workers : wpc[v] = "send" => wpc'[v] = "send"
      BY <2>2, OnlyWakes DEF WorkerPcs, WorkTypeOK
    <2> HIDE DEF Signal
    <2> QED
      BY <2>1, <2>3, <1>c, <1>d
  <1> QED
    BY <1>1, <1>2, <1>3, <1>4, <1>5, <1>6, <1>7, <1>8, <1>9
       DEF WorkNext, WorkerStep, LoopThreadStep, ClientCall

\* The pool loopyWorkNew sets up satisfies the invariant.
LEMMA WorkInvInit == WorkInit => WorkInv
  <1> SUFFICES ASSUME WorkInit PROVE WorkInv
    OBVIOUS
  <1>1. AsyncInv
    <2>1. Undecided = {}
      BY DEF WorkInit, AsyncInit, Undecided
    <2> QED
      BY <2>1, FS_EmptySet, MaxSendsAssumption
         DEF WorkInit, AsyncInit, AsyncInv, AsyncTypeOK, TokenInv, NoLostWakeup, CallbacksBounded,
             FreedHandleUnused
  <1>2. WorkTypeOK
    <2>1. << >> \in Seq(Items) /\ << >> \in Seq({"OK", "CANCELLED"})
      BY EmptySeq
    <2>2. /\ pendingItems \in Seq(Items) /\ completedItems \in Seq(Items)
          /\ after \in [Items -> Seq({"OK", "CANCELLED"})]
      BY <2>1 DEF WorkInit
    <2>3. nextWorkId \in 1 .. MaxItems + 1
      BY ItemsAssumption DEF WorkInit
    <2> QED
      BY <1>1, <2>2, <2>3 DEF WorkInit, WorkTypeOK, AsyncInv
  <1>3. WorkerInv /\ StageInv
    BY DEF WorkInit, AsyncInit, WorkerInv, StageInv, Workers, Holding
  <1>4. \A i \in Items : Occ(pendingItems, i) = {} /\ Occ(completedItems, i) = {} /\ runs[i] = 0
    BY OccEmpty DEF WorkInit
  <1>5. ItemInOnePlace
    <2> SUFFICES ASSUME NEW i \in Items PROVE Places(i) = IF i < nextWorkId THEN 1 ELSE 0
      BY DEF ItemInOnePlace
    <2>1. Cardinality(Occ(pendingItems, i)) = 0 /\ Cardinality(Occ(completedItems, i)) = 0
      BY <1>4, FS_EmptySet
    <2>2. Holders(i) = {}
      BY ItemsAssumption DEF Holders, WorkInit, Items
    <2>3. Cardinality(Holders(i)) = 0 /\ Len(after[i]) = 0
      BY <2>2, FS_EmptySet DEF WorkInit
    <2>4. ~ (i < nextWorkId)
      BY ItemsAssumption DEF WorkInit, Items
    <2> QED
      BY <2>1, <2>3, <2>4, PlacesSum
  <1>6. CountsAgree
    <2>1. Busy = {}
      BY DEF Busy, WorkInit
    <2> QED
      BY <2>1, FS_EmptySet, ItemsAssumption DEF CountsAgree, WorkInit
  <1>7. ProgressInv
    BY <1>4 DEF ProgressInv, WorkInit
  <1>8. CancelIsFinal /\ CompletionSignalled
    BY DEF CancelIsFinal, CompletionSignalled, WorkInit
  <1> QED
    BY <1>1, <1>2, <1>3, <1>5, <1>6, <1>7, <1>8 DEF WorkInv

\* Every step of any thread keeps the invariant.
LEMMA WorkInvStep == WorkInv /\ [WorkNext]_workVars => WorkInv'
  <1> SUFFICES ASSUME WorkInv, [WorkNext]_workVars PROVE WorkInv'
    OBVIOUS
  <1> USE DEF WorkInv
  <1>1. AsyncInv'
    BY WorkIsAsync, AsyncInvStep
  <1>2. WorkTypeOK'
    BY <1>1, WorkTypeStep DEF AsyncInv
  <1>3. WorkerInv' /\ StageInv'
    BY WorkerInvStep, StageStep
  <1>4. ItemInOnePlace' /\ CountsAgree'
    BY <1>2, PlacesStep, CountsStep
  <1>5. ProgressInv'
    BY <1>2, ProgressStep
  <1>6. CancelIsFinal' /\ CompletionSignalled'
    BY CancelStep, SignalledStep
  <1> QED
    BY <1>1, <1>2, <1>3, <1>4, <1>5, <1>6

\* The inductive invariant holds in every reachable state of loopyWork.c.
THEOREM WorkInvariant == WorkSpec => []WorkInv
  BY WorkInvInit, WorkInvStep, PTL DEF WorkSpec

-----------------------------------------------------------------------------
(* The properties                                                           *)

\* Over any interleaving of loopyWorkQueue, loopyWorkCancel, the workers and
\* the loop, every item is in exactly one place and the counters of
\* loopyWork.c agree with the lists and with what the workers do.
THEOREM WorkPoolConsistent == WorkSpec => []PoolConsistent
  <1>1. WorkInv => PoolConsistent
    BY DEF WorkInv, PoolConsistent
  <1> QED
    BY <1>1, WorkInvariant, PTL

\* An item runs at most once; after loopyWorkCancel returned true it never
\* runs, and its after-work callback is told exactly what happened.
THEOREM WorkCancelIsFinal == WorkSpec => []CancelIsFinal
  <1>1. WorkInv => CancelIsFinal
    BY DEF WorkInv
  <1> QED
    BY <1>1, WorkInvariant, PTL

\* workEnqueueCompleted never leaves an item behind without a signal on its
\* way to the loop thread, however the workers' sends coalesce.
THEOREM WorkCompletionSignalled == WorkSpec => []CompletionSignalled
  <1>1. WorkInv => CompletionSignalled
    BY DEF WorkInv
  <1> QED
    BY <1>1, WorkInvariant, PTL

\* In the pool too the handle holds one wakeup token and loses no wakeup.
THEOREM WorkWakeupsKept == WorkSpec => [](TokenInv /\ NoLostWakeup)
  <1>1. WorkInv => TokenInv /\ NoLostWakeup
    BY DEF WorkInv, AsyncInv
  <1> QED
    BY <1>1, WorkInvariant, PTL

\* The safety half of ImplementsSignal: to the pool's clients the handle is
\* the abstract signal, whatever the workers and the loop thread do.
THEOREM WorkRefinesSignal ==
  WorkSpec => Abstract!SignalInit /\ [][Abstract!SignalNext]_(Abstract!signalVars)
  <1>1. WorkInv => AsyncInv
    BY DEF WorkInv
  <1> QED
    BY <1>1, WorkUsesAsync, WorkInvariant, SignalInitial, SignalStep, PTL
=============================================================================
