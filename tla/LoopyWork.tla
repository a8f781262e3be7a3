----------------------------- MODULE LoopyWork -----------------------------
(***************************************************************************)
(* loopyWork.c: a pool of worker threads and its two queues, composed with *)
(* the loopyAsync handle (module LoopyAsync) that tells the event loop of  *)
(* completed work.  The workers are the senders of that handle.            *)
(*                                                                         *)
(* A critical section of work->mutex is one step, with one exception: a    *)
(* worker that found nothing to do still holds the mutex ("towait") before *)
(* pthread_cond_wait releases it and blocks, because the constructor's     *)
(* error path sets `shutdown` and broadcasts without the mutex.            *)
(***************************************************************************)
EXTENDS LoopyAsync, Sequences

CONSTANTS
  MaxItems,      (* bound on the number of items queued                      *)
  MaxQueue,      (* config.maxQueueSize, 0 for no limit                      *)
  CreateMayFail  (* TRUE: pthread_create may fail                            *)

Workers == Senders
Items   == 1 .. MaxItems

ASSUME ItemsAssumption == MaxItems \in Nat /\ MaxItems <= MaxSends /\ MaxQueue \in Nat
ASSUME WorkersAssumption == Workers # {}
ASSUME CreateAssumption == CreateMayFail \in BOOLEAN

VARIABLES
  mpc,           (* where the loop thread is                                 *)
  wpc,           (* where each worker is in workWorkerThread                 *)
  item,          (* the item a worker holds, 0 for none                      *)
  shutdown,      (* work->shutdown                                           *)
  pendingItems,  (* the list from pendingHead to pendingTail                 *)
  pendingCount, runningCount, nextWorkId,
  completedItems, (* the list from completedHead to completedTail             *)
  cur,           (* the item workProcessCompleted is handling, 0 for none    *)
  cancelled,     (* items with item->cancelled set                           *)
  status,        (* item->status                                             *)
  runs,          (* history: executions of each item's workCb                *)
  after          (* history: statuses each item's afterCb was called with    *)

queueVars == <<pendingItems, pendingCount, nextWorkId, cancelled>>
runVars   == <<item, runningCount, status, runs>>
doneVars  == <<completedItems, cur, after>>
workVars  == <<asyncVars, mpc, wpc, shutdown, queueVars, runVars, doneVars>>

WorkTypeOK ==
  /\ AsyncTypeOK
  /\ mpc \in {"create", "failing", "failjoin", "failed", "loop", "cb", "after", "join", "freed"}
  /\ wpc \in [Workers -> {"none", "lock", "towait", "waiting", "check", "work", "finish",
                          "enqueue", "send", "sending", "exited"}]
  /\ item \in [Workers -> Items \cup {0}]
  /\ shutdown \in BOOLEAN
  /\ pendingItems \in Seq(Items)
  /\ pendingCount \in Nat /\ runningCount \in Nat
  /\ nextWorkId \in 1 .. MaxItems + 1
  /\ completedItems \in Seq(Items)
  /\ cur \in Items \cup {0}
  /\ cancelled \subseteq Items
  /\ status \in [Items -> {"OK", "CANCELLED"}]
  /\ runs \in [Items -> Nat]
  /\ after \in [Items -> Seq({"OK", "CANCELLED"})]

\* loopyWorkNew up to the loop that creates the threads.
WorkInit ==
  /\ AsyncInit
  /\ mpc = "create"
  /\ wpc = [w \in Workers |-> "none"]
  /\ item = [w \in Workers |-> 0]
  /\ shutdown = FALSE
  /\ pendingItems = << >> /\ pendingCount = 0
  /\ runningCount = 0
  /\ nextWorkId = 1
  /\ completedItems = << >>
  /\ cur = 0
  /\ cancelled = {}
  /\ status = [i \in Items |-> "OK"]
  /\ runs = [i \in Items |-> 0]
  /\ after = [i \in Items |-> << >>]

MutexFree == \A w \in Workers : wpc[w] # "towait"
Goto(w, p) == [wpc EXCEPT ![w] = p]
Waiting == {w \in Workers : wpc[w] = "waiting"}
\* pthread_cond_signal wakes one waiter if there is one; broadcast wakes all.
Signalled ==
  IF Waiting = {} THEN {wpc} ELSE {[wpc EXCEPT ![w] = "lock"] : w \in Waiting}
Broadcast == [w \in Workers |-> IF wpc[w] = "waiting" THEN "lock" ELSE wpc[w]]

-----------------------------------------------------------------------------
(* The loop thread: construction and destruction                            *)

\* pthread_create succeeds; after the last one loopyWorkNew returns.
CreateThread(w) ==
  /\ mpc = "create"
  /\ wpc[w] = "none"
  /\ wpc' = Goto(w, "lock")
  /\ mpc' = IF \A v \in Workers : wpc'[v] # "none" THEN "loop" ELSE "create"
  /\ UNCHANGED <<asyncVars, shutdown, queueVars, runVars, doneVars>>

\* pthread_create fails: `shutdown` is set, without the mutex...
CreateFails ==
  /\ CreateMayFail
  /\ mpc = "create"
  /\ shutdown' = TRUE
  /\ mpc' = "failing"
  /\ UNCHANGED <<asyncVars, wpc, queueVars, runVars, doneVars>>

\* ... and broadcast, ...
FailBroadcast ==
  /\ mpc = "failing"
  /\ wpc' = Broadcast
  /\ mpc' = "failjoin"
  /\ UNCHANGED <<asyncVars, shutdown, queueVars, runVars, doneVars>>

\* ... and the threads created so far are joined; the handle is freed.
FailJoin ==
  /\ mpc = "failjoin"
  /\ \A w \in Workers : wpc[w] \in {"none", "exited"}
  /\ AsyncFree
  /\ mpc' = "failed"
  /\ UNCHANGED <<wpc, shutdown, queueVars, runVars, doneVars>>

\* Mutant: the waiting workers are not woken.
FreeNoBroadcast ==
  /\ mpc = "loop" /\ lpc = "poll"
  /\ MutexFree
  /\ shutdown' = TRUE
  /\ mpc' = "join"
  /\ UNCHANGED <<asyncVars, wpc, queueVars, runVars, doneVars>>

\* loopyWorkFree, between events: tell the workers, ...
Free ==
  /\ mpc = "loop" /\ lpc = "poll"
  /\ MutexFree
  /\ shutdown' = TRUE
  /\ wpc' = Broadcast
  /\ mpc' = "join"
  /\ UNCHANGED <<asyncVars, queueVars, runVars, doneVars>>

\* ... join them, free the async handle and drop what is left in the queues.
FreeJoin ==
  /\ mpc = "join"
  /\ \A w \in Workers : wpc[w] = "exited"
  /\ AsyncFree
  /\ mpc' = "freed"
  /\ pendingItems' = << >> /\ completedItems' = << >>
  /\ UNCHANGED <<wpc, shutdown, pendingCount, nextWorkId, cancelled, runVars, cur, after>>

-----------------------------------------------------------------------------
(* Any thread                                                               *)

InUse == mpc \in {"loop", "cb", "after"} /\ MutexFree

\* Mutant: nobody is woken.
QueueNoSignal ==
  /\ InUse
  /\ nextWorkId <= MaxItems
  /\ MaxQueue > 0 => pendingCount < MaxQueue
  /\ pendingItems' = Append(pendingItems, nextWorkId)
  /\ pendingCount' = pendingCount + 1
  /\ nextWorkId' = nextWorkId + 1
  /\ UNCHANGED wpc
  /\ UNCHANGED <<asyncVars, mpc, shutdown, cancelled, runVars, doneVars>>

\* loopyWorkQueue; a full queue refuses the item and nothing changes.
Queue ==
  /\ InUse
  /\ nextWorkId <= MaxItems
  /\ MaxQueue > 0 => pendingCount < MaxQueue
  /\ pendingItems' = Append(pendingItems, nextWorkId)
  /\ pendingCount' = pendingCount + 1
  /\ nextWorkId' = nextWorkId + 1
  /\ wpc' \in Signalled
  /\ UNCHANGED <<asyncVars, mpc, shutdown, cancelled, runVars, doneVars>>

Queued == {pendingItems[k] : k \in DOMAIN pendingItems}

\* Mutant: an item a worker has already taken is found too.
CancelHeld(i) ==
  /\ InUse
  /\ i \in Queued \cup {item[w] : w \in Workers}
  /\ cancelled' = cancelled \cup {i}
  /\ UNCHANGED <<asyncVars, mpc, wpc, shutdown, runVars, doneVars>>
  /\ UNCHANGED <<pendingItems, pendingCount, nextWorkId>>

\* loopyWorkCancel of an item that is found (it returns true); any other call
\* returns false and changes nothing.
Cancel(i) ==
  /\ InUse
  /\ i \in Queued
  /\ cancelled' = cancelled \cup {i}
  /\ UNCHANGED <<asyncVars, mpc, wpc, shutdown, runVars, doneVars>>
  /\ UNCHANGED <<pendingItems, pendingCount, nextWorkId>>

\* loopyWorkCancelAll
CancelAll ==
  /\ InUse
  /\ cancelled' = cancelled \cup Queued
  /\ UNCHANGED <<asyncVars, mpc, wpc, shutdown, runVars, doneVars>>
  /\ UNCHANGED <<pendingItems, pendingCount, nextWorkId>>

-----------------------------------------------------------------------------
(* workWorkerThread                                                         *)

\* workDequeue, and the running count
Dequeue(w) ==
  /\ item' = [item EXCEPT ![w] = Head(pendingItems)]
  /\ pendingItems' = Tail(pendingItems)
  /\ pendingCount' = pendingCount - 1
  /\ runningCount' = runningCount + 1

\* Takes the mutex: exit on shutdown, dequeue, or get ready to wait.
Lock(w) ==
  /\ wpc[w] = "lock"
  /\ MutexFree
  /\ \/ /\ shutdown
        /\ wpc' = Goto(w, "exited")
        /\ UNCHANGED <<pendingItems, pendingCount, item, runningCount>>
     \/ /\ ~shutdown /\ pendingItems = << >>
        /\ wpc' = Goto(w, "towait")
        /\ UNCHANGED <<pendingItems, pendingCount, item, runningCount>>
     \/ /\ ~shutdown /\ pendingItems # << >>
        /\ wpc' = Goto(w, "check")
        /\ Dequeue(w)
  /\ UNCHANGED <<asyncVars, mpc, shutdown, nextWorkId, cancelled, status, runs, doneVars>>

\* pthread_cond_wait releases the mutex and blocks, atomically.
Wait(w) ==
  /\ wpc[w] = "towait"
  /\ wpc' = Goto(w, "waiting")
  /\ UNCHANGED <<asyncVars, mpc, shutdown, queueVars, runVars, doneVars>>

\* pthread_cond_wait may return without a signal.
SpuriousWakeup(w) ==
  /\ wpc[w] = "waiting"
  /\ wpc' = Goto(w, "lock")
  /\ UNCHANGED <<asyncVars, mpc, shutdown, queueVars, runVars, doneVars>>

\* item->cancelled is read without the mutex; the work callback starts.
Check(w) ==
  /\ wpc[w] = "check"
  /\ IF item[w] \in cancelled
       THEN /\ status' = [status EXCEPT ![item[w]] = "CANCELLED"]
            /\ wpc' = Goto(w, "finish")
            /\ UNCHANGED runs
       ELSE /\ runs' = [runs EXCEPT ![item[w]] = @ + 1]
            /\ wpc' = Goto(w, "work")
            /\ UNCHANGED status
  /\ UNCHANGED <<asyncVars, mpc, shutdown, queueVars, item, runningCount, doneVars>>

\* The work callback returns.
WorkReturn(w) ==
  /\ wpc[w] = "work"
  /\ status' = [status EXCEPT ![item[w]] = "OK"]
  /\ wpc' = Goto(w, "finish")
  /\ UNCHANGED <<asyncVars, mpc, shutdown, queueVars, item, runningCount, runs, doneVars>>

\* Mutant: the running count is not decremented for a cancelled item.
FinishKeepCancelled(w) ==
  /\ wpc[w] = "finish"
  /\ MutexFree
  /\ runningCount' = IF item[w] \in cancelled THEN runningCount ELSE runningCount - 1
  /\ wpc' = Goto(w, "enqueue")
  /\ UNCHANGED <<asyncVars, mpc, shutdown, queueVars, item, status, runs, doneVars>>

\* The running count is decremented, in a critical section of its own.
Finish(w) ==
  /\ wpc[w] = "finish"
  /\ MutexFree
  /\ runningCount' = runningCount - 1
  /\ wpc' = Goto(w, "enqueue")
  /\ UNCHANGED <<asyncVars, mpc, shutdown, queueVars, item, status, runs, doneVars>>

\* workEnqueueCompleted
EnqueueCompleted(w) ==
  /\ wpc[w] = "enqueue"
  /\ MutexFree
  /\ completedItems' = Append(completedItems, item[w])
  /\ item' = [item EXCEPT ![w] = 0]
  /\ wpc' = Goto(w, "send")
  /\ UNCHANGED <<asyncVars, mpc, shutdown, queueVars, runningCount, status, runs, cur, after>>

\* loopyAsyncSend: its call, then its own steps.
NotifyCall(w) ==
  /\ wpc[w] = "send"
  /\ SendCall(w)
  /\ wpc' = Goto(w, "sending")
  /\ UNCHANGED <<mpc, shutdown, queueVars, runVars, doneVars>>

NotifyStep(w) ==
  /\ wpc[w] = "sending"
  /\ SenderStep(w)
  /\ wpc' = IF spc'[w] = "idle" THEN Goto(w, "lock") ELSE wpc
  /\ UNCHANGED <<mpc, shutdown, queueVars, runVars, doneVars>>

-----------------------------------------------------------------------------
(* The loop thread: delivery                                                *)

\* The event loop dispatches asyncEventCallback, ...
AsyncEvent ==
  /\ mpc = "loop"
  /\ PollReadable \/ Drain \/ ClearPending
  /\ UNCHANGED <<mpc, wpc, shutdown, queueVars, runVars, doneVars>>

\* ... which calls workAsyncCallback.
ProcessStart ==
  /\ mpc = "loop"
  /\ CallbackStart
  /\ mpc' = "cb"
  /\ UNCHANGED <<wpc, shutdown, queueVars, runVars, doneVars>>

\* workProcessCompleted takes one item off the list and calls its afterCb.
TakeCompleted ==
  /\ mpc = "cb"
  /\ MutexFree
  /\ completedItems # << >>
  /\ cur' = Head(completedItems)
  /\ completedItems' = Tail(completedItems)
  /\ after' = [after EXCEPT ![cur'] = Append(@, status[cur'])]
  /\ mpc' = "after"
  /\ UNCHANGED <<asyncVars, wpc, shutdown, queueVars, runVars>>

\* The after-work callback returns and the item is freed.
AfterReturn ==
  /\ mpc = "after"
  /\ cur' = 0
  /\ mpc' = "cb"
  /\ UNCHANGED <<asyncVars, wpc, shutdown, queueVars, runVars, completedItems, after>>

\* Mutant: one item per notification.
ProcessEndEarly ==
  /\ mpc = "cb"
  /\ MutexFree
  /\ CallbackReturn
  /\ mpc' = "loop"
  /\ UNCHANGED <<wpc, shutdown, queueVars, runVars, doneVars>>

\* The list is empty: workProcessCompleted returns.
ProcessEnd ==
  /\ mpc = "cb"
  /\ MutexFree
  /\ completedItems = << >>
  /\ CallbackReturn
  /\ mpc' = "loop"
  /\ UNCHANGED <<wpc, shutdown, queueVars, runVars, doneVars>>

-----------------------------------------------------------------------------
WorkerStep(w) ==
  \/ Lock(w) \/ Wait(w) \/ Check(w) \/ WorkReturn(w) \/ Finish(w)
  \/ EnqueueCompleted(w) \/ NotifyCall(w) \/ NotifyStep(w)

LoopThreadStep ==
  \/ \E w \in Workers : CreateThread(w)
  \/ FailBroadcast \/ FailJoin \/ FreeJoin
  \/ AsyncEvent \/ ProcessStart \/ TakeCompleted \/ AfterReturn \/ ProcessEnd

ClientCall == Free \/ Queue \/ CancelAll \/ \E i \in Items : Cancel(i)

WorkNext ==
  \/ \E w \in Workers : WorkerStep(w) \/ SpuriousWakeup(w)
  \/ LoopThreadStep
  \/ CreateFails
  \/ ClientCall

\* Every thread keeps running and its callbacks return; a thread that asks for
\* the mutex again and again while it is free again and again gets it, hence
\* strong fairness.  Nobody has to call the API; threads need not wake up
\* spuriously.
WorkFairness ==
  /\ \A w \in Workers : SF_workVars(WorkerStep(w))
  /\ SF_workVars(LoopThreadStep)

WorkSpec == WorkInit /\ [][WorkNext]_workVars /\ WorkFairness

-----------------------------------------------------------------------------
(* Properties                                                               *)

\* Until the pool is freed an item that was queued is in exactly one place:
\* waiting, with one worker, completed, or delivered; it is delivered at most
\* once, and no identifier appears that was not handed out.
Places(i) ==
  Cardinality({k \in DOMAIN pendingItems : pendingItems[k] = i})
    + Cardinality({w \in Workers : item[w] = i})
    + Cardinality({k \in DOMAIN completedItems : completedItems[k] = i})
    + Len(after[i])
ItemInOnePlace ==
  mpc # "freed" => \A i \in Items : Places(i) = IF i < nextWorkId THEN 1 ELSE 0

\* The work callback runs at most once, and not at all once loopyWorkCancel
\* has returned true, even if the worker takes the item at the same moment;
\* the after-work callback is told exactly which of the two happened.
CancelIsFinal ==
  \A i \in Items :
    /\ runs[i] <= 1
    /\ i \in cancelled => runs[i] = 0
    /\ \A k \in DOMAIN after[i] :
         after[i][k] = (IF i \in cancelled THEN "CANCELLED" ELSE "OK") /\ (i \in cancelled \/ runs[i] = 1)

\* The counters loopyWorkPendingCount and loopyWorkRunningCount report agree
\* with the queue and with what the workers do, and the limit is kept.
Busy == {w \in Workers : wpc[w] \in {"check", "work", "finish"}}
CountsAgree ==
  /\ mpc # "freed" => pendingCount = Len(pendingItems)
  /\ runningCount = Cardinality(Busy)
  /\ MaxQueue > 0 => pendingCount <= MaxQueue

\* The structure is what it should be at every moment: its types, its lists and
\* its counters, over queueing, cancellation, the workers and the loop.
PoolConsistent == WorkTypeOK /\ ItemInOnePlace /\ CountsAgree

\* No completion is lost: while a completed item waits for delivery, a worker
\* has yet to signal for it, a wakeup is on its way through the async handle,
\* or workProcessCompleted is running.
CompletionSignalled ==
  (completedItems # << >> /\ mpc \in {"loop", "cb", "after"}) =>
    \/ \E w \in Workers : wpc[w] = "send" \/ spc[w] \in {"cas", "write"}
    \/ wakeups > 0
    \/ lpc \in {"clear", "call", "cb"}

\* Every item queued is eventually delivered, unless the pool is freed.
EveryItemDelivered ==
  \A i \in Items : (i < nextWorkId) ~> (after[i] # << >> \/ shutdown)

\* loopyWorkFree returns: every worker notices the shutdown.
FreeReturns == (mpc = "join") ~> (mpc = "freed")

\* The constructor's error path returns.
FailedNewReturns == (mpc = "failing") ~> (mpc = "failed")
=============================================================================
