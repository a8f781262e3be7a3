------------------------------ MODULE LoopyDNS -------------------------------
(***************************************************************************)
(* loopyDNS.c: name resolution by worker threads.  Queries wait in a list  *)
(* under a mutex with a condition variable; results go to a second list    *)
(* and an eventfd tells the loop, whose callback empties it.  A section    *)
(* under the mutex is one step.  What a query asks, and whether it is a    *)
(* forward or a reverse one, makes no difference to any of this.           *)
(***************************************************************************)
EXTENDS Integers, Sequences, SequencesExt, FiniteSets, FiniteSetsExt

CONSTANTS
  DnQueries, DnWorkers,
  DnMaxConcurrent (* config.maxConcurrent                                    *)

NoQuery == "none"
ASSUME DnAssumption == IsFiniteSet(DnWorkers) /\ NoQuery \notin DnQueries

VARIABLES
  dnQuery,        (* "new", "accepted" or "refused"                          *)
  dnPending, dnCompleted,
  dnCancelled,    (* queries with the cancelled flag                         *)
  dnShutdown,
  dnLife,         (* loopyDNSNew: "making", "failing" (it joins) and
                     "failed"; "alive", loopyDNSFree: "joining", "freed"     *)
  dnWorker,       (* where each worker is ("none": not created) and the
                     query it has                                            *)
  dnEvent,        (* the eventfd is readable                                 *)
  dnLoop,         (* dnsProcessCompleted: "out", "pop" or "call"             *)
  dnCalls,        (* history: callbacks of each query                        *)
  dnDropped       (* history: queries that end without a callback            *)

dnVars == <<dnQuery, dnPending, dnCompleted, dnCancelled, dnShutdown, dnLife,
            dnWorker, dnEvent, dnLoop, dnCalls, dnDropped>>
dnQueueVars == <<dnQuery, dnPending, dnCancelled>>
dnLoopVars == <<dnLoop, dnCalls>>
At(pc) == [pc |-> pc, query |-> NoQuery]

DnInit ==
  /\ dnQuery = [q \in DnQueries |-> "new"]
  /\ dnPending = << >> /\ dnCompleted = << >> /\ dnCancelled = {}
  /\ dnShutdown = FALSE /\ dnLife = "making"
  /\ dnWorker = [w \in DnWorkers |-> At("none")]
  /\ dnEvent = FALSE /\ dnLoop = "out"
  /\ dnCalls = [q \in DnQueries |-> 0] /\ dnDropped = {}

Waiting == {w \in DnWorkers : dnWorker[w].pc = "wait"}

\* loopyDNSNew creates the workers, one by one, while those that exist run,
CreateWorker(w) ==
  /\ dnLife = "making" /\ dnWorker[w].pc = "none"
  /\ dnWorker' = [dnWorker EXCEPT ![w] = At("test")]
  /\ UNCHANGED <<dnQueueVars, dnCompleted, dnShutdown, dnLife, dnEvent, dnLoopVars, dnDropped>>

\* and returns, when they are there,
DnsNew ==
  /\ dnLife = "making" /\ \A w \in DnWorkers : dnWorker[w].pc # "none"
  /\ dnLife' = "alive"
  /\ UNCHANGED <<dnQueueVars, dnCompleted, dnShutdown, dnWorker, dnEvent, dnLoopVars, dnDropped>>

\* or something cannot be had: the flag is stored and broadcast without the
\* mutex, so that a worker which has tested it just before goes to sleep,
CreateFails(asleep) ==
  /\ dnLife = "making" /\ \E w \in DnWorkers : dnWorker[w].pc = "none"
  /\ asleep \subseteq {w \in DnWorkers : dnWorker[w].pc = "test"} /\ Cardinality(asleep) <= 1
  /\ dnLife' = "failing" /\ dnShutdown' = TRUE
  /\ dnWorker' = [w \in DnWorkers |-> IF w \in asleep THEN At("wait")
                                      ELSE IF w \in Waiting THEN At("test") ELSE dnWorker[w]]
  /\ UNCHANGED <<dnQueueVars, dnCompleted, dnEvent, dnLoopVars, dnDropped>>

\* and the workers are joined.
NewFailed ==
  /\ dnLife = "failing" /\ \A w \in DnWorkers : dnWorker[w].pc \in {"none", "exit"}
  /\ dnLife' = "failed"
  /\ UNCHANGED <<dnQueueVars, dnCompleted, dnShutdown, dnWorker, dnEvent, dnLoopVars, dnDropped>>

\* pthread_cond_signal: one of the threads that wait, if any, tests again.
SignalWorker ==
  IF Waiting = {} THEN UNCHANGED dnWorker
  ELSE \E w \in Waiting : dnWorker' = [dnWorker EXCEPT ![w] = At("test")]

\* loopyDNSResolve and loopyDNSReverseLookup, by any thread; the query is
\* also refused if it cannot be allocated.
Resolve(q) ==
  /\ dnLife = "alive" /\ dnQuery[q] = "new"
  /\ \/ /\ Len(dnPending) < DnMaxConcurrent
        /\ dnQuery' = [dnQuery EXCEPT ![q] = "accepted"]
        /\ dnPending' = Append(dnPending, q)
        /\ SignalWorker
     \/ /\ dnQuery' = [dnQuery EXCEPT ![q] = "refused"]
        /\ UNCHANGED <<dnPending, dnWorker>>
  /\ UNCHANGED <<dnCompleted, dnCancelled, dnShutdown, dnLife, dnEvent, dnLoopVars, dnDropped>>

\* loopyDNSCancel returns true, and loopyDNSCancelAll: what still waits is
\* marked.
Cancel(qs) ==
  /\ dnLife = "alive"
  /\ qs # {} /\ qs \subseteq Range(dnPending)
  /\ Cardinality(qs) = 1 \/ qs = Range(dnPending)
  /\ dnCancelled' = dnCancelled \cup qs
  /\ UNCHANGED <<dnQuery, dnPending, dnCompleted, dnShutdown, dnLife, dnWorker,
                 dnEvent, dnLoopVars, dnDropped>>

\* dnsWorkerThread with the mutex: wait, stop or take a query.
WorkerTest(w) ==
  /\ dnWorker[w].pc = "test"
  /\ \/ /\ dnPending = << >> /\ ~dnShutdown
        /\ dnWorker' = [dnWorker EXCEPT ![w] = At("wait")]
        /\ UNCHANGED dnPending
     \/ /\ dnShutdown
        /\ dnWorker' = [dnWorker EXCEPT ![w] = At("exit")]
        /\ UNCHANGED dnPending
     \/ /\ dnPending # << >> /\ ~dnShutdown
        /\ dnWorker' = [dnWorker EXCEPT ![w] = [pc |-> "work", query |-> Head(dnPending)]]
        /\ dnPending' = Tail(dnPending)
  /\ UNCHANGED <<dnQuery, dnCompleted, dnCancelled, dnShutdown, dnLife, dnEvent,
                 dnLoopVars, dnDropped>>

\* A query that was cancelled is not looked up, but completes like the
\* others (dnsProcessForwardQuery, dnsEnqueueCompleted).
WorkerComplete(w) ==
  /\ dnWorker[w].pc = "work"
  /\ dnCompleted' = Append(dnCompleted, dnWorker[w].query)
  /\ dnWorker' = [dnWorker EXCEPT ![w] = At("notify")]
  /\ UNCHANGED <<dnQueueVars, dnShutdown, dnLife, dnEvent, dnLoopVars, dnDropped>>

\* No memory for the result: the query ends here.
WorkerDrops(w) ==
  /\ dnWorker[w].pc = "work"
  /\ dnDropped' = dnDropped \cup {dnWorker[w].query}
  /\ dnWorker' = [dnWorker EXCEPT ![w] = At("test")]
  /\ UNCHANGED <<dnQueueVars, dnCompleted, dnShutdown, dnLife, dnEvent, dnLoopVars>>

\* dnsNotifyLoop
WorkerNotify(w) ==
  /\ dnWorker[w].pc = "notify"
  /\ dnEvent' = TRUE
  /\ dnWorker' = [dnWorker EXCEPT ![w] = At("test")]
  /\ UNCHANGED <<dnQueueVars, dnCompleted, dnShutdown, dnLife, dnLoopVars, dnDropped>>

\* dnsNotifyCallback reads the eventfd,
Notified ==
  /\ dnLife = "alive" /\ dnLoop = "out" /\ dnEvent
  /\ dnEvent' = FALSE
  /\ dnLoop' = "pop"
  /\ UNCHANGED <<dnQueueVars, dnCompleted, dnShutdown, dnLife, dnWorker, dnCalls, dnDropped>>

\* and dnsProcessCompleted takes results until there are none.
PopCompleted ==
  /\ dnLoop = "pop"
  /\ IF dnCompleted = << >>
     THEN dnLoop' = "out" /\ UNCHANGED <<dnCompleted, dnCalls>>
     ELSE /\ dnCompleted' = Tail(dnCompleted)
          /\ dnCalls' = [dnCalls EXCEPT ![Head(dnCompleted)] = @ + 1]
          /\ dnLoop' = "call"
  /\ UNCHANGED <<dnQueueVars, dnShutdown, dnLife, dnWorker, dnEvent, dnDropped>>

QueryCallbackReturns ==
  /\ dnLoop = "call"
  /\ dnLoop' = "pop"
  /\ UNCHANGED <<dnQueueVars, dnCompleted, dnShutdown, dnLife, dnWorker, dnEvent, dnCalls, dnDropped>>

\* Mutant: one worker is told instead of all.
DnsFreeSignals ==
  /\ dnLife = "alive" /\ dnLoop = "out"
  /\ dnLife' = "joining" /\ dnShutdown' = TRUE
  /\ SignalWorker
  /\ UNCHANGED <<dnQueueVars, dnCompleted, dnEvent, dnLoopVars, dnDropped>>

\* loopyDNSFree, on the loop's thread and not in a query's callback: the
\* workers are told under the mutex,
DnsFree ==
  /\ dnLife = "alive" /\ dnLoop = "out"
  /\ dnLife' = "joining" /\ dnShutdown' = TRUE
  /\ dnWorker' = [w \in DnWorkers |-> IF w \in Waiting THEN At("test") ELSE dnWorker[w]]
  /\ UNCHANGED <<dnQueueVars, dnCompleted, dnEvent, dnLoopVars, dnDropped>>

\* joined, and what is left in either list is freed.
DnsJoined ==
  /\ dnLife = "joining" /\ \A w \in DnWorkers : dnWorker[w].pc = "exit"
  /\ dnLife' = "freed"
  /\ dnDropped' = dnDropped \cup Range(dnPending) \cup Range(dnCompleted)
  /\ dnPending' = << >> /\ dnCompleted' = << >> /\ dnEvent' = FALSE
  /\ UNCHANGED <<dnQuery, dnCancelled, dnShutdown, dnWorker, dnLoopVars>>

DnNext ==
  \/ \E w \in DnWorkers : CreateWorker(w)
  \/ \E ws \in SUBSET DnWorkers : CreateFails(ws)
  \/ DnsNew \/ NewFailed
  \/ \E q \in DnQueries : Resolve(q)
  \/ \E qs \in SUBSET DnQueries : Cancel(qs)
  \/ \E w \in DnWorkers : WorkerTest(w) \/ WorkerComplete(w) \/ WorkerDrops(w) \/ WorkerNotify(w)
  \/ Notified \/ PopCompleted \/ QueryCallbackReturns \/ DnsFree \/ DnsJoined

DnSpec == DnInit /\ [][DnNext]_dnVars

-----------------------------------------------------------------------------
(* Properties                                                               *)

\* A query that loopyDNSResolve accepted waits, is with one worker, is
\* complete, or has ended, in one of these places and with one callback (also
\* when it was cancelled: see CancelledSilent); and nothing waits for a step
\* nobody will take: a result in the list has the eventfd or a thread on its way
\* to it, a pending query has its share of workers awake, and a shutdown by
\* loopyDNSFree leaves no worker waiting (one by loopyDNSNew may: see NewReturns).
DnsExact ==
  /\ \A q \in DnQueries : dnQuery[q] = "accepted" =>
       dnCalls[q] + Cardinality({i \in DOMAIN dnPending : dnPending[i] = q})
         + Cardinality({i \in DOMAIN dnCompleted : dnCompleted[i] = q})
         + Cardinality({w \in DnWorkers : dnWorker[w].query = q})
         + Cardinality({q} \cap dnDropped) = 1
  /\ dnCompleted # << >> =>
       dnEvent \/ dnLoop # "out" \/ \E w \in DnWorkers : dnWorker[w].pc = "notify"
  /\ Cardinality(DnWorkers \ Waiting) >= Min({Len(dnPending), Cardinality(DnWorkers)})
  /\ dnShutdown /\ dnLife # "failing" => Waiting = {}

\* loopyDNSNew, which could not create a worker, joins the others and returns
\* NULL.  It does not hold: a worker that tested dns->shutdown just before waits
\* for a signal that has been sent, and the join never ends.
NewReturns == dnLife = "failing" => Waiting = {}

\* A query that loopyDNSCancel found "will be cancelled" (loopyDNS.h) and its
\* callback stays silent.  It does not hold: the worker completes it with
\* LOOPY_DNS_CANCELLED and the callback is called.
CancelledSilent == \A q \in dnCancelled : dnCalls[q] = 0
=============================================================================
