----------------------------- MODULE LoopyPubSub -----------------------------
(***************************************************************************)
(* loopyPubSub.c: patterns with their lists of subscriptions, under a      *)
(* read-write lock, and a queue of messages per subscription, under its    *)
(* mutex.  Any thread may call.  Matching a topic against the patterns is  *)
(* the library's (raxTopic) and is a constant.  A callback run by publish  *)
(* does not call back into the hub, since the thread holds the lock.       *)
(* A client acknowledges only what it received and does not use a          *)
(* subscription it has given up.  Statistics and events are left out.      *)
(***************************************************************************)
EXTENDS Integers, FiniteSets, Sequences, SequencesExt

CONSTANTS
  PsThreads, PsSubs, PsPatterns, PsTopics,
  PsMatch,            (* PsMatch[t]: the patterns that topic t matches       *)
  PsKinds,            (* subscription options: mode, manual, size, drop      *)
  PsMaxSubscriptions, (* config.maxSubscriptions, 0 for no limit             *)
  PsMaxSequence       (* bound on ps->sequence                               *)

ASSUME PsAssumption ==
  /\ PsMatch \in [PsTopics -> SUBSET PsPatterns]
  /\ PsPatterns # {} /\ PsKinds # {}
  /\ \A k \in PsKinds : k.manual \in BOOLEAN /\ k.size \in Nat /\ k.drop \in BOOLEAN

VARIABLES
  psTopics,           (* ps->topics: the subscriptions of each bound pattern *)
  subscriptionCount, patternCount, psSequence,
  psSub,              (* every subscription's record                         *)
  psCall              (* what each thread is in the middle of                *)

psVars == <<psTopics, subscriptionCount, patternCount, psSequence, psSub, psCall>>

\* queue and tail are queueHead .. and queueTail # NULL; put, seen and done
\* are history: what was queued, handed to the client, and finished with.
NoSub == [state |-> "none", pattern |-> CHOOSE p \in PsPatterns : TRUE,
          kind |-> CHOOSE k \in PsKinds : TRUE, queue |-> << >>, tail |-> FALSE, len |-> 0,
          put |-> {}, seen |-> {}, done |-> {}]
PsIdle == [op |-> "idle", seq |-> 0, todo |-> << >>]

PsInit ==
  /\ psTopics = << >>
  /\ subscriptionCount = 0 /\ patternCount = 0 /\ psSequence = 0
  /\ psSub = [s \in PsSubs |-> NoSub]
  /\ psCall = [t \in PsThreads |-> PsIdle]

Bound == DOMAIN psTopics
Writable == \A t \in PsThreads : psCall[t].op # "match"

\* loopySubscribe: the limit is looked at before the lock is taken.
Subscribe(t, s, p, k) ==
  /\ psCall[t] = PsIdle /\ psSub[s].state = "none"
  /\ PsMaxSubscriptions = 0 \/ subscriptionCount < PsMaxSubscriptions
  /\ psSub' = [psSub EXCEPT ![s] = [NoSub EXCEPT !.state = "new", !.pattern = p, !.kind = k]]
  /\ psCall' = [psCall EXCEPT ![t] = [op |-> "insert", seq |-> 0, todo |-> <<s>>]]
  /\ UNCHANGED <<psTopics, subscriptionCount, patternCount, psSequence>>

\* Under the write lock: to the front of the pattern's list.  A new pattern
\* needs memory and a binding, either of which may fail.
InsertSub(t, ok) ==
  /\ psCall[t].op = "insert" /\ Writable
  /\ LET s == Head(psCall[t].todo)
         p == psSub[s].pattern IN
     IF p \in Bound \/ ok
     THEN /\ psTopics' = [q \in Bound \cup {p} |->
                            IF q # p THEN psTopics[q]
                            ELSE <<s>> \o (IF p \in Bound THEN psTopics[p] ELSE << >>)]
          /\ patternCount' = patternCount + (IF p \in Bound THEN 0 ELSE 1)
          /\ subscriptionCount' = subscriptionCount + 1
          /\ psSub' = [psSub EXCEPT ![s].state = "on"]
     ELSE /\ psSub' = [psSub EXCEPT ![s].state = "freed"]
          /\ UNCHANGED <<psTopics, patternCount, subscriptionCount>>
  /\ psCall' = [psCall EXCEPT ![t] = PsIdle]
  /\ UNCHANGED psSequence

\* Mutant: without the write lock.
UnsubscribeUnlocked(t, s) ==
  /\ psCall[t] = PsIdle /\ psSub[s].state = "on"
  /\ LET p == psSub[s].pattern
         left == RemoveFirst(psTopics[p], s) IN
     IF left = << >>
     THEN /\ psTopics' = [q \in Bound \ {p} |-> psTopics[q]]
          /\ patternCount' = patternCount - 1
     ELSE /\ psTopics' = [psTopics EXCEPT ![p] = left]
          /\ UNCHANGED patternCount
  /\ subscriptionCount' = subscriptionCount - 1
  /\ psSub' = [psSub EXCEPT ![s] = [NoSub EXCEPT !.state = "freed"]]
  /\ UNCHANGED <<psSequence, psCall>>

\* loopyUnsubscribe: out of the list, and the pattern with its last one; then
\* the queue and the subscription are freed.
Unsubscribe(t, s) ==
  /\ psCall[t] = PsIdle /\ psSub[s].state = "on" /\ Writable
  /\ LET p == psSub[s].pattern
         left == RemoveFirst(psTopics[p], s) IN
     IF left = << >>
     THEN /\ psTopics' = [q \in Bound \ {p} |-> psTopics[q]]
          /\ patternCount' = patternCount - 1
     ELSE /\ psTopics' = [psTopics EXCEPT ![p] = left]
          /\ UNCHANGED patternCount
  /\ subscriptionCount' = subscriptionCount - 1
  /\ psSub' = [psSub EXCEPT ![s] = [NoSub EXCEPT !.state = "freed"]]
  /\ UNCHANGED <<psSequence, psCall>>

\* loopyPublishEx: the number is drawn before the lock is taken,
Publish(t) ==
  /\ psCall[t] = PsIdle /\ psSequence < PsMaxSequence
  /\ psSequence' = psSequence + 1
  /\ psCall' = [psCall EXCEPT ![t] = [op |-> "publish", seq |-> psSequence + 1, todo |-> << >>]]
  /\ UNCHANGED <<psTopics, subscriptionCount, patternCount, psSub>>

\* then, with the read lock, the matching patterns are visited in the
\* library's order and each one's list from its front.
Match(t, topic) ==
  /\ psCall[t].op = "publish"
  /\ \E order \in SetToSeqs(PsMatch[topic] \cap Bound) :
       psCall' = [psCall EXCEPT ![t].op = "match",
                    ![t].todo = FlattenSeq([i \in DOMAIN order |-> psTopics[order[i]]])]
  /\ UNCHANGED <<psTopics, subscriptionCount, patternCount, psSequence, psSub>>

\* Append to a linked list: behind the tail, or as the head when there is no
\* tail.
Enqueued(b, n) ==
  [b EXCEPT !.queue = IF b.tail THEN Append(@, n) ELSE <<n>>,
            !.tail = TRUE, !.len = @ + 1, !.put = @ \cup {n}]

\* publishToPattern, one subscription: a call, or an entry in its queue.  A
\* full queue drops the message only if asked to; asynchronous delivery is
\* not implemented and the message goes nowhere.
Deliver(t) ==
  /\ psCall[t].op = "match" /\ psCall[t].todo # << >>
  /\ LET s == Head(psCall[t].todo)
         b == psSub[s]
         full == b.kind.size > 0 /\ b.len >= b.kind.size IN
     psSub' = IF b.kind.mode = "queue" /\ ~(full /\ b.kind.drop)
              THEN [psSub EXCEPT ![s] = Enqueued(b, psCall[t].seq)]
              ELSE psSub
  /\ psCall' = [psCall EXCEPT ![t].todo = Tail(@)]
  /\ UNCHANGED <<psTopics, subscriptionCount, patternCount, psSequence>>

PublishDone(t) ==
  /\ psCall[t].op = "match" /\ psCall[t].todo = << >>
  /\ psCall' = [psCall EXCEPT ![t] = PsIdle]
  /\ UNCHANGED <<psTopics, subscriptionCount, patternCount, psSequence, psSub>>

\* loopySubscriptionReceive: the head of the queue, which leaves it unless
\* the client is to acknowledge it.
Received(b) ==
  IF b.kind.manual
  THEN [b EXCEPT !.seen = @ \cup {Head(b.queue)}]
  ELSE [b EXCEPT !.queue = Tail(@), !.tail = Tail(b.queue) # << >> /\ b.tail, !.len = @ - 1,
                 !.seen = @ \cup {Head(b.queue)}, !.done = @ \cup {Head(b.queue)}]
Receive(s) ==
  /\ psSub[s].state = "on" /\ psSub[s].kind.mode = "queue" /\ psSub[s].queue # << >>
  /\ psSub' = [psSub EXCEPT ![s] = Received(@)]
  /\ UNCHANGED <<psTopics, subscriptionCount, patternCount, psSequence, psCall>>

\* loopySubscriptionAck: the entry is unlinked wherever it is; if it was the
\* tail there is no tail any more.
Acked(b, n) ==
  [b EXCEPT !.queue = RemoveFirst(@, n), !.len = @ - 1,
            !.tail = @ /\ b.queue[Len(b.queue)] # n, !.done = @ \cup {n}]
Ack(s, n) ==
  /\ psSub[s].state = "on" /\ psSub[s].kind.manual
  /\ n \in psSub[s].seen /\ n \in Range(psSub[s].queue)
  /\ psSub' = [psSub EXCEPT ![s] = Acked(@, n)]
  /\ UNCHANGED <<psTopics, subscriptionCount, patternCount, psSequence, psCall>>

PsNext ==
  \/ \E t \in PsThreads :
       \/ \E s \in PsSubs, p \in PsPatterns, k \in PsKinds : Subscribe(t, s, p, k)
       \/ \E ok \in BOOLEAN : InsertSub(t, ok)
       \/ \E s \in PsSubs : Unsubscribe(t, s)
       \/ Publish(t) \/ Deliver(t) \/ PublishDone(t)
       \/ \E topic \in PsTopics : Match(t, topic)
  \/ \E s \in PsSubs : Receive(s) \/ \E n \in 1 .. PsMaxSequence : Ack(s, n)

PsSpec == PsInit /\ [][PsNext]_psVars

-----------------------------------------------------------------------------
(* Properties                                                               *)

\* Queues neither lose nor repeat a message: what was queued for a
\* subscription is finished with or still reachable from its head, once, over
\* any mix of publishers, receives and acknowledgements, and queueLen counts
\* it, so that a bounded queue that drops stays within its size.
QueueExact ==
  \A s \in PsSubs : LET b == psSub[s] IN
    /\ b.len = Len(b.queue) /\ IsInjective(b.queue)
    /\ b.put = b.done \cup Range(b.queue) /\ b.done \cap Range(b.queue) = {}
    /\ b.kind.drop /\ b.kind.size > 0 => b.len <= b.kind.size

\* The hub counts its subscriptions and patterns rightly and keeps no pattern
\* without a subscription, and no list names a subscription that was freed.
HubExact ==
  /\ patternCount = Cardinality(Bound)
  /\ subscriptionCount = Cardinality({s \in PsSubs : psSub[s].state = "on"})
  /\ \A p \in Bound : psTopics[p] # << >> /\ IsInjective(psTopics[p])
  /\ \A p \in PsPatterns : \A s \in PsSubs :
       psSub[s].state = "on" /\ psSub[s].pattern = p <=> p \in Bound /\ s \in Range(psTopics[p])
  /\ \A t \in PsThreads : \A i \in DOMAIN psCall[t].todo :
       psCall[t].op = "match" => psSub[psCall[t].todo[i]].state = "on"

\* What the hub promises under any interleaving of loopyPublish, loopySubscribe,
\* loopyUnsubscribe, receives and acknowledgements.
PubSubExact == QueueExact /\ HubExact
=============================================================================
