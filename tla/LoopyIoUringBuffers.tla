------------------------- MODULE LoopyIoUringBuffers -------------------------
(***************************************************************************)
(* loopyAdapterIouring.c: pools of buffers that the kernel chooses from.   *)
(* Creating and freeing a pool are operations on the rings, and the calls  *)
(* that do so poll until these are answered; the completions of receives   *)
(* that they meet are delivered then.  A buffer is named by its pool and   *)
(* number, and its memory is the pool's.  The kernel's lists of buffers    *)
(* are external: first in, first out.  io_uring_enter may fail, but not    *)
(* in each of the hundreds of polls of a call that waits.  A completion    *)
(* callback submits receives; it does not create or free pools.            *)
(***************************************************************************)
EXTENDS Integers, Sequences, SequencesExt, FiniteSets

CONSTANTS
  IbGroups,       (* group numbers below maxBufferGroups                     *)
  IbBuffers,      (* bufferCount of every pool                               *)
  IbQueueSize,    (* entries of the submission queue                         *)
  IbEntered,      (* whether io_uring_enter may succeed and fail             *)
  IbMaxPools,     (* bound: pools                                            *)
  IbMaxReceives   (* bound: receives                                         *)

ASSUME IbAssumption == IbBuffers \in Nat \ {0} /\ IbEntered \subseteq BOOLEAN

IbPools == 1 .. IbMaxPools
NoPool == 0
NoBuffer == <<NoPool, 0>>
BuffersOf(p) == [i \in 1 .. IbBuffers |-> <<p, i>>]

VARIABLES
  ibGroups,       (* bufferPoolGroups: the pool of each group                *)
  ibMemory,       (* pools whose memory is allocated                         *)
  ibMade,         (* pools so far                                            *)
  ibReceives,     (* receives so far                                         *)
  ibActive,       (* receives that have an active slot                       *)
  ibWait,         (* the call that polls, and for which pool and group       *)
  ibAnswered,     (* ctx of that call: its operation was answered            *)
  ibInCallback,   (* a receive's callback is running                         *)
  ibSq, ibCq,     (* the queues                                              *)
  ibFree,         (* kernel: the buffers of each group to choose from        *)
  ibArmed,        (* kernel: receives without data                           *)
  ibTold,         (* history: the last callback's buffer, and the one that   *)
                  (* the kernel wrote to                                     *)
  ibTainted       (* history: groups for which a submission failed           *)

ibVars == <<ibGroups, ibMemory, ibMade, ibReceives, ibActive, ibWait, ibAnswered,
            ibInCallback, ibSq, ibCq, ibFree, ibArmed, ibTold, ibTainted>>
ibKernel == <<ibSq, ibCq, ibFree, ibArmed>>
FirstGroup == CHOOSE g \in IbGroups : TRUE
NoWait == [call |-> "none", pool |-> NoPool, group |-> FirstGroup]
NotTold == [group |-> FirstGroup, handed |-> NoBuffer, written |-> NoBuffer]

IbInit ==
  /\ ibGroups = [g \in IbGroups |-> NoPool]
  /\ ibMemory = {} /\ ibMade = 0 /\ ibReceives = 0 /\ ibActive = {}
  /\ ibWait = NoWait /\ ibAnswered = FALSE /\ ibInCallback = FALSE
  /\ ibSq = << >> /\ ibCq = << >> /\ ibFree = [g \in IbGroups |-> << >>] /\ ibArmed = {}
  /\ ibTold = NotTold /\ ibTainted = {}

IbEntry(op, id, g) == [op |-> op, id |-> id, group |-> g]
IbRoom == Len(ibSq) < IbQueueSize

\* What the kernel makes of one entry; k holds its lists, the receives that
\* it waits for and the completion queue.
Execute(e, k) ==
  CASE e.op = "provide" -> [k EXCEPT !.free[e.group] = @ \o BuffersOf(e.id),
                                     !.cq = Append(@, [entry |-> e, buffer |-> NoBuffer])]
    [] e.op = "remove"  -> [k EXCEPT !.free[e.group] = SubSeq(@, IbBuffers + 1, Len(@)),
                                     !.cq = Append(@, [entry |-> e, buffer |-> NoBuffer])]
    [] e.op = "refused" -> [k EXCEPT !.cq = Append(@, [entry |-> e, buffer |-> NoBuffer])]
    [] e.op = "receive" -> [k EXCEPT !.armed = @ \cup {e}]

\* io_uring_enter: the kernel takes the first entry of a queue.
IbEnter(sq) ==
  LET k == Execute(Head(sq), [free |-> ibFree, armed |-> ibArmed, cq |-> ibCq])
  IN /\ ibSq' = Tail(sq)
     /\ ibFree' = k.free /\ ibArmed' = k.armed /\ ibCq' = k.cq

\* An entry is queued and one entry entered.  If that fails it stays queued.
IbSubmit(e, entered) ==
  IF entered THEN IbEnter(Append(ibSq, e))
  ELSE ibSq' = Append(ibSq, e) /\ UNCHANGED <<ibCq, ibFree, ibArmed>>

\* loopyIoUringBufferPoolNew, until it waits for the kernel's answer, which
\* may be an error.  If the submission fails the memory is freed at once.
BufferPoolNew(g, op, entered) ==
  /\ ibWait = NoWait /\ ~ibInCallback
  /\ ibMade < IbMaxPools /\ ibGroups[g] = NoPool /\ IbRoom
  /\ ibMade' = ibMade + 1
  /\ IbSubmit(IbEntry(op, ibMade', g), entered)
  /\ IF entered
     THEN /\ ibMemory' = ibMemory \cup {ibMade'}
          /\ ibWait' = [call |-> IF op = "refused" THEN "new refused" ELSE "new", pool |-> ibMade', group |-> g]
          /\ UNCHANGED ibTainted
     ELSE ibTainted' = ibTainted \cup {g} /\ UNCHANGED <<ibMemory, ibWait>>
  /\ ibAnswered' = FALSE
  /\ UNCHANGED <<ibGroups, ibReceives, ibActive, ibInCallback, ibTold>>

\* The answer was found: the group has the pool, or the memory is freed.
BufferPoolNewReturns ==
  /\ ibAnswered /\ ~ibInCallback
  /\ \/ /\ ibWait.call = "new"
        /\ ibGroups' = [ibGroups EXCEPT ![ibWait.group] = ibWait.pool]
        /\ UNCHANGED ibMemory
     \/ /\ ibWait.call = "new refused"
        /\ ibMemory' = ibMemory \ {ibWait.pool}
        /\ UNCHANGED ibGroups
  /\ ibWait' = NoWait
  /\ UNCHANGED <<ibMade, ibReceives, ibActive, ibAnswered, ibInCallback, ibKernel, ibTold, ibTainted>>

\* loopyIoUringBufferPoolFree, until it waits.  What a failed submission
\* returns is not looked at: the wait goes on for as long as it may.
BufferPoolFree(g, entered) ==
  /\ ibWait = NoWait /\ ~ibInCallback /\ ibGroups[g] # NoPool
  /\ IF IbRoom THEN IbSubmit(IbEntry("remove", ibGroups[g], g), entered)
     ELSE ~entered /\ UNCHANGED ibKernel
  /\ ibWait' = [call |-> IF entered THEN "free" ELSE "free failed", pool |-> ibGroups[g], group |-> g]
  /\ ibTainted' = IF entered THEN ibTainted ELSE ibTainted \cup {g}
  /\ ibAnswered' = FALSE
  /\ UNCHANGED <<ibGroups, ibMemory, ibMade, ibReceives, ibActive, ibInCallback, ibTold>>

\* Mutant: the memory is freed without waiting for the answer.
BufferPoolFreeReturnsEarly ==
  /\ ibWait.call \in {"free", "free failed"} /\ ~ibInCallback
  /\ ibGroups' = [ibGroups EXCEPT ![ibWait.group] = NoPool]
  /\ ibMemory' = ibMemory \ {ibWait.pool}
  /\ ibWait' = NoWait
  /\ UNCHANGED <<ibMade, ibReceives, ibActive, ibAnswered, ibInCallback, ibKernel, ibTold, ibTainted>>

\* The answer was found, or all polls were made, of which one entered what
\* was queued: the group and the memory go.
BufferPoolFreeReturns ==
  /\ ~ibInCallback
  /\ \/ ibWait.call = "free" /\ ibAnswered
     \/ ibWait.call = "free failed" /\ ibSq = << >> /\ ibCq = << >>
  /\ ibGroups' = [ibGroups EXCEPT ![ibWait.group] = NoPool]
  /\ ibMemory' = ibMemory \ {ibWait.pool}
  /\ ibWait' = NoWait
  /\ UNCHANGED <<ibMade, ibReceives, ibActive, ibAnswered, ibInCallback, ibKernel, ibTold, ibTainted>>

\* loopyIoUringRecvPooled, and in the same way loopyIoUringReadPooled: the
\* group must have a pool.
RecvPooled(g, entered) ==
  /\ ibWait = NoWait \/ ibInCallback
  /\ ibReceives < IbMaxReceives /\ IbRoom /\ ibGroups[g] # NoPool
  /\ ibReceives' = ibReceives + 1
  /\ IbSubmit(IbEntry("receive", ibReceives', g), entered)
  /\ ibActive' = IF entered THEN ibActive \cup {ibReceives'} ELSE ibActive
  /\ UNCHANGED <<ibGroups, ibMemory, ibMade, ibWait, ibAnswered, ibInCallback, ibTold, ibTainted>>

\* External: data arrive for a receive, and are written to the first buffer
\* of its group, or the receive fails for want of one.
KernelReceives(e) ==
  /\ e \in ibArmed
  /\ ibArmed' = ibArmed \ {e}
  /\ LET list == ibFree[e.group] IN
     /\ ibCq' = Append(ibCq, [entry |-> e, buffer |-> IF list = << >> THEN NoBuffer ELSE Head(list)])
     /\ ibFree' = IF list = << >> THEN ibFree ELSE [ibFree EXCEPT ![e.group] = Tail(@)]
  /\ UNCHANGED <<ibGroups, ibMemory, ibMade, ibReceives, ibActive, ibWait, ibAnswered, ibInCallback, ibSq, ibTold, ibTainted>>

\* loopyInternalPoll, in the loop or in a call that waits, enters the queue,
\* of which the kernel takes one entry or, over several of these steps, more
\* (how many it took is not looked at),
IbPollSubmits ==
  /\ ~ibInCallback /\ ibSq # << >>
  /\ IbEnter(ibSq)
  /\ UNCHANGED <<ibGroups, ibMemory, ibMade, ibReceives, ibActive, ibWait, ibAnswered, ibInCallback, ibTold, ibTainted>>

\* The address that a callback is given: in the memory of the pool that the
\* group has now, at the number that the kernel chose.
Address(g, buffer) ==
  IF buffer = NoBuffer \/ ibGroups[g] = NoPool THEN NoBuffer ELSE <<ibGroups[g], buffer[2]>>

\* and takes a completion: of a receive that has a slot, which is called
\* back, or of the operation that is waited for (bufferPoolOpCallback).
IbPollCompletion ==
  /\ ~ibInCallback /\ ibCq # << >>
  /\ LET c == Head(ibCq)  e == c.entry IN
     IF e.op = "receive"
     THEN /\ ibInCallback' = (e.id \in ibActive)
          /\ ibActive' = ibActive \ {e.id}
          /\ ibTold' = IF e.id \in ibActive
                       THEN [group |-> e.group, handed |-> Address(e.group, c.buffer), written |-> c.buffer]
                       ELSE ibTold
          /\ UNCHANGED ibAnswered
     ELSE /\ ibAnswered' = (ibAnswered \/ (ibWait.call # "free failed" /\ ibWait.pool = e.id))
          /\ UNCHANGED <<ibInCallback, ibActive, ibTold>>
  /\ ibCq' = Tail(ibCq)
  /\ UNCHANGED <<ibGroups, ibMemory, ibMade, ibReceives, ibWait, ibSq, ibFree, ibArmed, ibTainted>>

\* A receive's callback returns.  Nothing is given back to the kernel.
IbCallbackReturns ==
  /\ ibInCallback
  /\ ibInCallback' = FALSE
  /\ ibTold' = NotTold
  /\ UNCHANGED <<ibGroups, ibMemory, ibMade, ibReceives, ibActive, ibWait, ibAnswered, ibKernel, ibTainted>>

IbNext ==
  \/ \E g \in IbGroups, ok \in IbEntered :
       \/ \E op \in {"provide", "refused"} : BufferPoolNew(g, op, ok)
       \/ BufferPoolFree(g, ok) \/ RecvPooled(g, ok)
  \/ \E e \in ibArmed : KernelReceives(e)
  \/ BufferPoolNewReturns \/ BufferPoolFreeReturns
  \/ IbPollSubmits \/ IbPollCompletion \/ IbCallbackReturns

IbSpec == IbInit /\ [][IbNext]_ibVars

-----------------------------------------------------------------------------
(* Properties                                                               *)

\* Whatever order receives, their completions and the life of pools take, a
\* callback is given the memory that the kernel wrote to, or no address (its
\* pool is new and loopyIoUringBufferPoolNew has not returned), and the kernel
\* holds no buffer whose memory was freed; except in a group for which a
\* submission failed: the entry stays queued and the kernel executes it later.
PooledExact ==
  /\ \A g \in IbGroups : ibGroups[g] # NoPool => ibGroups[g] \in ibMemory
  /\ ibTold.handed # NoBuffer =>
       /\ ibTold.handed[1] \in ibMemory
       /\ ibTold.group \notin ibTainted => ibTold.handed = ibTold.written
  /\ ibTold.handed = NoBuffer /\ ibTold.written # NoBuffer /\ ibTold.group \notin ibTainted =>
       ibWait.call = "new" /\ ibTold.written[1] = ibWait.pool
  /\ \A g \in IbGroups \ ibTainted : \A i \in DOMAIN ibFree[g] : ibFree[g][i][1] \in ibMemory

\* loopyIoUringBufferPool.h: "Buffer automatically returned to pool after
\* callback returns", so while nothing is under way a pool has its buffers.
\* It does not hold: the kernel takes a buffer off its list for a receive and
\* no code provides it again, so a pool serves bufferCount receives.
BuffersReturned ==
  (ibWait = NoWait /\ ~ibInCallback /\ ibSq = << >> /\ ibCq = << >> /\ ibArmed = {}) =>
    \A g \in IbGroups : ibGroups[g] # NoPool => ToSet(BuffersOf(ibGroups[g])) \subseteq ToSet(ibFree[g])
=============================================================================
