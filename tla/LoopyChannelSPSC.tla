-------------------------- MODULE LoopyChannelSPSC --------------------------
(***************************************************************************)
(* loopyChannel.c, LOOPY_CHANNEL_SPSC: the lock-free ring between one      *)
(* producer and one consumer thread, and the blocking and non-blocking     *)
(* calls built on it.  Any thread may close the channel or ask its length. *)
(*                                                                         *)
(* Every step reads or writes at most one location that the other thread   *)
(* writes: `head` and `tail` are C11 atomics with acquire loads and        *)
(* release stores, the copy in and out of a slot is a step of its own.     *)
(* The n-th element sent is the number n.                                  *)
(***************************************************************************)
EXTENDS Integers, Sequences

CONSTANTS
  Capacity,   (* config.capacity                                            *)
  Wrap,       (* number of values of a size_t, a multiple of the slots      *)
  Blocking,   (* config.blocking                                            *)
  MaxSends    (* bound on the elements sent                                 *)

\* nextPowerOf2
NextPowerOf2(n) ==
  CHOOSE p \in {2^k : k \in 0 .. n} : p >= n /\ \A q \in {2^k : k \in 0 .. n} : q >= n => p <= q

\* actualCapacity: one slot more than the capacity, to tell full from empty.
Slots == NextPowerOf2(Capacity + 1)

ASSUME CapacityAssumption == Capacity \in Nat \ {0} /\ MaxSends \in Nat
\* What nextPowerOf2 is for: TLC evaluates it, an induction on n would prove it.
ASSUME SlotsAssumption == Slots \in Nat /\ Slots > Capacity
ASSUME WrapAssumption == Wrap \in Nat \ {0} /\ Wrap % Slots = 0
ASSUME BlockingAssumption == Blocking \in BOOLEAN

VARIABLES
  head, cachedTail,   (* written by the producer only                       *)
  tail, cachedHead,   (* written by the consumer only                       *)
  buffer,             (* the slots                                          *)
  closed,             (* ch->closed                                         *)
  ppc, cpc,           (* where producer and consumer are                    *)
  buf,                (* the element the consumer has copied out            *)
  opc, ohead, olen,   (* a third thread in loopyChannelLen, and its result  *)
  sent,               (* history: elements published                        *)
  received,           (* history: elements returned by receives             *)
  closedAt, told      (* history: `sent` at the close; some receive has
                         returned LOOPY_CHANNEL_CLOSED                      *)

prodVars == <<head, cachedTail, buffer, ppc, sent>>
consVars == <<tail, cachedHead, cpc, buf, received, told>>
closeVars == <<closed, closedAt>>
lenVars  == <<opc, ohead, olen>>
spscVars == <<prodVars, consVars, closeVars, lenVars>>

Counter == 0 .. Wrap - 1
SpscTypeOK ==
  /\ head \in Counter /\ tail \in Counter
  /\ cachedHead \in Counter /\ cachedTail \in Counter
  /\ buffer \in [0 .. Slots - 1 -> 0 .. MaxSends]
  /\ closed \in BOOLEAN /\ told \in BOOLEAN
  /\ ppc \in {"idle", "try", "full", "copy", "publish"}
  /\ cpc \in {"idle", "try", "empty", "copy", "publish"}
  /\ buf \in 0 .. MaxSends
  /\ opc \in {"head", "tail"} /\ ohead \in Counter /\ olen \in Counter
  /\ sent \in 0 .. MaxSends /\ closedAt \in 0 .. MaxSends
  /\ received \in Seq(0 .. MaxSends)

\* loopyChannelNew, spscInit
SpscInit ==
  /\ head = 0 /\ tail = 0 /\ cachedHead = 0 /\ cachedTail = 0
  /\ buffer = [i \in 0 .. Slots - 1 |-> 0]
  /\ closed = FALSE /\ told = FALSE
  /\ ppc = "idle" /\ cpc = "idle"
  /\ buf = 0
  /\ opc = "head" /\ ohead = 0 /\ olen = 0
  /\ sent = 0 /\ closedAt = 0
  /\ received = << >>

Sub(a, b) == (a - b) % Wrap

-----------------------------------------------------------------------------
(* The producer                                                             *)

\* loopyChannelSend, loopyChannelTrySend: a closed channel refuses.
SendCall ==
  /\ ppc = "idle"
  /\ sent < MaxSends
  /\ ~closed
  /\ ppc' = "try"
  /\ UNCHANGED <<head, cachedTail, buffer, sent, consVars, closeVars, lenVars>>

\* Mutant: the count is compared with the number of slots.
TrySendAllSlots ==
  /\ ppc = "try"
  /\ IF Sub(head, cachedTail) % Slots < Slots
       THEN ppc' = "copy" /\ UNCHANGED cachedTail
       ELSE /\ cachedTail' = tail
            /\ ppc' = IF Sub(head, tail) % Slots < Capacity THEN "copy" ELSE "full"
  /\ UNCHANGED <<head, buffer, sent, consVars, closeVars, lenVars>>

\* spscTrySend, its test: the cached tail first, the consumer's tail if that
\* says full.
TrySend ==
  /\ ppc = "try"
  /\ IF Sub(head, cachedTail) % Slots < Capacity
       THEN ppc' = "copy" /\ UNCHANGED cachedTail
       ELSE /\ cachedTail' = tail
            /\ ppc' = IF Sub(head, tail) % Slots < Capacity THEN "copy" ELSE "full"
  /\ UNCHANGED <<head, buffer, sent, consVars, closeVars, lenVars>>

\* Mutant: a blocking send does not look at the flag.
SendFullIgnoreClose ==
  /\ ppc = "full"
  /\ ppc' = IF Blocking THEN "try" ELSE "idle"
  /\ UNCHANGED <<head, cachedTail, buffer, sent, consVars, closeVars, lenVars>>

\* Full: a non-blocking call returns, a blocking one returns when the channel
\* is closed or its timeout has passed, and tries again otherwise.
SendFull ==
  /\ ppc = "full"
  /\ ppc' \in (IF ~Blocking \/ closed THEN {"idle"} ELSE {"idle", "try"})
  /\ UNCHANGED <<head, cachedTail, buffer, sent, consVars, closeVars, lenVars>>

\* memcpy into the slot
CopyIn ==
  /\ ppc = "copy"
  /\ buffer' = [buffer EXCEPT ![head % Slots] = sent + 1]
  /\ ppc' = "publish"
  /\ UNCHANGED <<head, cachedTail, sent, consVars, closeVars, lenVars>>

\* atomic_store(&spsc->head, next, release)
PublishWrite ==
  /\ ppc = "publish"
  /\ head' = (head + 1) % Wrap
  /\ sent' = sent + 1
  /\ ppc' = "idle"
  /\ UNCHANGED <<cachedTail, buffer, consVars, closeVars, lenVars>>

-----------------------------------------------------------------------------
(* The consumer                                                             *)

\* loopyChannelRecv, loopyChannelTryRecv
RecvCall ==
  /\ cpc = "idle"
  /\ cpc' = "try"
  /\ UNCHANGED <<tail, cachedHead, buf, received, told, prodVars, closeVars, lenVars>>

\* spscTryRecv, its test
TryRecv ==
  /\ cpc = "try"
  /\ IF tail # cachedHead
       THEN cpc' = "copy" /\ UNCHANGED cachedHead
       ELSE /\ cachedHead' = head
            /\ cpc' = IF tail # head THEN "copy" ELSE "empty"
  /\ UNCHANGED <<tail, buf, received, told, prodVars, closeVars, lenVars>>

\* Mutant: a blocking receive waits for an element even on a closed channel.
RecvEmptyIgnoreClose ==
  /\ cpc = "empty"
  /\ cpc' = IF Blocking THEN "try" ELSE "idle"
  /\ UNCHANGED <<tail, cachedHead, buf, received, told, prodVars, closeVars, lenVars>>

\* Empty: loopyChannelTryRecv returns LOOPY_CHANNEL_EMPTY, closed or not; a
\* blocking loopyChannelRecv returns LOOPY_CHANNEL_CLOSED, and on an open
\* channel LOOPY_CHANNEL_TIMEOUT, or tries again.
RecvEmpty ==
  /\ cpc = "empty"
  /\ \/ cpc' = "idle" /\ UNCHANGED told
     \/ Blocking /\ closed /\ cpc' = "idle" /\ told' = TRUE
     \/ Blocking /\ ~closed /\ cpc' = "try" /\ UNCHANGED told
  /\ UNCHANGED <<tail, cachedHead, buf, received, prodVars, closeVars, lenVars>>

\* memcpy out of the slot
CopyOut ==
  /\ cpc = "copy"
  /\ buf' = buffer[tail % Slots]
  /\ cpc' = "publish"
  /\ UNCHANGED <<tail, cachedHead, received, told, prodVars, closeVars, lenVars>>

\* atomic_store(&spsc->tail, next, release); the call returns the element.
PublishRead ==
  /\ cpc = "publish"
  /\ tail' = (tail + 1) % Wrap
  /\ received' = Append(received, buf)
  /\ buf' = 0
  /\ cpc' = "idle"
  /\ UNCHANGED <<cachedHead, told, prodVars, closeVars, lenVars>>

-----------------------------------------------------------------------------
(* Any thread                                                               *)

\* loopyChannelClose
Close ==
  /\ ~closed
  /\ closed' = TRUE
  /\ closedAt' = sent
  /\ UNCHANGED <<prodVars, consVars, lenVars>>

\* spscLen: loads head, then tail.
LenHead ==
  /\ opc = "head"
  /\ ohead' = head
  /\ opc' = "tail"
  /\ UNCHANGED <<olen, prodVars, consVars, closeVars>>

LenTail ==
  /\ opc = "tail"
  /\ olen' = Sub(ohead, tail)
  /\ ohead' = 0
  /\ opc' = "head"
  /\ UNCHANGED <<prodVars, consVars, closeVars>>

ProducerStep == TrySend \/ SendFull \/ CopyIn \/ PublishWrite
ConsumerStep == TryRecv \/ RecvEmpty \/ CopyOut \/ PublishRead

SpscNext ==
  \/ SendCall \/ ProducerStep
  \/ RecvCall \/ ConsumerStep
  \/ Close \/ LenHead \/ LenTail

\* A thread inside a call keeps running.
SpscSpec ==
  SpscInit /\ [][SpscNext]_spscVars /\ WF_spscVars(ProducerStep) /\ WF_spscVars(ConsumerStep)

-----------------------------------------------------------------------------
(* Properties                                                               *)

\* The ring is a bounded FIFO, across the wrap of the counters: what lies
\* between tail and head is what was sent and not yet received.
Contents == [i \in 1 .. Sub(head, tail) |-> buffer[(tail + i - 1) % Slots]]
Fifo == INSTANCE ChannelFifo WITH Elements <- 1 .. MaxSends, buffered <- Contents
ImplementsFifo == Fifo!FifoSpec

\* The producer and the consumer never touch the same slot at the same time,
\* although each looks at an old copy of the other's counter.
SlotsDisjoint == ppc = "copy" /\ cpc = "copy" => head % Slots # tail % Slots

\* With that, the counters and the copies of them stay in range as they wrap.
RingConsistent == SpscTypeOK /\ SlotsDisjoint

\* Closing the channel releases a blocked sender and a blocked receiver.
CloseUnblocks ==
  /\ (closed /\ ppc # "idle") ~> (ppc = "idle")
  /\ (closed /\ cpc # "idle") ~> (cpc = "idle")

\* A receiver that is told the channel is closed has received everything that
\* was sent before the close.
ClosedAfterDrain == told => Len(received) >= closedAt

\* The length reported to a third thread is one the channel can have
\* (loopyChannel.h: "Safe from any thread (may be approximate)").  It does not
\* hold: head is read before tail, which may overtake it.
LenPlausible == olen <= Capacity
=============================================================================
