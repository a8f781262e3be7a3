-------------------------- MODULE LoopyChannelMPMC --------------------------
(***************************************************************************)
(* loopyChannel.c, LOOPY_CHANNEL_MPSC and LOOPY_CHANNEL_MPMC: a ring       *)
(* protected by a mutex, with one condition variable for receivers and one *)
(* for senders.                                                            *)
(*                                                                         *)
(* Each critical section is one step: inside it `closed`, the only thing   *)
(* another thread writes without the mutex, is read once.  A thread at     *)
(* "lock" wants the mutex, one at "wait" sleeps on its condition variable, *)
(* and a signal moves one sleeper (a broadcast all of them) to "lock".     *)
(* An element is a sender and a number.                                    *)
(***************************************************************************)
EXTENDS Integers, Sequences, FiniteSets

CONSTANTS
  Senders, Receivers,   (* threads                                          *)
  Capacity,             (* config.capacity                                  *)
  Blocking,             (* config.blocking                                  *)
  TimedWaits,           (* config.sendTimeoutUs, recvTimeoutUs > 0          *)
  MaxSends              (* bound on the elements of one sender              *)

ASSUME MpmcSizes == Capacity \in Nat \ {0} /\ MaxSends \in Nat
ASSUME MpmcThreads == IsFiniteSet(Senders) /\ IsFiniteSet(Receivers)
ASSUME MpmcFlags == Blocking \in BOOLEAN /\ TimedWaits \in BOOLEAN

VARIABLES
  head, tail, count, buffer,   (* struct loopyChannelMPMC                   *)
  closed,                      (* ch->closed                                *)
  cpc,                         (* the thread in loopyChannelClose           *)
  spc, rpc,                    (* where each sender and receiver is         *)
  sent,                        (* sends accepted, per sender                *)
  received,                    (* history: elements returned by receives    *)
  told                         (* history: a receive has returned CLOSED    *)

ringVars == <<head, tail, count, buffer>>
mpmcVars == <<ringVars, closed, cpc, spc, rpc, sent, received, told>>

Elements == Senders \X (1 .. MaxSends)
NoElement == <<>>

MpmcTypeOK ==
  /\ head \in 0 .. Capacity - 1 /\ tail \in 0 .. Capacity - 1
  /\ count \in 0 .. Capacity
  /\ buffer \in [0 .. Capacity - 1 -> Elements \cup {NoElement}]
  /\ closed \in BOOLEAN /\ told \in BOOLEAN
  /\ cpc \in {"idle", "lock", "done"}
  /\ spc \in [Senders -> {"idle", "lock", "wait"}]
  /\ rpc \in [Receivers -> {"idle", "lock", "wait"}]
  /\ sent \in [Senders -> 0 .. MaxSends]
  /\ received \in Seq(Elements)

\* mpmcInit
MpmcInit ==
  /\ head = 0 /\ tail = 0 /\ count = 0
  /\ buffer = [i \in 0 .. Capacity - 1 |-> NoElement]
  /\ closed = FALSE /\ told = FALSE
  /\ cpc = "idle"
  /\ spc = [s \in Senders |-> "idle"]
  /\ rpc = [r \in Receivers |-> "idle"]
  /\ sent = [s \in Senders |-> 0]
  /\ received = << >>

\* The states of the threads after pthread_cond_signal on the variable that
\* those of pc wait for.
Signalled(pc) ==
  LET waiting == {t \in DOMAIN pc : pc[t] = "wait"}
  IN IF waiting = {} THEN {pc} ELSE {[pc EXCEPT ![t] = "lock"] : t \in waiting}

\* The same after pthread_cond_broadcast.
Broadcast(pc) == [t \in DOMAIN pc |-> IF pc[t] = "wait" THEN "lock" ELSE pc[t]]

-----------------------------------------------------------------------------
(* Senders                                                                  *)

\* loopyChannelSend, loopyChannelTrySend: a closed channel refuses.
SendCall(s) ==
  /\ spc[s] = "idle"
  /\ sent[s] < MaxSends
  /\ ~closed
  /\ spc' = [spc EXCEPT ![s] = "lock"]
  /\ UNCHANGED <<ringVars, closed, cpc, rpc, sent, received, told>>

\* mpmcSend with the ring full: closed and non-blocking calls return, the
\* others wait for notFull.
SendFull(s) ==
  /\ spc[s] = "lock"
  /\ count >= Capacity
  /\ spc' \in {[spc EXCEPT ![s] = pc] : pc \in IF closed \/ ~Blocking THEN {"idle"} ELSE {"idle", "wait"}}
  /\ UNCHANGED <<ringVars, closed, cpc, rpc, sent, received, told>>

\* Closed while it waited for the mutex.
SendClosed(s) ==
  /\ spc[s] = "lock"
  /\ count < Capacity
  /\ closed
  /\ spc' = [spc EXCEPT ![s] = "idle"]
  /\ UNCHANGED <<ringVars, closed, cpc, rpc, sent, received, told>>

\* Mutant: the second look at `closed` is left out.
PutUnchecked(s) ==
  /\ spc[s] = "lock"
  /\ count < Capacity
  /\ buffer' = [buffer EXCEPT ![head] = <<s, sent[s] + 1>>]
  /\ head' = (head + 1) % Capacity
  /\ count' = count + 1
  /\ rpc' \in Signalled(rpc)
  /\ spc' = [spc EXCEPT ![s] = "idle"]
  /\ sent' = [sent EXCEPT ![s] = @ + 1]
  /\ UNCHANGED <<tail, closed, cpc, received, told>>

\* Mutant: receivers are woken only when the ring was empty.
PutSignalIfEmpty(s) ==
  /\ spc[s] = "lock"
  /\ count < Capacity
  /\ ~closed
  /\ buffer' = [buffer EXCEPT ![head] = <<s, sent[s] + 1>>]
  /\ head' = (head + 1) % Capacity
  /\ count' = count + 1
  /\ rpc' \in (IF count = 0 THEN Signalled(rpc) ELSE {rpc})
  /\ spc' = [spc EXCEPT ![s] = "idle"]
  /\ sent' = [sent EXCEPT ![s] = @ + 1]
  /\ UNCHANGED <<tail, closed, cpc, received, told>>

\* There is room: the element is copied in and a receiver woken.
Put(s) ==
  /\ spc[s] = "lock"
  /\ count < Capacity
  /\ ~closed
  /\ buffer' = [buffer EXCEPT ![head] = <<s, sent[s] + 1>>]
  /\ head' = (head + 1) % Capacity
  /\ count' = count + 1
  /\ rpc' \in Signalled(rpc)
  /\ spc' = [spc EXCEPT ![s] = "idle"]
  /\ sent' = [sent EXCEPT ![s] = @ + 1]
  /\ UNCHANGED <<tail, closed, cpc, received, told>>

\* pthread_cond_timedwait returns ETIMEDOUT and the call LOOPY_CHANNEL_TIMEOUT.
SendTimeout(s) ==
  /\ TimedWaits
  /\ spc[s] = "wait"
  /\ spc' = [spc EXCEPT ![s] = "idle"]
  /\ UNCHANGED <<ringVars, closed, cpc, rpc, sent, received, told>>

\* A wakeup nobody sent.
SendSpurious(s) ==
  /\ spc[s] = "wait"
  /\ spc' = [spc EXCEPT ![s] = "lock"]
  /\ UNCHANGED <<ringVars, closed, cpc, rpc, sent, received, told>>

-----------------------------------------------------------------------------
(* Receivers                                                                *)

\* loopyChannelRecv, loopyChannelTryRecv
RecvCall(r) ==
  /\ rpc[r] = "idle"
  /\ rpc' = [rpc EXCEPT ![r] = "lock"]
  /\ UNCHANGED <<ringVars, closed, cpc, spc, sent, received, told>>

\* mpmcRecv with the ring empty
RecvEmpty(r) ==
  /\ rpc[r] = "lock"
  /\ count = 0
  /\ told' = (told \/ closed)
  /\ rpc' \in {[rpc EXCEPT ![r] = pc] : pc \in IF closed \/ ~Blocking THEN {"idle"} ELSE {"idle", "wait"}}
  /\ UNCHANGED <<ringVars, closed, cpc, spc, sent, received>>

\* Mutant: the read position is taken from the write position.
TakeNewest(r) ==
  /\ rpc[r] = "lock"
  /\ count > 0
  /\ received' = Append(received, buffer[(head + Capacity - 1) % Capacity])
  /\ tail' = (tail + 1) % Capacity
  /\ count' = count - 1
  /\ spc' \in Signalled(spc)
  /\ rpc' = [rpc EXCEPT ![r] = "idle"]
  /\ UNCHANGED <<head, buffer, closed, cpc, sent, told>>

\* An element is copied out and a sender woken.
Take(r) ==
  /\ rpc[r] = "lock"
  /\ count > 0
  /\ received' = Append(received, buffer[tail])
  /\ tail' = (tail + 1) % Capacity
  /\ count' = count - 1
  /\ spc' \in Signalled(spc)
  /\ rpc' = [rpc EXCEPT ![r] = "idle"]
  /\ UNCHANGED <<head, buffer, closed, cpc, sent, told>>

RecvTimeout(r) ==
  /\ TimedWaits
  /\ rpc[r] = "wait"
  /\ rpc' = [rpc EXCEPT ![r] = "idle"]
  /\ UNCHANGED <<ringVars, closed, cpc, spc, sent, received, told>>

RecvSpurious(r) ==
  /\ rpc[r] = "wait"
  /\ rpc' = [rpc EXCEPT ![r] = "lock"]
  /\ UNCHANGED <<ringVars, closed, cpc, spc, sent, received, told>>

-----------------------------------------------------------------------------
(* loopyChannelClose: the flag is stored without the mutex, the sleepers are *)
(* woken under it.                                                          *)

CloseStore ==
  /\ cpc = "idle"
  /\ closed' = TRUE
  /\ cpc' = "lock"
  /\ UNCHANGED <<ringVars, spc, rpc, sent, received, told>>

\* Mutant: only one sleeper of each kind is woken.
CloseSignal ==
  /\ cpc = "lock"
  /\ rpc' \in Signalled(rpc)
  /\ spc' \in Signalled(spc)
  /\ cpc' = "done"
  /\ UNCHANGED <<ringVars, closed, sent, received, told>>

CloseBroadcast ==
  /\ cpc = "lock"
  /\ rpc' = Broadcast(rpc)
  /\ spc' = Broadcast(spc)
  /\ cpc' = "done"
  /\ UNCHANGED <<ringVars, closed, sent, received, told>>

SenderSection(s) == SendFull(s) \/ SendClosed(s) \/ Put(s)
ReceiverSection(r) == RecvEmpty(r) \/ Take(r)

MpmcNext ==
  \/ \E s \in Senders : SendCall(s) \/ SenderSection(s) \/ SendTimeout(s) \/ SendSpurious(s)
  \/ \E r \in Receivers : RecvCall(r) \/ ReceiverSection(r) \/ RecvTimeout(r) \/ RecvSpurious(r)
  \/ CloseStore
  \/ CloseBroadcast

\* A thread that wants the mutex gets it in the end; sleepers and callers are
\* free to do nothing.
MpmcFairness ==
  /\ \A s \in Senders : WF_mpmcVars(SenderSection(s))
  /\ \A r \in Receivers : WF_mpmcVars(ReceiverSection(r))
  /\ WF_mpmcVars(CloseBroadcast)

MpmcSpec == MpmcInit /\ [][MpmcNext]_mpmcVars /\ MpmcFairness

-----------------------------------------------------------------------------
(* Properties                                                               *)

\* The ring is a bounded FIFO shared by all threads.
Contents == [i \in 1 .. count |-> buffer[(tail + i - 1) % Capacity]]
Fifo == INSTANCE ChannelFifo WITH buffered <- Contents
ImplementsFifo == Fifo!FifoSpec

\* A receiver sleeps only while every element has a receiver on its way to
\* it, and a sender only while every free place has a sender on its way: one
\* signal for each element and each place is enough, although a thread that
\* was not signalled may get the mutex first.  (A thread that was signalled
\* may leave because of a close; then the broadcast is still to come.)
At(pc, place) == {t \in DOMAIN pc : pc[t] = place}
NoLostSignal ==
  cpc # "lock" =>
  /\ At(rpc, "wait") # {} => count <= Cardinality(At(rpc, "lock"))
  /\ At(spc, "wait") # {} => Capacity - count <= Cardinality(At(spc, "lock"))

\* With that, the ring's indices and count stay in range.
WaitersServed == MpmcTypeOK /\ NoLostSignal

\* Once a receiver has been told that the channel is closed, nothing is left
\* in it, and nothing will come, although the flag is set without the mutex.
ClosedMeansDrained == told => count = 0

\* Closing the channel releases every blocked thread.
CloseUnblocks ==
  /\ \A s \in Senders : (closed /\ spc[s] # "idle") ~> (spc[s] = "idle")
  /\ \A r \in Receivers : (closed /\ rpc[r] # "idle") ~> (rpc[r] = "idle")
=============================================================================
