------------------------ MODULE LoopyChannelMPMCProofs ------------------------
(***************************************************************************)
(* Proofs about the mutex channel for every capacity, any finite sets of   *)
(* senders and receivers, blocking or not, timed waits or not.             *)
(*                                                                         *)
(* The inductive invariant adds three things to the properties: the write  *)
(* position is count places after the read position and the places between *)
(* hold elements (RingInv), `closed` and the closing thread agree and      *)
(* nobody sleeps once it is done (CloseInv), and a sender inside a call    *)
(* has an element to send (SenderInv).                                     *)
(***************************************************************************)
EXTENDS LoopyChannelMPMC, LoopyLemmas

\* The i-th occupied place, i from 0.
Place(i) == IF tail + i < Capacity THEN tail + i ELSE tail + i - Capacity

RingInv ==
  /\ head = tail + count \/ head = tail + count - Capacity
  /\ \A i \in 0 .. count - 1 : buffer[Place(i)] \in Elements

CloseInv ==
  /\ closed <=> cpc # "idle"
  /\ told => closed
  /\ cpc = "done" => At(spc, "wait") = {} /\ At(rpc, "wait") = {}

SenderInv == \A s \in Senders : spc[s] # "idle" => sent[s] < MaxSends

MpmcInv ==
  /\ MpmcTypeOK
  /\ RingInv
  /\ CloseInv
  /\ SenderInv
  /\ NoLostSignal
  /\ ClosedMeansDrained

-----------------------------------------------------------------------------
(* Operators of the model                                                   *)

ThreadStates == {"idle", "lock", "wait"}

\* The threads at a place are finitely many.
LEMMA AtFinite ==
  ASSUME NEW T, IsFiniteSet(T), NEW pc \in [T -> ThreadStates], NEW p
  PROVE  IsFiniteSet(At(pc, p)) /\ Cardinality(At(pc, p)) \in Nat
  <1>1. At(pc, p) \in SUBSET T
    BY DEF At
  <1>2. IsFiniteSet(At(pc, p))
    BY <1>1, FS_Subset
  <1> QED
    BY <1>2, FS_CardinalityType

\* A thread that moves leaves the set of its old place and joins that of the
\* new one.
LEMMA AtMove ==
  ASSUME NEW T, IsFiniteSet(T), NEW pc \in [T -> ThreadStates], NEW t \in T, 
         NEW q \in ThreadStates
  PROVE  LET new == [pc EXCEPT ![t] = q]
         IN  /\ new \in [T -> ThreadStates]
             /\ \A p : p # q => At(new, p) = At(pc, p) \ {t}
             /\ At(new, q) = At(pc, q) \cup {t}
  BY DEF At

\* A signal wakes one sleeper, if there is one.
LEMMA SignalCount ==
  ASSUME NEW T, IsFiniteSet(T), NEW pc \in [T -> ThreadStates], NEW new \in Signalled(pc)
  PROVE  /\ new \in [T -> ThreadStates]
         /\ \A t \in T : new[t] = pc[t] \/ (pc[t] = "wait" /\ new[t] = "lock")
         /\ At(new, "wait") \subseteq At(pc, "wait")
         /\ At(new, "wait") # {} =>
              Cardinality(At(new, "lock")) = Cardinality(At(pc, "lock")) + 1
  <1>1. CASE At(pc, "wait") = {}
    <2>1. new = pc
      BY <1>1 DEF Signalled, At
    <2> QED
      BY <1>1, <2>1
  <1>2. CASE At(pc, "wait") # {}
    <2>1. PICK t \in At(pc, "wait") : new = [pc EXCEPT ![t] = "lock"]
      BY <1>2 DEF Signalled, At
    <2>2. t \in T /\ pc[t] = "wait"
      BY <2>1 DEF At
    <2>3. /\ new \in [T -> ThreadStates]
          /\ At(new, "wait") = At(pc, "wait") \ {t}
          /\ At(new, "lock") = At(pc, "lock") \cup {t}
      BY <2>1, <2>2 DEF At, ThreadStates
    <2>4. t \notin At(pc, "lock")
      BY <2>2 DEF At
    <2>5. Cardinality(At(new, "lock")) = Cardinality(At(pc, "lock")) + 1
      BY <2>3, <2>4, AtFinite, FS_AddElement
    <2> QED
      BY <2>1, <2>2, <2>3, <2>5
  <1> QED
    BY <1>1, <1>2

\* A broadcast wakes them all.
LEMMA BroadcastWakes ==
  ASSUME NEW T, NEW pc \in [T -> ThreadStates]
  PROVE  /\ Broadcast(pc) \in [T -> ThreadStates]
         /\ \A t \in T : Broadcast(pc)[t] = "idle" <=> pc[t] = "idle"
         /\ At(Broadcast(pc), "wait") = {}
  BY DEF Broadcast, At, ThreadStates

\* The index one further round the ring.
LEMMA NextIndex ==
  ASSUME NEW i \in 0 .. Capacity - 1
  PROVE  (i + 1) % Capacity = IF i + 1 = Capacity THEN 0 ELSE i + 1
  <1> DEFINE x == i + 1
  <1>1. x \in 0 .. 2 * Capacity - 1
    BY MpmcSizes
  <1>2. x % Capacity = IF x < Capacity THEN x ELSE x - Capacity
    <2> HIDE DEF x
    <2> QED
      BY <1>1, MpmcSizes, ModOnce
  <1> QED
    BY <1>2, MpmcSizes

\* The places of the ring, as Contents reads them.
LEMMA PlaceMod ==
  ASSUME MpmcTypeOK, NEW i \in 0 .. Capacity - 1
  PROVE  /\ Place(i) \in 0 .. Capacity - 1
         /\ (tail + i) % Capacity = Place(i)
  <1> DEFINE x == tail + i
  <1>1. x \in 0 .. 2 * Capacity - 1
    BY MpmcSizes DEF MpmcTypeOK
  <1>2. x % Capacity = IF x < Capacity THEN x ELSE x - Capacity
    <2> HIDE DEF x
    <2> QED
      BY <1>1, MpmcSizes, ModOnce
  <1> QED
    BY <1>1, <1>2, MpmcSizes DEF Place, MpmcTypeOK

\* One of the two halves of NoLostSignal: the threads of pc sleep only while
\* the n elements (or places) they wait for are spoken for.
Served(pc, n) == At(pc, "wait") # {} => n <= Cardinality(At(pc, "lock"))

\* NoLostSignal is one statement about receivers and one about senders.
LEMMA NoLostSignalHalves ==
  /\ NoLostSignal <=> (cpc # "lock" => Served(rpc, count) /\ Served(spc, Capacity - count))
  /\ NoLostSignal' <=> (cpc' # "lock" => Served(rpc', count') /\ Served(spc', Capacity - count'))
  BY DEF NoLostSignal, Served

\* With nothing to wait for, every state of the threads will do.
LEMMA ServedNone ==
  ASSUME NEW T, IsFiniteSet(T), NEW pc \in [T -> ThreadStates], NEW n \in Int, n <= 0
  PROVE  Served(pc, n)
  BY AtFinite DEF Served

\* A thread that comes for the mutex, or stops sleeping, leaves the others served.
LEMMA ServedArrive ==
  ASSUME NEW T, IsFiniteSet(T), NEW pc \in [T -> ThreadStates], NEW n \in Int, Served(pc, n),
         NEW t \in T, pc[t] = "wait" \/ pc[t] = "idle",
         NEW new, new = [pc EXCEPT ![t] = "idle"] \/ new = [pc EXCEPT ![t] = "lock"]
  PROVE  Served(new, n)
  <1>1. At(new, "wait") = At(pc, "wait") \ {t}
    BY DEF At, ThreadStates
  <1>2. At(pc, "lock") \in SUBSET At(new, "lock")
    BY DEF At, ThreadStates
  <1>3. new \in [T -> ThreadStates]
    BY DEF ThreadStates
  <1>4. IsFiniteSet(At(new, "lock")) /\ Cardinality(At(new, "lock")) \in Nat
    BY <1>3, AtFinite
  <1>5. Cardinality(At(pc, "lock")) <= Cardinality(At(new, "lock"))
    BY <1>2, <1>4, FS_Subset
  <1>6. Cardinality(At(pc, "lock")) \in Nat
    BY AtFinite
  <1> QED
    BY <1>1, <1>4, <1>5, <1>6 DEF Served

\* A thread that leaves with what it came for leaves one less for the others.
LEMMA ServedLeave ==
  ASSUME NEW T, IsFiniteSet(T), NEW pc \in [T -> ThreadStates], NEW n \in Int, Served(pc, n),
         NEW t \in T, pc[t] = "lock"
  PROVE  Served([pc EXCEPT ![t] = "idle"], n - 1)
  <1> DEFINE new == [pc EXCEPT ![t] = "idle"]
  <1>1. At(new, "wait") = At(pc, "wait")
    BY DEF At, ThreadStates
  <1>2. At(new, "lock") = At(pc, "lock") \ {t} /\ t \in At(pc, "lock")
    BY DEF At, ThreadStates
  <1>3. IsFiniteSet(At(pc, "lock")) /\ Cardinality(At(pc, "lock")) \in Nat
    BY AtFinite
  <1>4. Cardinality(At(new, "lock")) = Cardinality(At(pc, "lock")) - 1
    BY <1>2, <1>3, FS_RemoveElement, ZenonT(30)
  <1> HIDE DEF new
  <1>5. Served(new, n - 1)
    BY <1>1, <1>3, <1>4 DEF Served
  <1> QED
    BY <1>5 DEF new

\* A signal serves one more.
LEMMA ServedSignal ==
  ASSUME NEW T, IsFiniteSet(T), NEW pc \in [T -> ThreadStates], NEW n \in Int, Served(pc, n),
         NEW new \in Signalled(pc)
  PROVE  Served(new, n + 1)
  <1>1. Cardinality(At(pc, "lock")) \in Nat
    BY AtFinite
  <1> QED
    BY <1>1, SignalCount DEF Served

-----------------------------------------------------------------------------
(* Every step keeps the invariant                                           *)

\* The types that the lemmas about sleeping threads ask for.
LEMMA ThreadTypes ==
  ASSUME MpmcTypeOK
  PROVE  /\ spc \in [Senders -> ThreadStates] /\ IsFiniteSet(Senders)
         /\ rpc \in [Receivers -> ThreadStates] /\ IsFiniteSet(Receivers)
         /\ count \in Nat /\ Capacity - count \in Nat
  BY MpmcThreads, MpmcSizes DEF MpmcTypeOK, ThreadStates

\* What Put does to the ring.
LEMMA PutRing ==
  ASSUME MpmcTypeOK, RingInv, SenderInv, NEW s \in Senders, Put(s)
  PROVE  /\ head = Place(count)
         /\ <<s, sent[s] + 1>> \in Elements
         /\ head' \in 0 .. Capacity - 1
         /\ count' \in 0 .. Capacity
         /\ buffer' \in [0 .. Capacity - 1 -> Elements \cup {NoElement}]
         /\ RingInv'
  <1> USE MpmcSizes
  <1>1. head = Place(count)
    BY DEF Put, RingInv, Place, MpmcTypeOK
  <1>2. <<s, sent[s] + 1>> \in Elements
    <2>1. sent[s] \in 0 .. MaxSends /\ sent[s] < MaxSends
      BY DEF Put, SenderInv, MpmcTypeOK
    <2>2. sent[s] + 1 \in 1 .. MaxSends
      BY <2>1
    <2> QED
      BY <2>2 DEF Elements
  <1>3. head' = IF head + 1 = Capacity THEN 0 ELSE head + 1
    BY NextIndex DEF Put, MpmcTypeOK
  <1>4. head' \in 0 .. Capacity - 1 /\ count' \in 0 .. Capacity
    BY <1>3 DEF Put, MpmcTypeOK
  <1>5. buffer' \in [0 .. Capacity - 1 -> Elements \cup {NoElement}]
    BY <1>2 DEF Put, MpmcTypeOK
  <1>6. head' = tail' + count' \/ head' = tail' + count' - Capacity
    BY <1>3 DEF Put, MpmcTypeOK, RingInv
  <1>7. ASSUME NEW i \in 0 .. count' - 1 PROVE buffer'[Place(i)'] \in Elements
    <2>1. Place(i)' = Place(i) /\ Place(i) \in 0 .. Capacity - 1
      BY <1>4 DEF Put, Place, MpmcTypeOK
    <2>2. CASE i = count
      BY <2>1, <2>2, <1>1, <1>2 DEF Put, MpmcTypeOK
    <2>3. CASE i # count
      <3>1. i \in 0 .. count - 1
        BY <2>3 DEF Put, MpmcTypeOK
      <3>2. Place(i) # head
        BY <3>1, <1>1 DEF Place, MpmcTypeOK, Put
      <3> QED
        BY <2>1, <3>1, <3>2 DEF Put, MpmcTypeOK, RingInv
    <2> QED
      BY <2>2, <2>3
  <1> QED
    BY <1>1, <1>2, <1>4, <1>5, <1>6, <1>7 DEF RingInv

\* What Take does to the ring.
LEMMA TakeRing ==
  ASSUME MpmcTypeOK, RingInv, NEW r \in Receivers, Take(r)
  PROVE  /\ tail = Place(0)
         /\ buffer[tail] \in Elements
         /\ tail' \in 0 .. Capacity - 1
         /\ count' \in 0 .. Capacity
         /\ \A i \in 0 .. count - 2 : Place(i)' = Place(i + 1)
         /\ RingInv'
  <1> USE MpmcSizes
  <1>1. tail = Place(0)
    BY DEF Place, MpmcTypeOK
  <1>2. buffer[tail] \in Elements
    BY <1>1 DEF Take, RingInv, MpmcTypeOK
  <1>3. tail' = IF tail + 1 = Capacity THEN 0 ELSE tail + 1
    BY NextIndex DEF Take, MpmcTypeOK
  <1>4. tail' \in 0 .. Capacity - 1 /\ count' \in 0 .. Capacity
    BY <1>3 DEF Take, MpmcTypeOK
  <1>5. \A i \in 0 .. count - 2 : Place(i)' = Place(i + 1)
    BY <1>3 DEF Place, MpmcTypeOK
  <1>6. head' = tail' + count' \/ head' = tail' + count' - Capacity
    BY <1>3 DEF Take, MpmcTypeOK, RingInv
  <1>7. ASSUME NEW i \in 0 .. count' - 1 PROVE buffer'[Place(i)'] \in Elements
    <2>1. i \in 0 .. count - 2 /\ i + 1 \in 0 .. count - 1
      BY DEF Take, MpmcTypeOK
    <2> QED
      BY <2>1, <1>5 DEF Take, RingInv
  <1> QED
    BY <1>1, <1>2, <1>4, <1>5, <1>6, <1>7 DEF RingInv


\* Types: the indices and the count stay in range, and what a receive hands
\* out is something a send accepted.
LEMMA MpmcTypeStep ==
  ASSUME MpmcTypeOK, RingInv, SenderInv, [MpmcNext]_mpmcVars
  PROVE  MpmcTypeOK'
  <1>a. /\ spc \in [Senders -> ThreadStates] /\ IsFiniteSet(Senders)
        /\ rpc \in [Receivers -> ThreadStates] /\ IsFiniteSet(Receivers)
    BY ThreadTypes
  <1>1. ASSUME NEW s \in Senders,
               SendCall(s) \/ SendFull(s) \/ SendClosed(s) \/ SendTimeout(s) \/ SendSpurious(s)
        PROVE  MpmcTypeOK'
    BY <1>1 DEF MpmcTypeOK, SendCall, SendFull, SendClosed, SendTimeout, SendSpurious, ringVars
  <1>2. ASSUME NEW s \in Senders, Put(s) PROVE MpmcTypeOK'
    <2>1. rpc' \in [Receivers -> ThreadStates]
      BY <1>2, <1>a, SignalCount DEF Put
    <2>2. sent' \in [Senders -> 0 .. MaxSends]
      <3>1. sent[s] \in 0 .. MaxSends /\ sent[s] < MaxSends
        BY <1>2 DEF Put, MpmcTypeOK, SenderInv
      <3>2. sent[s] + 1 \in 0 .. MaxSends
        BY <3>1, MpmcSizes
      <3> QED
        BY <1>2, <3>2 DEF Put, MpmcTypeOK
    <2> QED
      BY <1>2, <2>1, <2>2, PutRing DEF MpmcTypeOK, Put, ThreadStates
  <1>3. ASSUME NEW r \in Receivers,
               RecvCall(r) \/ RecvEmpty(r) \/ RecvTimeout(r) \/ RecvSpurious(r)
        PROVE  MpmcTypeOK'
    BY <1>3 DEF MpmcTypeOK, RecvCall, RecvEmpty, RecvTimeout, RecvSpurious, ringVars
  <1>4. ASSUME NEW r \in Receivers, Take(r) PROVE MpmcTypeOK'
    <2>1. spc' \in [Senders -> ThreadStates]
      BY <1>4, <1>a, SignalCount DEF Take
    <2>2. received' \in Seq(Elements)
      <3>1. buffer[tail] \in Elements
        BY <1>4, TakeRing
      <3>2. Append(received, buffer[tail]) \in Seq(Elements)
        BY <3>1, AppendProperties DEF MpmcTypeOK
      <3> QED
        BY <1>4, <3>2 DEF Take
    <2> QED
      BY <1>4, <2>1, <2>2, TakeRing DEF MpmcTypeOK, Take, ThreadStates
  <1>5. CASE CloseStore
    BY <1>5 DEF MpmcTypeOK, CloseStore, ringVars
  <1>6. CASE CloseBroadcast
    BY <1>6, <1>a, BroadcastWakes DEF MpmcTypeOK, CloseBroadcast, ringVars, ThreadStates
  <1>7. CASE UNCHANGED mpmcVars
    BY <1>7 DEF MpmcTypeOK, mpmcVars, ringVars
  <1> QED
    BY <1>1, <1>2, <1>3, <1>4, <1>5, <1>6, <1>7 DEF MpmcNext, SenderSection, ReceiverSection

\* The places between tail and head hold elements.
LEMMA RingStep ==
  ASSUME MpmcTypeOK, RingInv, SenderInv, [MpmcNext]_mpmcVars
  PROVE  RingInv'
  <1>1. CASE UNCHANGED ringVars
    BY <1>1 DEF RingInv, ringVars, Place
  <1>2. ASSUME NEW s \in Senders, Put(s) PROVE RingInv'
    BY <1>2, PutRing
  <1>3. ASSUME NEW r \in Receivers, Take(r) PROVE RingInv'
    BY <1>3, TakeRing
  <1> QED
    BY <1>1, <1>2, <1>3
       DEF MpmcNext, SenderSection, ReceiverSection, SendCall, SendFull, SendClosed, SendTimeout,
           SendSpurious, RecvCall, RecvEmpty, RecvTimeout, RecvSpurious, CloseStore,
           CloseBroadcast, mpmcVars

\* A sender inside a call has an element left to send.
LEMMA SenderStep ==
  ASSUME MpmcTypeOK, SenderInv, [MpmcNext]_mpmcVars
  PROVE  SenderInv'
  <1>a. /\ spc \in [Senders -> ThreadStates] /\ IsFiniteSet(Senders)
    BY ThreadTypes
  <1>1. ASSUME NEW s \in Senders,
               SendCall(s) \/ SendFull(s) \/ SendClosed(s) \/ SendTimeout(s) \/ SendSpurious(s)
        PROVE  SenderInv'
    BY <1>1 DEF SenderInv, MpmcTypeOK, SendCall, SendFull, SendClosed, SendTimeout, SendSpurious
  <1>2. ASSUME NEW s \in Senders, Put(s) PROVE SenderInv'
    BY <1>2 DEF SenderInv, MpmcTypeOK, Put
  <1>3. ASSUME NEW r \in Receivers,
               RecvCall(r) \/ RecvEmpty(r) \/ RecvTimeout(r) \/ RecvSpurious(r)
        PROVE  SenderInv'
    BY <1>3 DEF SenderInv, RecvCall, RecvEmpty, RecvTimeout, RecvSpurious
  <1>4. ASSUME NEW r \in Receivers, Take(r) PROVE SenderInv'
    <2>1. \A s \in Senders : spc'[s] = spc[s] \/ (spc[s] = "wait" /\ spc'[s] = "lock")
      BY <1>4, <1>a, SignalCount DEF Take
    <2> QED
      BY <1>4, <2>1 DEF SenderInv, Take
  <1>5. CASE CloseStore
    BY <1>5 DEF SenderInv, CloseStore
  <1>6. CASE CloseBroadcast
    BY <1>6, <1>a, BroadcastWakes DEF SenderInv, CloseBroadcast
  <1>7. CASE UNCHANGED mpmcVars
    BY <1>7 DEF SenderInv, mpmcVars
  <1> QED
    BY <1>1, <1>2, <1>3, <1>4, <1>5, <1>6, <1>7 DEF MpmcNext, SenderSection, ReceiverSection

\* Nobody goes to sleep on a closed channel.
LEMMA CloseStep ==
  ASSUME MpmcTypeOK, CloseInv, [MpmcNext]_mpmcVars
  PROVE  CloseInv'
  <1>a. /\ spc \in [Senders -> ThreadStates] /\ IsFiniteSet(Senders)
        /\ rpc \in [Receivers -> ThreadStates] /\ IsFiniteSet(Receivers)
    BY ThreadTypes
  <1>1. ASSUME NEW s \in Senders,
               SendCall(s) \/ SendFull(s) \/ SendClosed(s) \/ SendTimeout(s) \/ SendSpurious(s)
        PROVE  CloseInv'
    <2>1. closed' = closed /\ cpc' = cpc /\ told' = told /\ rpc' = rpc
      BY <1>1 DEF SendCall, SendFull, SendClosed, SendTimeout, SendSpurious
    <2>2. closed => At(spc', "wait") \subseteq At(spc, "wait")
      BY <1>1 DEF SendCall, SendFull, SendClosed, SendTimeout, SendSpurious, At, MpmcTypeOK
    <2> QED
      BY <2>1, <2>2 DEF CloseInv
  <1>2. ASSUME NEW s \in Senders, Put(s) PROVE CloseInv'
    BY <1>2 DEF CloseInv, Put
  <1>3. ASSUME NEW r \in Receivers,
               RecvCall(r) \/ RecvEmpty(r) \/ RecvTimeout(r) \/ RecvSpurious(r)
        PROVE  CloseInv'
    <2>1. closed' = closed /\ cpc' = cpc /\ spc' = spc /\ (told' = told \/ told' = (told \/ closed))
      BY <1>3 DEF RecvCall, RecvEmpty, RecvTimeout, RecvSpurious
    <2>3. told' => closed'
      <3>1. CASE told' = told
        BY <2>1, <3>1 DEF CloseInv
      <3>2. CASE told' = (told \/ closed)
        BY <2>1, <3>2, Zenon DEF CloseInv
      <3> QED
        BY <2>1, <3>1, <3>2
    <2>2. closed => At(rpc', "wait") \subseteq At(rpc, "wait")
      BY <1>3 DEF RecvCall, RecvEmpty, RecvTimeout, RecvSpurious, At, MpmcTypeOK
    <2> QED
      BY <2>1, <2>2, <2>3 DEF CloseInv
  <1>4. ASSUME NEW r \in Receivers, Take(r) PROVE CloseInv'
    <2>1. At(spc', "wait") \subseteq At(spc, "wait")
      BY <1>4, <1>a, SignalCount DEF Take
    <2>2. At(rpc', "wait") \subseteq At(rpc, "wait")
      BY <1>4 DEF Take, At, MpmcTypeOK
    <2> QED
      BY <1>4, <2>1, <2>2 DEF CloseInv, Take
  <1>5. CASE CloseStore
    BY <1>5 DEF CloseInv, CloseStore, MpmcTypeOK
  <1>6. CASE CloseBroadcast
    BY <1>6, <1>a, BroadcastWakes DEF CloseInv, CloseBroadcast, MpmcTypeOK
  <1>7. CASE UNCHANGED mpmcVars
    BY <1>7 DEF CloseInv, mpmcVars
  <1> QED
    BY <1>1, <1>2, <1>3, <1>4, <1>5, <1>6, <1>7 DEF MpmcNext, SenderSection, ReceiverSection

\* One signal for each element and each place is enough.
LEMMA SignalStep ==
  ASSUME MpmcTypeOK, MpmcTypeOK', CloseInv, CloseInv', NoLostSignal, [MpmcNext]_mpmcVars
  PROVE  NoLostSignal'
  <1>a. /\ spc \in [Senders -> ThreadStates] /\ IsFiniteSet(Senders)
        /\ rpc \in [Receivers -> ThreadStates] /\ IsFiniteSet(Receivers)
        /\ count \in Int /\ Capacity \in Int /\ Capacity - count \in Int
        /\ spc' \in [Senders -> ThreadStates]
        /\ rpc' \in [Receivers -> ThreadStates]
        /\ count' \in Int /\ Capacity - count' \in Int
    BY MpmcThreads, MpmcSizes DEF MpmcTypeOK, ThreadStates
  <1> SUFFICES ASSUME cpc' # "lock" PROVE Served(rpc', count') /\ Served(spc', Capacity - count')
    BY NoLostSignalHalves
  <1>b. CASE cpc' = "done"
    BY <1>b DEF CloseInv, Served
  <1>c. ASSUME cpc' = "idle" PROVE cpc = "idle"
    BY <1>c DEF MpmcNext, SenderSection, ReceiverSection, SendCall, SendFull, SendClosed, Put,
                SendTimeout, SendSpurious, RecvCall, RecvEmpty, Take, RecvTimeout, RecvSpurious,
                CloseStore, CloseBroadcast, mpmcVars
  <1>d. CASE cpc' = "idle"
    <2>a. Served(rpc, count) /\ Served(spc, Capacity - count)
      BY <1>c, <1>d, NoLostSignalHalves
    <2> USE <1>a
    <2>1. ASSUME NEW s \in Senders, SendCall(s) \/ SendClosed(s) \/ SendTimeout(s) \/ SendSpurious(s)
          PROVE  Served(rpc', count') /\ Served(spc', Capacity - count')
      <3>1. rpc' = rpc /\ count' = count
        BY <2>1 DEF SendCall, SendClosed, SendTimeout, SendSpurious, ringVars
      <3>2. ~ SendClosed(s)
        BY <1>c, <1>d DEF SendClosed, CloseInv
      <3>3. spc' = [spc EXCEPT ![s] = "idle"] \/ spc' = [spc EXCEPT ![s] = "lock"]
        BY <2>1 DEF SendCall, SendClosed, SendTimeout, SendSpurious
      <3>4. spc[s] = "idle" \/ spc[s] = "wait"
        BY <2>1, <3>2 DEF SendCall, SendTimeout, SendSpurious
      <3>5. Served(spc', Capacity - count)
        BY <2>a, <3>3, <3>4, ServedArrive
      <3> QED
        BY <2>a, <3>1, <3>5
    <2>2. ASSUME NEW s \in Senders, SendFull(s)
          PROVE  Served(rpc', count') /\ Served(spc', Capacity - count')
      <3>1. rpc' = rpc /\ count' = count /\ Capacity - count <= 0
        BY <2>2 DEF SendFull, ringVars
      <3>2. Served(spc', Capacity - count)
        BY <3>1, ServedNone
      <3> QED
        BY <2>a, <3>1, <3>2
    <2>3. ASSUME NEW s \in Senders, Put(s)
          PROVE  Served(rpc', count') /\ Served(spc', Capacity - count')
      <3>1. count' = count + 1 /\ (Capacity - count) - 1 = Capacity - count'
        BY <2>3 DEF Put
      <3>2. Served(rpc', count + 1)
        BY <2>a, <2>3, ServedSignal DEF Put
      <3>3. Served(spc', (Capacity - count) - 1)
        BY <2>a, <2>3, ServedLeave DEF Put
      <3> QED
        BY <3>1, <3>2, <3>3
    <2>4. ASSUME NEW r \in Receivers, RecvCall(r) \/ RecvTimeout(r) \/ RecvSpurious(r)
          PROVE  Served(rpc', count') /\ Served(spc', Capacity - count')
      <3>1. spc' = spc /\ count' = count
        BY <2>4 DEF RecvCall, RecvTimeout, RecvSpurious, ringVars
      <3>2. rpc' = [rpc EXCEPT ![r] = "idle"] \/ rpc' = [rpc EXCEPT ![r] = "lock"]
        BY <2>4 DEF RecvCall, RecvTimeout, RecvSpurious
      <3>3. rpc[r] = "idle" \/ rpc[r] = "wait"
        BY <2>4 DEF RecvCall, RecvTimeout, RecvSpurious
      <3>4. Served(rpc', count)
        BY <2>a, <3>2, <3>3, ServedArrive
      <3> QED
        BY <2>a, <3>1, <3>4
    <2>5. ASSUME NEW r \in Receivers, RecvEmpty(r)
          PROVE  Served(rpc', count') /\ Served(spc', Capacity - count')
      <3>1. spc' = spc /\ count' = count /\ count <= 0
        BY <2>5 DEF RecvEmpty, ringVars
      <3>2. Served(rpc', count)
        BY <3>1, ServedNone
      <3> QED
        BY <2>a, <3>1, <3>2
    <2>6. ASSUME NEW r \in Receivers, Take(r)
          PROVE  Served(rpc', count') /\ Served(spc', Capacity - count')
      <3>1. count' = count - 1 /\ (Capacity - count) + 1 = Capacity - count'
        BY <2>6 DEF Take
      <3>2. Served(rpc', count - 1)
        BY <2>a, <2>6, ServedLeave DEF Take
      <3>3. Served(spc', (Capacity - count) + 1)
        BY <2>a, <2>6, ServedSignal DEF Take
      <3> QED
        BY <3>1, <3>2, <3>3
    <2>7. CASE UNCHANGED mpmcVars
      BY <2>7, <2>a DEF mpmcVars, ringVars
    <2>8. ~ CloseStore /\ ~ CloseBroadcast
      BY <1>d DEF CloseStore, CloseBroadcast
    <2> QED
      BY <2>1, <2>2, <2>3, <2>4, <2>5, <2>6, <2>7, <2>8 DEF MpmcNext, SenderSection, ReceiverSection
  <1> QED
    BY <1>b, <1>d DEF MpmcTypeOK

\* Nothing is put into a channel that is closed, so a ring that was empty
\* when a receiver was told stays empty.
LEMMA DrainedStep ==
  ASSUME MpmcTypeOK, CloseInv, ClosedMeansDrained, [MpmcNext]_mpmcVars
  PROVE  ClosedMeansDrained'
  <1>1. ASSUME NEW s \in Senders, Put(s) PROVE ~ told'
    BY <1>1 DEF Put, CloseInv
  <1>2. ASSUME NEW r \in Receivers, Take(r) PROVE ~ told'
    BY <1>2 DEF Take, ClosedMeansDrained, MpmcTypeOK
  <1>3. ASSUME NEW r \in Receivers, RecvEmpty(r) PROVE count' = 0
    BY <1>3 DEF RecvEmpty, ringVars
  <1>4. ASSUME NEW s \in Senders,
               SendCall(s) \/ SendFull(s) \/ SendClosed(s) \/ SendTimeout(s) \/ SendSpurious(s)
        PROVE  told' = told /\ count' = count
    BY <1>4 DEF SendCall, SendFull, SendClosed, SendTimeout, SendSpurious, ringVars
  <1>5. ASSUME NEW r \in Receivers, RecvCall(r) \/ RecvTimeout(r) \/ RecvSpurious(r)
        PROVE  told' = told /\ count' = count
    BY <1>5 DEF RecvCall, RecvTimeout, RecvSpurious, ringVars
  <1>6. ASSUME CloseStore \/ CloseBroadcast \/ UNCHANGED mpmcVars
        PROVE  told' = told /\ count' = count
    BY <1>6 DEF CloseStore, CloseBroadcast, mpmcVars, ringVars
  <1> QED
    BY <1>1, <1>2, <1>3, <1>4, <1>5, <1>6
       DEF ClosedMeansDrained, MpmcNext, SenderSection, ReceiverSection

\* The invariant holds at first and is kept.
LEMMA MpmcInvInit == MpmcInit => MpmcInv
  <1> SUFFICES ASSUME MpmcInit PROVE MpmcInv
    OBVIOUS
  <1> USE MpmcSizes DEF MpmcInit
  <1>1. MpmcTypeOK
    <2>1. received \in Seq(Elements)
      BY EmptySeq
    <2>2. head \in 0 .. Capacity - 1 /\ tail \in 0 .. Capacity - 1 /\ count \in 0 .. Capacity
      OBVIOUS
    <2>3. buffer \in [0 .. Capacity - 1 -> Elements \cup {NoElement}]
      OBVIOUS
    <2>4. sent \in [Senders -> 0 .. MaxSends]
      OBVIOUS
    <2> QED
      BY <2>1, <2>2, <2>3, <2>4 DEF MpmcTypeOK
  <1>2. RingInv
    BY DEF RingInv
  <1>3. CloseInv /\ SenderInv
    BY DEF CloseInv, SenderInv
  <1>4. NoLostSignal
    BY DEF NoLostSignal, At
  <1>5. ClosedMeansDrained
    BY DEF ClosedMeansDrained
  <1> QED
    BY <1>1, <1>2, <1>3, <1>4, <1>5 DEF MpmcInv

\* Every step of any thread keeps the invariant.
LEMMA MpmcInvStep == MpmcInv /\ [MpmcNext]_mpmcVars => MpmcInv'
  BY MpmcTypeStep, RingStep, CloseStep, SenderStep, SignalStep, DrainedStep DEF MpmcInv

\* The inductive invariant of the ring.
LEMMA MpmcInvariant == MpmcSpec => []MpmcInv
  BY MpmcInvInit, MpmcInvStep, PTL DEF MpmcSpec

\* However threads overtake each other between a signal and the mutex, a
\* receiver sleeps only while every element has a receiver on its way, and a
\* sender only while every free place has a sender on its way; the ring's
\* indices and count stay in range.  (mpmcSend, mpmcRecv, loopyChannelClose)
THEOREM MpmcWaitersServed == MpmcSpec => []WaitersServed
  <1>1. MpmcInv => WaitersServed
    BY DEF MpmcInv, WaitersServed
  <1> QED
    BY <1>1, MpmcInvariant, PTL

\* Once a receive has returned LOOPY_CHANNEL_CLOSED the channel is empty for
\* good, although `closed` is stored without the mutex.
THEOREM MpmcClosedMeansDrained == MpmcSpec => []ClosedMeansDrained
  <1>1. MpmcInv => ClosedMeansDrained
    BY DEF MpmcInv
  <1> QED
    BY <1>1, MpmcInvariant, PTL


-----------------------------------------------------------------------------
(* The ring implements the bounded FIFO                                     *)

ContentsOK ==
  /\ Contents \in Seq(Elements)
  /\ Len(Contents) = count
  /\ \A i \in 1 .. count : Contents[i] = buffer[Place(i - 1)]

\* The ring holds a sequence of count elements, first in first.
LEMMA ContentsSeq ==
  ASSUME MpmcTypeOK, RingInv
  PROVE  ContentsOK
  <1> USE MpmcSizes
  <1>1. ASSUME NEW i \in 1 .. count
        PROVE  /\ Contents[i] = buffer[Place(i - 1)]
               /\ Contents[i] \in Elements
    <2> DEFINE k == i - 1
    <2>1. k \in 0 .. Capacity - 1 /\ k \in 0 .. count - 1 /\ tail + i - 1 = tail + k
      BY DEF MpmcTypeOK
    <2>2. (tail + k) % Capacity = Place(k)
      BY <2>1, PlaceMod
    <2>3. Contents[i] = buffer[(tail + i - 1) % Capacity]
      BY DEF Contents
    <2> QED
      BY <2>1, <2>2, <2>3 DEF RingInv
  <1>2. Contents \in [1 .. count -> Elements]
    BY <1>1 DEF Contents
  <1>3. count \in Nat
    BY DEF MpmcTypeOK
  <1> HIDE DEF Contents
  <1> QED
    BY <1>1, <1>2, <1>3, IsASeq, LenProperties DEF ContentsOK

\* A send that is accepted appends its element.
LEMMA PutRefines ==
  ASSUME MpmcInv, ContentsOK, ContentsOK', NEW s \in Senders, Put(s)
  PROVE  Fifo!Put(<<s, sent[s] + 1>>)
  <1> DEFINE e == <<s, sent[s] + 1>>
  <1>1. /\ Contents \in Seq(Elements) /\ Len(Contents) = count
        /\ \A i \in 1 .. count : Contents[i] = buffer[Place(i - 1)]
    BY DEF ContentsOK
  <1>2. /\ Contents' \in Seq(Elements) /\ Len(Contents') = count'
        /\ \A i \in 1 .. count' : Contents'[i] = buffer'[Place(i - 1)']
    BY DEF ContentsOK
  <1>3. e \in Elements /\ head = Place(count)
    BY PutRing DEF MpmcInv
  <1>4. count' = count + 1 /\ count \in Nat /\ count < Capacity /\ received' = received
    BY DEF Put, MpmcInv, MpmcTypeOK
  <1>5. /\ Append(Contents, e) \in Seq(Elements)
        /\ Len(Append(Contents, e)) = count + 1
        /\ \A i \in 1 .. count : Append(Contents, e)[i] = Contents[i]
        /\ Append(Contents, e)[count + 1] = e
    BY <1>1, <1>3, AppendProperties
  <1>6. ASSUME NEW i \in 1 .. count + 1 PROVE Contents'[i] = Append(Contents, e)[i]
    <2>1. Contents'[i] = buffer'[Place(i - 1)]
      BY <1>2, <1>4 DEF Place, Put
    <2>2. CASE i = count + 1
      <3>1. Contents'[i] = buffer'[head]
        BY <2>1, <2>2, <1>3, <1>4
      <3> QED
        BY <3>1, <2>2, <1>5 DEF Put, MpmcInv, MpmcTypeOK
    <2>3. CASE i # count + 1
      <3>1. i \in 1 .. count
        BY <2>3, <1>4
      <3>2. Place(i - 1) # head
        BY <3>1, <1>3, <1>4, MpmcSizes DEF Place, MpmcInv, MpmcTypeOK
      <3>3. buffer'[Place(i - 1)] = buffer[Place(i - 1)]
        BY <3>1, <3>2, <1>4, MpmcSizes DEF Put, MpmcInv, MpmcTypeOK, Place
      <3> QED
        BY <2>1, <3>1, <3>3, <1>1, <1>5
    <2> QED
      BY <2>2, <2>3
  <1>7. Contents' = Append(Contents, e)
    BY <1>2, <1>4, <1>5, <1>6, SeqEqual
  <1> HIDE DEF e, Contents
  <1>8. Fifo!Put(e)
    BY <1>1, <1>4, <1>7 DEF Fifo!Put
  <1> QED
    BY <1>8 DEF e

\* A receive takes the oldest.
LEMMA TakeRefines ==
  ASSUME MpmcInv, ContentsOK, ContentsOK', NEW r \in Receivers, Take(r)
  PROVE  Fifo!Take
  <1>1. /\ Contents \in Seq(Elements) /\ Len(Contents) = count
        /\ \A i \in 1 .. count : Contents[i] = buffer[Place(i - 1)]
    BY DEF ContentsOK
  <1>2. /\ Contents' \in Seq(Elements) /\ Len(Contents') = count'
        /\ \A i \in 1 .. count' : Contents'[i] = buffer'[Place(i - 1)']
    BY DEF ContentsOK
  <1>3. tail = Place(0) /\ \A i \in 0 .. count - 2 : Place(i)' = Place(i + 1)
    BY TakeRing DEF MpmcInv
  <1>4. count' = count - 1 /\ count \in Nat /\ count > 0 /\ buffer' = buffer
    BY DEF Take, MpmcInv, MpmcTypeOK
  <1>5. Contents # << >>
    BY <1>1, <1>4, EmptySeq
  <1>6. /\ Head(Contents) = Contents[1]
        /\ Tail(Contents) \in Seq(Elements)
        /\ Len(Tail(Contents)) = count - 1
        /\ \A i \in 1 .. count - 1 : Tail(Contents)[i] = Contents[i + 1]
    BY <1>1, <1>5, HeadTailProperties
  <1>7. Contents[1] = buffer[tail]
    BY <1>1, <1>3, <1>4
  <1>8. ASSUME NEW i \in 1 .. count - 1 PROVE Contents'[i] = Tail(Contents)[i]
    <2>1. i \in 1 .. count' /\ i - 1 \in 0 .. count - 2 /\ (i - 1) + 1 = i
          /\ i + 1 \in 1 .. count /\ (i + 1) - 1 = i
      BY <1>4
    <2>2. Contents'[i] = buffer[Place(i)]
      BY <2>1, <1>2, <1>3, <1>4
    <2>3. Contents[i + 1] = buffer[Place(i)]
      BY <2>1, <1>1
    <2> QED
      BY <2>2, <2>3, <1>6
  <1>9. Contents' = Tail(Contents)
    BY <1>2, <1>4, <1>6, <1>8, SeqEqual
  <1> HIDE DEF Contents
  <1> QED
    BY <1>5, <1>6, <1>7, <1>9 DEF Fifo!Take, Take

\* The mutex channel is a bounded FIFO: what receives return, in the order
\* in which they return it, is what sends accepted, in the order in which
\* they did; nothing is lost, doubled or made up, whichever threads race.
THEOREM MpmcImplementsFifo == MpmcSpec => ImplementsFifo
  <1>1. MpmcInit => Fifo!FifoInit
    <2> SUFFICES ASSUME MpmcInit PROVE Fifo!FifoInit
      OBVIOUS
    <2>1. MpmcTypeOK /\ RingInv
      BY MpmcInvInit DEF MpmcInv
    <2>2. Contents \in Seq(Elements) /\ Len(Contents) = 0
      BY <2>1, ContentsSeq DEF MpmcInit, ContentsOK
    <2>3. Contents = << >>
      BY <2>2, EmptySeq
    <2> QED
      BY <2>3 DEF MpmcInit, Fifo!FifoInit
  <1>2. MpmcInv => ContentsOK
    BY ContentsSeq DEF MpmcInv
  <1>3. MpmcInv /\ ContentsOK /\ ContentsOK' /\ [MpmcNext]_mpmcVars => [Fifo!FifoNext]_(Fifo!fifoVars)
    <2> SUFFICES ASSUME MpmcInv, ContentsOK, ContentsOK', [MpmcNext]_mpmcVars
                 PROVE  [Fifo!FifoNext]_(Fifo!fifoVars)
      OBVIOUS
    <2>1. ASSUME NEW s \in Senders, Put(s) PROVE Fifo!FifoNext
      <3>1. Fifo!Put(<<s, sent[s] + 1>>) /\ <<s, sent[s] + 1>> \in Elements
        BY <2>1, PutRefines, PutRing DEF MpmcInv
      <3> QED
        BY <3>1 DEF Fifo!FifoNext
    <2>2. ASSUME NEW r \in Receivers, Take(r) PROVE Fifo!FifoNext
      BY <2>2, TakeRefines DEF Fifo!FifoNext
    <2>3. CASE UNCHANGED <<ringVars, received>>
      BY <2>3 DEF ringVars, Fifo!fifoVars, Contents
    <2> QED
      BY <2>1, <2>2, <2>3
         DEF MpmcNext, SenderSection, ReceiverSection, SendCall, SendFull, SendClosed, SendTimeout,
             SendSpurious, RecvCall, RecvEmpty, RecvTimeout, RecvSpurious, CloseStore,
             CloseBroadcast, mpmcVars
  <1> QED
    BY <1>1, <1>2, <1>3, MpmcInvariant, PTL DEF MpmcSpec, ImplementsFifo, Fifo!FifoSpec

=============================================================================
