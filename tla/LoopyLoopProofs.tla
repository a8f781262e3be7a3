-------------------------- MODULE LoopyLoopProofs --------------------------
(***************************************************************************)
(* Proofs about LoopyLoop, for any finite set of descriptors, any sizes    *)
(* and delays, and any nesting of loopyMain up to MaxDepth.                *)
(***************************************************************************)
EXTENDS LoopyLoop, LoopyLemmas

\* The steps that leave the registry alone.
Elsewhere ==
  \/ \E n \in Resizes : Resize(n)
  \/ \E fd \in Fds, a \in Acts : Consume(fd, a)
  \/ \E fd \in Reopens : Reopen(fd)
  \/ \E d \in Delays : RegisterTimer(d)
  \/ \E t \in timers : UnregisterTimer(t)
  \/ Stop \/ Delete
  \/ \E m \in Modes : Main(m)
  \/ LoopStep
  \/ Environment

\* What the registry's invariant needs of the types.
RegistryTypes ==
  /\ mask \in [Fds -> SUBSET Acts]
  /\ interest \in [Fds -> SUBSET Acts]
  /\ heap \subseteq Fds

\* Only registration and unregistration change the registry.
LEMMA ElsewhereKeepsRegistry == Elsewhere => UNCHANGED regVars
  <1> USE DEF regVars
  <1>1. CASE \/ \E n \in Resizes : Resize(n)
             \/ \E fd \in Fds, a \in Acts : Consume(fd, a)
             \/ \E fd \in Reopens : Reopen(fd)
             \/ \E d \in Delays : RegisterTimer(d)
             \/ \E t \in timers : UnregisterTimer(t)
    BY <1>1 DEF Resize, Consume, Reopen, RegisterTimer, UnregisterTimer
  <1>2. CASE Stop \/ Delete \/ \E m \in Modes : Main(m)
    BY <1>2 DEF Stop, Delete, Main
  <1>3. CASE LoopStep
    BY <1>3 DEF LoopStep, LoopTest, BeforeReturn, Enter, PollEvents, PollTimeout, Dispatch,
                ReadReturn, WriteTest, WriteReturn, Timers, TimerReturn, Leave, AfterReturn, Exit
  <1>4. CASE Environment
    BY <1>4 DEF Environment, BecomeReady, Tick, PollInterrupted, ThreadStop
  <1> QED
    BY <1>1, <1>2, <1>3, <1>4 DEF Elsewhere

\* Every step of the loop is a registration, an unregistration or elsewhere.
LEMMA NextCases ==
  ASSUME LoopNext
  PROVE  \/ \E fd \in Fds, a \in Acts : Register(fd, a)
         \/ \E fd \in Fds, as \in SUBSET Acts : Unregister(fd, as)
         \/ Elsewhere
  BY DEF LoopNext, ClientOp, Elsewhere, RegisterWriteIfNoneExists

\* A registration keeps kernel, mask, heap and maxfd together, whether
\* epoll_ctl succeeds or not.
LEMMA RegisterKeepsRegistry ==
  ASSUME RegistryTypes, RegistryInv, NEW fd \in Fds, NEW a \in Acts, Register(fd, a)
  PROVE  RegistryTypes' /\ RegistryInv'
  <1> USE DEF RegistryTypes, RegistryInv
  <1>1. CASE UNCHANGED regVars
    BY <1>1 DEF regVars, Registered
  <1>2. CASE /\ interest' = [interest EXCEPT ![fd] = mask[fd] \cup {a}]
             /\ mask' = [mask EXCEPT ![fd] = @ \cup {a}]
             /\ heap' = IF mask[fd] = {} THEN heap \cup {fd} ELSE heap
             /\ maxfd' = PeekMax(heap')
    <2>1. RegistryTypes' /\ \A f \in Fds : interest'[f] = mask'[f]
      BY <1>2
    <2>2. Registered' = Registered \cup {fd}
      BY <1>2 DEF Registered
    <2>3. heap' = Registered'
      BY <1>2, <2>2 DEF Registered
    <2> QED
      BY <1>2, <2>1, <2>3
  <1> QED
    BY <1>1, <1>2 DEF Register

\* So does an unregistration of any subset of the actions.
LEMMA UnregisterKeepsRegistry ==
  ASSUME RegistryTypes, RegistryInv, NEW fd \in Fds, NEW as \in SUBSET Acts, Unregister(fd, as)
  PROVE  RegistryTypes' /\ RegistryInv'
  <1> USE DEF RegistryTypes, RegistryInv
  <1>1. /\ mask' = [mask EXCEPT ![fd] = @ \ as]
        /\ interest' = [interest EXCEPT ![fd] = mask[fd] \ as]
        /\ mask[fd] # {}
    BY DEF Unregister, InternalDelEvent
  <1>2. mask' \in [Fds -> SUBSET Acts] /\ interest' \in [Fds -> SUBSET Acts]
        /\ \A f \in Fds : interest'[f] = mask'[f]
    BY <1>1
  <1>3. CASE mask'[fd] = {}
    <2>1. Registered' = Registered \ {fd}
      BY <1>1, <1>3 DEF Registered
    <2>2. heap' = heap \ {fd} /\ maxfd' = PeekMax(heap')
      BY <1>3 DEF Unregister
    <2> QED
      BY <1>2, <2>1, <2>2
  <1>4. CASE mask'[fd] # {}
    <2>1. Registered' = Registered
      BY <1>1, <1>4 DEF Registered
    <2>2. heap' = heap /\ maxfd' = maxfd
      BY <1>4 DEF Unregister
    <2> QED
      BY <1>2, <2>1, <2>2
  <1> QED
    BY <1>3, <1>4

\* Every step keeps the registry consistent.
LEMMA RegistryStep ==
  RegistryTypes /\ RegistryInv /\ [LoopNext]_loopVars => RegistryTypes' /\ RegistryInv'
  <1> SUFFICES ASSUME RegistryTypes, RegistryInv, [LoopNext]_loopVars
               PROVE  RegistryTypes' /\ RegistryInv'
    OBVIOUS
  <1>1. CASE UNCHANGED regVars
    BY <1>1 DEF regVars, RegistryTypes, RegistryInv, Registered
  <1>2. ASSUME NEW fd \in Fds, NEW a \in Acts, Register(fd, a)
        PROVE  RegistryTypes' /\ RegistryInv'
    BY <1>2, RegisterKeepsRegistry
  <1>3. ASSUME NEW fd \in Fds, NEW as \in SUBSET Acts, Unregister(fd, as)
        PROVE  RegistryTypes' /\ RegistryInv'
    BY <1>3, UnregisterKeepsRegistry
  <1>4. CASE UNCHANGED loopVars
    BY <1>1, <1>4 DEF loopVars
  <1> QED
    BY <1>1, <1>2, <1>3, <1>4, NextCases, ElsewhereKeepsRegistry

\* Whatever callbacks register and unregister, and whichever calls fail, the
\* kernel watches exactly what is registered, and the heap and maxfd agree.
THEOREM RegistryConsistent == LoopSpec => []RegistryInv
  <1>1. LoopInit => RegistryTypes /\ RegistryInv
    BY DEF LoopInit, RegistryTypes, RegistryInv, Registered, PeekMax
  <1> QED
    BY <1>1, RegistryStep, PTL DEF LoopSpec

-----------------------------------------------------------------------------
(* The arrays are large enough.                                             *)

StorageTypes ==
  /\ RegistryTypes
  /\ setSize \in Nat \ {0}
  /\ fired \in Seq(Event)

\* What the arrays hold: descriptors that are numbers and fit.
LEMMA FiredEntry ==
  ASSUME StorageTypes, StorageInv, NEW i \in 1 .. Len(fired)
  PROVE  fired[i].fd \in Nat /\ fired[i].fd < setSize
  <1>1. fired[i] \in Event /\ i \in DOMAIN fired
    BY DEF StorageTypes
  <1>2. fired[i].fd \in Fds
    BY <1>1 DEF Event
  <1> QED
    BY <1>1, <1>2, FdsAssumption DEF StorageInv

\* The registered descriptors are numbers and fit.
LEMMA RegisteredEntry ==
  ASSUME StorageInv, NEW f \in Registered
  PROVE  f \in Nat /\ f < setSize
  <1>1. f \in Fds
    BY DEF Registered
  <1> QED
    BY <1>1, FdsAssumption DEF StorageInv

\* Growing the storage never shrinks it, and makes room for the descriptor.
LEMMA ConformGrows ==
  ASSUME setSize \in Nat \ {0}, NEW fd \in Fds, Conform(fd)
  PROVE  setSize' \in Nat \ {0} /\ setSize <= setSize' /\ fd < setSize'
  BY FdsAssumption DEF Conform, sizeVars

\* A poll reports registered descriptors only, no more of them than fit.
LEMMA FiredFit ==
  ASSUME StorageTypes, RegistryInv, StorageInv
  PROVE  /\ FiredFds \subseteq Registered
         /\ IsFiniteSet(FiredFds)
         /\ Cardinality(FiredFds) \in Nat
         /\ Cardinality(FiredFds) <= setSize
  <1>1. FiredFds \subseteq Registered
    BY DEF FiredFds, Reported, Registered, RegistryInv
  <1>2. FiredFds \subseteq 0 .. setSize - 1
    <2> SUFFICES ASSUME NEW f \in FiredFds PROVE f \in 0 .. setSize - 1
      OBVIOUS
    <2>1. f \in Fds /\ f < setSize
      BY <1>1 DEF StorageInv, Registered
    <2> QED
      BY <2>1, FdsAssumption DEF StorageTypes
  <1>3. setSize - 1 \in Nat /\ IsFiniteSet(0 .. setSize - 1) /\ Cardinality(0 .. setSize - 1) = setSize
    BY FS_Interval DEF StorageTypes
  <1>4. IsFiniteSet(FiredFds) /\ Cardinality(FiredFds) <= setSize
    BY <1>2, <1>3, FS_Subset
  <1> QED
    BY <1>1, <1>4, FS_CardinalityType

\* The events of a poll, in whichever order, are a sequence that fits.
LEMMA BatchFits ==
  ASSUME StorageTypes, RegistryInv, StorageInv, NEW order \in Orders(FiredFds),
         NEW new, new = [i \in 1 .. Len(order) |-> [fd |-> order[i], mask |-> FiredMask(order[i])]]
  PROVE  /\ new \in Seq(Event)
         /\ Len(new) = Len(order) /\ Len(order) \in Nat /\ Len(order) <= setSize
         /\ \A i \in 1 .. Len(new) : new[i].fd < setSize
  <1>1. FiredFds \subseteq Registered /\ Cardinality(FiredFds) \in Nat /\ Cardinality(FiredFds) <= setSize
    BY FiredFit
  <1>2. order \in [1 .. Cardinality(FiredFds) -> FiredFds]
    BY DEF Orders
  <1>3. Len(order) = Cardinality(FiredFds) /\ Len(order) \in Nat
    BY <1>1, <1>2
  <1>4. \A f \in Fds : FiredMask(f) \in SUBSET {"R", "W"}
    BY DEF FiredMask
  <1>5. \A i \in 1 .. Len(order) : order[i] \in Fds /\ order[i] < setSize
    BY <1>1, <1>2, <1>3 DEF StorageInv, Registered
  <1>6. new \in [1 .. Len(order) -> Event]
    BY <1>4, <1>5 DEF Event
  <1>7. new \in Seq(Event) /\ Len(new) = Len(order)
    BY <1>3, <1>6
  <1> QED
    BY <1>1, <1>3, <1>5, <1>7

\* Apart from registrations, the sizes and the fired events change in three
\* places only.
LEMMA StorageCases ==
  ASSUME Elsewhere
  PROVE  \/ UNCHANGED <<setSize, fired>>
         \/ \E n \in Resizes : Resize(n)
         \/ PollEvents
         \/ Leave
  <1> USE DEF sizeVars
  <1>1. CASE \/ \E fd \in Fds, a \in Acts : Consume(fd, a)
             \/ \E fd \in Reopens : Reopen(fd)
             \/ \E d \in Delays : RegisterTimer(d)
             \/ \E t \in timers : UnregisterTimer(t)
    BY <1>1 DEF Consume, Reopen, RegisterTimer, UnregisterTimer
  <1>2. CASE Stop \/ Delete \/ \E m \in Modes : Main(m)
    BY <1>2 DEF Stop, Delete, Main
  <1>3. CASE LoopStep
    BY <1>3 DEF LoopStep, LoopTest, BeforeReturn, Enter, PollTimeout, Dispatch,
                ReadReturn, WriteTest, WriteReturn, Timers, TimerReturn, AfterReturn, Exit
  <1>4. CASE Environment
    BY <1>4 DEF Environment, BecomeReady, Tick, PollInterrupted, ThreadStop
  <1> QED
    BY <1>1, <1>2, <1>3, <1>4 DEF Elsewhere

\* A poll fills the fired array within its bounds, behind or over what an
\* outer activation still has there.
LEMMA PollFits ==
  ASSUME StorageTypes, RegistryInv, StorageInv, PollEvents
  PROVE  /\ fired' \in Seq(Event)
         /\ \A i \in DOMAIN fired' : fired'[i].fd < setSize
         /\ Len(fired') <= setSize
         /\ top = 1 \/ Len(fired) <= Len(fired')
         /\ \E k \in Nat :
              /\ k <= Len(fired')
              /\ frame' = [frame EXCEPT ![top].pc = "dispatch", ![top].numevents = k, ![top].j = 1]
  <1>1. PICK order \in Orders(FiredFds) :
          LET n   == Len(order)
              new == [i \in 1 .. n |-> [fd |-> order[i], mask |-> FiredMask(order[i])]]
          IN  /\ fired' = IF top = 1 THEN new ELSE new \o SubSeq(fired, n + 1, Len(fired))
              /\ frame' = [frame EXCEPT ![top].pc = "dispatch", ![top].numevents = n, ![top].j = 1]
    BY DEF PollEvents
  <1> DEFINE n   == Len(order)
             new == [i \in 1 .. n |-> [fd |-> order[i], mask |-> FiredMask(order[i])]]
             old == SubSeq(fired, n + 1, Len(fired))
  <1>2. /\ new \in Seq(Event)
        /\ Len(new) = n /\ n \in Nat /\ n <= setSize
        /\ \A i \in 1 .. Len(new) : new[i].fd < setSize
    BY BatchFits
  <1>3. /\ fired \in Seq(Event) /\ Len(fired) \in Nat /\ Len(fired) <= setSize /\ setSize \in Nat
        /\ \A i \in 1 .. Len(fired) : fired[i].fd < setSize
    BY DEF StorageTypes, StorageInv
  <1> HIDE DEF n, new
  <1>4. /\ old \in Seq(Event)
        /\ Len(old) = IF n + 1 <= Len(fired) THEN Len(fired) - n ELSE 0
        /\ \A i \in 1 .. Len(old) : old[i] = fired[n + i]
    <2>1. n + 1 \in 1 .. Len(fired) + 1 \/ n + 1 > Len(fired) + 1
      BY <1>2, <1>3
    <2> QED
      BY <1>2, <1>3, <2>1
  <1> HIDE DEF old
  <1>5. CASE top = 1
    <2>1. fired' = new /\ frame' = [frame EXCEPT ![top].pc = "dispatch", ![top].numevents = n, ![top].j = 1]
      BY <1>1, <1>5 DEF new, n
    <2>2. \E k \in Nat :
            /\ k <= Len(fired')
            /\ frame' = [frame EXCEPT ![top].pc = "dispatch", ![top].numevents = k, ![top].j = 1]
      <3>1. n \in Nat /\ n <= Len(fired')
        BY <1>2, <2>1
      <3> QED
        BY <2>1, <3>1
    <2>3. /\ fired' \in Seq(Event) /\ Len(fired') <= setSize
          /\ \A i \in DOMAIN fired' : fired'[i].fd < setSize
      <3>1. fired' = new /\ DOMAIN new = 1 .. Len(new)
        BY <1>2, <2>1
      <3> QED
        BY <1>2, <3>1
    <2> QED
      BY <1>5, <2>2, <2>3, Zenon
  <1>6. CASE top # 1
    <2>1. fired' = new \o old /\ frame' = [frame EXCEPT ![top].pc = "dispatch", ![top].numevents = n, ![top].j = 1]
      BY <1>1, <1>6 DEF new, n, old
    <2>2. fired' \in Seq(Event) /\ Len(fired') = Len(new) + Len(old)
      BY <1>2, <1>4, <2>1, ConcatProperties
    <2>3. Len(fired') <= setSize /\ Len(fired) <= Len(fired') /\ n <= Len(fired')
      BY <1>2, <1>3, <1>4, <2>2
    <2>4. ASSUME NEW i \in 1 .. Len(fired') PROVE fired'[i].fd < setSize
      <3>1. CASE i <= Len(new)
        <4>1. fired'[i] = new[i]
          BY <1>2, <1>4, <2>1, <2>2, <3>1
        <4> QED
          BY <1>2, <3>1, <4>1
      <3>2. CASE i > Len(new)
        <4>1. i - Len(new) \in 1 .. Len(old) /\ fired'[i] = old[i - Len(new)]
          <5>1. Len(new) \in Nat /\ Len(old) \in Nat /\ i \in 1 .. Len(new) + Len(old)
            BY <1>2, <1>4, <2>2
          <5>2. i - Len(new) \in 1 .. Len(old) /\ ~(i <= Len(new))
            BY <3>2, <5>1
          <5>3. new \in Seq(Event) /\ old \in Seq(Event)
            BY <1>2, <1>4
          <5>4. (new \o old)[i] = IF i <= Len(new) THEN new[i] ELSE old[i - Len(new)]
            BY <5>1, <5>3, ConcatProperties
          <5> QED
            BY <2>1, <5>2, <5>4
        <4>2. fired'[i] = fired[n + (i - Len(new))] /\ n + (i - Len(new)) \in 1 .. Len(fired)
          BY <1>2, <1>3, <1>4, <4>1
        <4> QED
          BY <1>3, <4>2
      <3> QED
        BY <1>2, <3>1, <3>2
    <2>5. \E k \in Nat :
            /\ k <= Len(fired')
            /\ frame' = [frame EXCEPT ![top].pc = "dispatch", ![top].numevents = k, ![top].j = 1]
      BY <1>2, <2>1, <2>3
    <2>6. \A i \in DOMAIN fired' : fired'[i].fd < setSize
      BY <2>2, <2>4
    <2> QED
      BY <2>2, <2>3, <2>5, <2>6, Zenon
  <1> QED
    BY <1>5, <1>6

\* Every step keeps the arrays large enough.
LEMMA StorageStep ==
  StorageTypes /\ RegistryInv /\ StorageInv /\ [LoopNext]_loopVars
    => (StorageTypes /\ RegistryInv /\ StorageInv)'
  <1> DEFINE Inv == StorageTypes /\ RegistryInv /\ StorageInv
  <1> SUFFICES ASSUME StorageTypes, RegistryInv, StorageInv, [LoopNext]_loopVars
               PROVE  Inv'
    OBVIOUS
  <1>0. RegistryTypes' /\ RegistryInv'
    BY RegistryStep DEF StorageTypes
  <1>1. ASSUME UNCHANGED <<regVars, setSize, fired>> PROVE Inv'
    BY <1>0, <1>1 DEF regVars, StorageTypes, StorageInv, Registered
  <1>2. ASSUME NEW fd \in Fds, NEW a \in Acts, Register(fd, a) PROVE Inv'
    <2>1. setSize' \in Nat \ {0} /\ setSize <= setSize' /\ fd < setSize'
      BY <1>2, ConformGrows DEF Register, StorageTypes
    <2>2. Registered' \subseteq Registered \cup {fd}
      BY <1>2 DEF Register, Registered, StorageTypes, RegistryTypes, regVars
    <2>3. fired' = fired
      BY <1>2 DEF Register
    <2>4. \A f \in Registered' : f < setSize'
      BY <2>1, <2>2, FdsAssumption DEF StorageInv, StorageTypes, Registered
    <2>5. \A i \in DOMAIN fired' : fired'[i].fd < setSize'
      <3> SUFFICES ASSUME NEW i \in 1 .. Len(fired) PROVE fired[i].fd < setSize'
        BY <2>3 DEF StorageTypes
      <3>1. fired[i].fd \in Nat /\ fired[i].fd < setSize
        BY FiredEntry
      <3> QED
        BY <2>1, <3>1 DEF StorageTypes
    <2> QED
      BY <1>0, <2>1, <2>3, <2>4, <2>5 DEF StorageInv, StorageTypes
  <1>3. ASSUME NEW fd \in Fds, NEW as \in SUBSET Acts, Unregister(fd, as) PROVE Inv'
    <2>1. UNCHANGED <<setSize, fired>>
      BY <1>3 DEF Unregister, sizeVars
    <2>2. Registered' \subseteq Registered
      BY <1>3 DEF Unregister, Registered, StorageTypes, RegistryTypes
    <2> QED
      BY <1>0, <2>1, <2>2 DEF StorageInv, StorageTypes
  <1>4. ASSUME Elsewhere PROVE Inv'
    <2>0. UNCHANGED regVars
      BY <1>4, ElsewhereKeepsRegistry
    <2>1. ASSUME NEW k \in Resizes, Resize(k) PROVE Inv'
      <3>1. k \in Nat /\ setSize' = k /\ setSize < k /\ fired' = fired
        BY <2>1, SizeAssumption DEF Resize
      <3>2. \A f \in Registered' : f < setSize'
        <4>1. Registered' = Registered
          BY <2>0 DEF Registered, regVars
        <4> QED
          BY <3>1, <4>1, RegisteredEntry DEF StorageTypes
      <3>3. \A i \in DOMAIN fired' : fired'[i].fd < setSize'
        <4> SUFFICES ASSUME NEW i \in 1 .. Len(fired) PROVE fired[i].fd < setSize'
          BY <3>1 DEF StorageTypes
        <4>1. fired[i].fd \in Nat /\ fired[i].fd < setSize
          BY FiredEntry
        <4> QED
          BY <3>1, <4>1 DEF StorageTypes
      <3> QED
        BY <1>0, <3>1, <3>2, <3>3 DEF StorageInv, StorageTypes
    <2>2. CASE PollEvents
      <3>1. setSize' = setSize
        BY <2>2 DEF PollEvents, sizeVars
      <3>2. Registered' = Registered
        BY <2>0 DEF Registered, regVars
      <3> QED
        BY <1>0, <2>2, <3>1, <3>2, PollFits DEF StorageInv, StorageTypes
    <2>3. CASE Leave
      <3>1. setSize' = setSize /\ (fired' = << >> \/ fired' = fired)
        BY <2>3 DEF Leave, sizeVars
      <3>2. Registered' = Registered
        BY <2>0 DEF Registered, regVars
      <3>3. fired' \in Seq(Event) /\ Len(fired') <= setSize
            /\ \A i \in DOMAIN fired' : fired'[i].fd < setSize
        <4>1. CASE fired' = << >>
          <5>1. Len(fired') = 0 /\ fired' \in Seq(Event) /\ DOMAIN fired' = {}
            BY <4>1
          <5> QED
            BY <5>1 DEF StorageTypes
        <4>2. CASE fired' = fired
          BY <4>2 DEF StorageInv, StorageTypes
        <4> QED
          BY <3>1, <4>1, <4>2
      <3> QED
        BY <1>0, <3>1, <3>2, <3>3 DEF StorageInv, StorageTypes
    <2> QED
      BY <1>1, <1>4, <2>0, <2>1, <2>2, <2>3, StorageCases
  <1>5. CASE UNCHANGED loopVars
    BY <1>1, <1>5 DEF loopVars, sizeVars
  <1> QED
    BY <1>2, <1>3, <1>4, <1>5, NextCases

\* What is registered or has fired always fits into the arrays, although
\* callbacks grow them, register and run the loop again at any moment.
THEOREM StorageSufficient == LoopSpec => []StorageInv
  <1>1. LoopInit => StorageTypes /\ RegistryInv /\ StorageInv
    <2>1. LoopInit => RegistryTypes /\ RegistryInv
      BY DEF LoopInit, RegistryTypes, RegistryInv, Registered, PeekMax
    <2> QED
      BY <2>1, SizeAssumption DEF LoopInit, StorageTypes, StorageInv, Registered
  <1> QED
    BY <1>1, StorageStep, PTL DEF LoopSpec

-----------------------------------------------------------------------------
(* The activations: types, the count of those inside loopyProcessEvents,    *)
(* the pointer into the events array.                                       *)

\* What the stack of activations looks like: no batch above the running one,
\* every one below it inside a callback, and batches within the fired events.
StackInv ==
  /\ \A i \in Levels : i > top => frame[i].numevents = 0
  /\ \A i \in Levels : i < top => frame[i].pc \in Callbacks
  /\ \A i \in Levels : frame[i].j >= 1 /\ frame[i].numevents <= Len(fired)

LoopInv ==
  /\ LoopTypeOK
  /\ RegistryInv
  /\ StorageInv
  /\ StackInv
  /\ DepthInv
  /\ EventPointerFresh

\* The program counters inside loopyProcessEvents.
Inside == {"poll", "dispatch", "read", "writetest", "write", "timers", "timer", "leave"}

ProcessingIn(fr, t) == {i \in 1 .. t : fr[i].pc \in Inside}

\* The activations inside loopyProcessEvents are finitely many.
LEMMA ProcessingFinite ==
  ASSUME NEW fr \in [Levels -> Frame], NEW t \in 0 .. MaxDepth
  PROVE  /\ IsFiniteSet(ProcessingIn(fr, t))
         /\ Cardinality(ProcessingIn(fr, t)) \in 0 .. MaxDepth
  <1>1. ProcessingIn(fr, t) \subseteq 1 .. MaxDepth
    BY BoundsAssumption DEF ProcessingIn
  <1>2. IsFiniteSet(1 .. MaxDepth) /\ Cardinality(1 .. MaxDepth) = MaxDepth
    BY BoundsAssumption, FS_Interval
  <1>3. IsFiniteSet(ProcessingIn(fr, t)) /\ Cardinality(ProcessingIn(fr, t)) <= MaxDepth
    BY <1>1, <1>2, FS_Subset, ZenonT(30)
  <1>4. Cardinality(ProcessingIn(fr, t)) \in Nat
    BY <1>3, FS_CardinalityType
  <1> QED
    BY <1>3, <1>4, BoundsAssumption

\* They are the ones DepthInv counts.
LEMMA DepthCounts ==
  /\ DepthInv <=> depth = Cardinality(ProcessingIn(frame, top))
  /\ DepthInv' <=> depth' = Cardinality(ProcessingIn(frame', top'))
  <1>1. Pcs \ {"none", "test", "before", "enter", "after", "exit"} = Inside
    BY DEF Pcs, Callbacks, Inside
  <1>2. Processing = ProcessingIn(frame, top) /\ Processing' = ProcessingIn(frame', top')
    BY <1>1 DEF Processing, ProcessingIn
  <1> QED
    BY <1>2 DEF DepthInv

\* What a step of the running activation, to place p, does to the stack.
Moves(p) ==
  /\ top \in Levels /\ top' = top
  /\ frame' \in [Levels -> Frame]
  /\ \A i \in Levels : i # top => frame'[i] = frame[i]
  /\ frame'[top].pc = p
  /\ frame'[top].j >= 1 /\ frame'[top].numevents <= Len(fired')
  /\ top = 1 \/ Len(fired) <= Len(fired')
  /\ arena' = arena
  /\ p = "writetest" => frame'[top].fe = arena
  /\ \/ (F.pc \in Inside <=> p \in Inside) /\ depth' = depth
     \/ F.pc \notin Inside /\ p \in Inside /\ depth' = depth + 1
     \/ F.pc \in Inside /\ p \notin Inside /\ depth' = depth - 1

\* The part of the invariant that is about the stack.
StackPart ==
  /\ top \in 0 .. MaxDepth /\ depth \in 0 .. MaxDepth
  /\ frame \in [Levels -> Frame]
  /\ StackInv
  /\ DepthInv
  /\ EventPointerFresh

\* A step that moves the running activation keeps the stack in order.
LEMMA MovesKeepStack ==
  ASSUME LoopInv, NEW p \in Pcs, Moves(p), fired' \in Seq(Event)
  PROVE  StackPart'
  <1>1. top \in 0 .. MaxDepth /\ frame \in [Levels -> Frame] /\ top' \in 0 .. MaxDepth
        /\ depth \in 0 .. MaxDepth /\ fired \in Seq(Event)
    BY DEF LoopInv, LoopTypeOK, Moves
  <1>2. StackInv'
    <2>1. ASSUME NEW i \in Levels, i > top PROVE frame'[i].numevents = 0
      BY <2>1 DEF Moves, LoopInv, StackInv, Levels
    <2>2. ASSUME NEW i \in Levels, i < top PROVE frame'[i].pc \in Callbacks
      BY <2>2 DEF Moves, LoopInv, StackInv, Levels
    <2>3. ASSUME NEW i \in Levels PROVE frame'[i].j >= 1 /\ frame'[i].numevents <= Len(fired')
      <3>1. CASE i = top
        BY <3>1 DEF Moves
      <3>2. CASE i # top /\ top # 1
        <4>1. frame'[i] = frame[i] /\ frame[i].numevents <= Len(fired) /\ Len(fired) <= Len(fired')
              /\ frame[i].j >= 1
          BY <3>2 DEF Moves, LoopInv, StackInv
        <4>2. frame[i].numevents \in Nat /\ Len(fired) \in Nat /\ Len(fired') \in Nat
          BY <1>1 DEF Frame
        <4> QED
          BY <4>1, <4>2
      <3>3. CASE i # top /\ top = 1
        <4>1. frame'[i].numevents = 0
          BY <2>1, <3>3 DEF Levels
        <4>2. frame'[i].j >= 1 /\ Len(fired') \in Nat
          BY <3>3 DEF Moves, LoopInv, StackInv
        <4> QED
          BY <4>1, <4>2
      <3> QED
        BY <3>1, <3>2, <3>3
    <2> QED
      BY <2>1, <2>2, <2>3 DEF StackInv, Moves
  <1>3. DepthInv' /\ depth' \in 0 .. MaxDepth
    <2> DEFINE old == ProcessingIn(frame, top)
               new == ProcessingIn(frame', top)
    <2>1. old = {i \in 1 .. top : frame[i].pc \in Inside} /\ new = {i \in 1 .. top : frame'[i].pc \in Inside}
      BY DEF ProcessingIn
    <2>2. /\ IsFiniteSet(old) /\ Cardinality(old) \in 0 .. MaxDepth
          /\ IsFiniteSet(new) /\ Cardinality(new) \in 0 .. MaxDepth
      BY <1>1, ProcessingFinite DEF Moves
    <2>3. top \in 1 .. top /\ 1 .. top \subseteq Levels
      BY <1>1, BoundsAssumption DEF Moves, Levels
    <2>4. \A i \in 1 .. top : i # top => frame'[i] = frame[i]
      BY <2>3 DEF Moves
    <2>5. F = frame[top] /\ frame'[top].pc = p
      BY DEF F, Moves
    <2>6. depth = Cardinality(old)
      BY DepthCounts DEF LoopInv
    <2>6a. DepthInv' <=> depth' = Cardinality(new)
      BY DepthCounts DEF Moves
    <2> HIDE DEF old, new
    <2>7. CASE (F.pc \in Inside <=> p \in Inside) /\ depth' = depth
      <3>1. new = old
        BY <2>1, <2>3, <2>4, <2>5, <2>7
      <3> QED
        BY <1>1, <2>6, <2>7, <2>6a, <3>1
    <2>8. CASE F.pc \notin Inside /\ p \in Inside /\ depth' = depth + 1
      <3>1. new = old \cup {top} /\ top \notin old
        BY <2>1, <2>3, <2>4, <2>5, <2>8
      <3>2. Cardinality(new) = Cardinality(old) + 1
        BY <2>2, <3>1, FS_AddElement
      <3> QED
        BY <2>2, <2>6, <2>8, <2>6a, <3>2
    <2>9. CASE F.pc \in Inside /\ p \notin Inside /\ depth' = depth - 1
      <3>1. new = old \ {top} /\ top \in old
        BY <2>1, <2>3, <2>4, <2>5, <2>9
      <3>2. Cardinality(new) = Cardinality(old) - 1
        BY <2>2, <3>1, FS_RemoveElement
      <3> QED
        BY <2>2, <2>6, <2>9, <2>6a, <3>2
    <2> QED
      BY <2>7, <2>8, <2>9 DEF Moves
  <1>4. EventPointerFresh'
    BY DEF EventPointerFresh, At, F, Moves
  <1> QED
    BY <1>1, <1>2, <1>3, <1>4 DEF StackPart, Moves

-----------------------------------------------------------------------------
(* The steps of the running activation.                                     *)

\* The running activation is one of the frames.
LEMMA Running ==
  ASSUME LoopInv, top > 0
  PROVE  /\ top \in Levels /\ F = frame[top] /\ F \in Frame
         /\ frame \in [Levels -> Frame]
         /\ F.j \in Nat /\ F.j >= 1 /\ F.numevents \in Nat /\ F.numevents <= Len(fired)
         /\ fired \in Seq(Event) /\ arena \in Nat
  <1>1. top \in Levels /\ frame \in [Levels -> Frame] /\ fired \in Seq(Event) /\ arena \in Nat
    BY BoundsAssumption DEF LoopInv, LoopTypeOK, Levels
  <1>2. F = frame[top] /\ F \in Frame
    BY <1>1 DEF F
  <1>3. F.j >= 1 /\ F.numevents <= Len(fired)
    BY <1>1, <1>2 DEF LoopInv, StackInv
  <1> QED
    BY <1>1, <1>2, <1>3 DEF Frame

\* Steps that only change the program counter.
LEMMA GotoMoves ==
  ASSUME LoopInv, top > 0, NEW p \in Pcs, p # "writetest", frame' = Goto(p),
         top' = top, fired' = fired, arena' = arena, depth' = depth,
         F.pc \in Inside <=> p \in Inside
  PROVE  Moves(p)
  <1>1. /\ top \in Levels /\ frame \in [Levels -> Frame] /\ F = frame[top]
        /\ F.j >= 1 /\ F.numevents <= Len(fired) /\ fired \in Seq(Event)
    BY Running
  <1>2. /\ frame' \in [Levels -> Frame]
        /\ frame'[top].pc = p
        /\ frame'[top].j = frame[top].j
        /\ frame'[top].numevents = frame[top].numevents
        /\ \A i \in Levels : i # top => frame'[i] = frame[i]
    BY <1>1 DEF Goto, Frame
  <1> QED
    BY <1>1, <1>2 DEF Moves

\* The loop goes on to the next event of the batch.
LEMMA NextEventMoves ==
  ASSUME LoopInv, top > 0, frame' = NextEvent, F.pc \in Inside,
         top' = top, fired' = fired, arena' = arena, depth' = depth
  PROVE  Moves("dispatch")
  <1>1. /\ top \in Levels /\ frame \in [Levels -> Frame] /\ F = frame[top]
        /\ F.j >= 1 /\ F.numevents <= Len(fired) /\ fired \in Seq(Event) /\ F.j \in Nat
    BY Running
  <1>2. "dispatch" \in Pcs /\ frame[top].j + 1 \in Nat
    BY <1>1 DEF Pcs
  <1> DEFINE g == [frame[top] EXCEPT !.pc = "dispatch", !.j = frame[top].j + 1, !.cur = NoEvent, !.fe = 0]
  <1>3. g \in Frame /\ g.pc = "dispatch" /\ g.j = frame[top].j + 1 /\ g.numevents = frame[top].numevents
    BY <1>1, <1>2 DEF Frame
  <1>4. frame' = [frame EXCEPT ![top] = g]
    BY <1>1 DEF NextEvent, Frame
  <1> HIDE DEF g
  <1>5. /\ frame' \in [Levels -> Frame] /\ frame'[top] = g
        /\ \A i \in Levels : i # top => frame'[i] = frame[i]
    BY <1>1, <1>3, <1>4
  <1> QED
    BY <1>1, <1>3, <1>5 DEF Moves, Inside

\* The timers are integers of which the least one exists.
LEMMA NextTimerType ==
  ASSUME timers \subseteq TickRange, timers # {}
  PROVE  NextTimer \in timers
  <1>1. \A t \in timers : t \in Int /\ t + 1 \in Nat
    BY DelaysAssumption DEF TickRange
  <1> DEFINE T == {t + 1 : t \in timers}
  <1>2. T \subseteq Nat /\ T # {}
    BY <1>1
  <1>3. PICK x \in T : \A y \in T : x <= y
    BY <1>2, LeastNatural
  <1>4. PICK t \in timers : x = t + 1
    OBVIOUS
  <1>5. \A u \in timers : t <= u
    BY <1>1, <1>3, <1>4
  <1> QED
    BY <1>4, <1>5 DEF NextTimer

\* loopyProcessEvents is entered.
LEMMA EnterMoves ==
  ASSUME LoopInv, Enter
  PROVE  \E p \in {"poll", "timers"} : Moves(p)
  <1>1. /\ top \in Levels /\ frame \in [Levels -> Frame] /\ F = frame[top] /\ top > 0
        /\ F.j >= 1 /\ F.numevents <= Len(fired) /\ fired \in Seq(Event) /\ F.pc = "enter"
    BY Running DEF Enter, At
  <1> DEFINE ht == wheel /\ F.mode = "all"
             sh == IF ht /\ timers # {} THEN {NextTimer} ELSE {}
             p  == IF maxfd >= 0 \/ ht THEN "poll" ELSE "timers"
             g  == [frame[top] EXCEPT !.hasTimers = ht, !.shortest = sh, !.pc = p]
  <1>2. frame' = [frame EXCEPT ![top].hasTimers = ht, ![top].shortest = sh, ![top].pc = p]
    BY DEF Enter
  <1>3. ht \in BOOLEAN /\ p \in {"poll", "timers"} /\ p \in Pcs
    BY DEF Pcs, LoopInv, LoopTypeOK
  <1>4. sh \in SUBSET TickRange
    BY NextTimerType DEF LoopInv, LoopTypeOK
  <1> HIDE DEF ht, sh, p
  <1>5. g \in Frame /\ g.pc = p /\ g.j = frame[top].j /\ g.numevents = frame[top].numevents
    BY <1>1, <1>3, <1>4 DEF Frame
  <1>6. frame' = [frame EXCEPT ![top] = g]
    BY <1>1, <1>2 DEF Frame
  <1> HIDE DEF g
  <1>7. /\ frame' \in [Levels -> Frame] /\ frame'[top] = g
        /\ \A i \in Levels : i # top => frame'[i] = frame[i]
    BY <1>1, <1>5, <1>6
  <1>8. top' = top /\ fired' = fired /\ arena' = arena /\ depth' = depth + 1
    BY DEF Enter, sizeVars
  <1>9. Moves(p)
    BY <1>1, <1>3, <1>5, <1>7, <1>8 DEF Moves, Inside
  <1> QED
    BY <1>3, <1>9

\* The poll returns events.
LEMMA PollEventsMoves ==
  ASSUME LoopInv, PollEvents
  PROVE  Moves("dispatch")
  <1>1. /\ top \in Levels /\ frame \in [Levels -> Frame] /\ F = frame[top] /\ top > 0
        /\ fired \in Seq(Event) /\ F.pc = "poll"
    BY Running DEF PollEvents, At
  <1>2. /\ fired' \in Seq(Event) /\ (top = 1 \/ Len(fired) <= Len(fired'))
        /\ \E k \in Nat :
              /\ k <= Len(fired')
              /\ frame' = [frame EXCEPT ![top].pc = "dispatch", ![top].numevents = k, ![top].j = 1]
    BY PollFits DEF LoopInv, LoopTypeOK, StorageTypes, RegistryTypes
  <1>3. PICK k \in Nat :
          /\ k <= Len(fired')
          /\ frame' = [frame EXCEPT ![top].pc = "dispatch", ![top].numevents = k, ![top].j = 1]
    BY <1>2
  <1> DEFINE g == [frame[top] EXCEPT !.pc = "dispatch", !.numevents = k, !.j = 1]
  <1>4. g \in Frame /\ g.pc = "dispatch" /\ g.numevents = k /\ g.j = 1
    BY <1>1 DEF Frame, Pcs
  <1>5. frame' = [frame EXCEPT ![top] = g]
    BY <1>1, <1>3 DEF Frame
  <1> HIDE DEF g
  <1>6. /\ frame' \in [Levels -> Frame] /\ frame'[top] = g
        /\ \A i \in Levels : i # top => frame'[i] = frame[i]
    BY <1>1, <1>4, <1>5
  <1>7. top' = top /\ arena' = arena /\ depth' = depth
    BY DEF PollEvents, sizeVars, endVars
  <1> QED
    BY <1>1, <1>2, <1>3, <1>4, <1>6, <1>7 DEF Moves, Inside

\* The next event of the batch is looked at, or the batch is finished.
LEMMA DispatchMoves ==
  ASSUME LoopInv, Dispatch
  PROVE  \E p \in Pcs : Moves(p)
  <1>1. /\ top \in Levels /\ frame \in [Levels -> Frame] /\ F = frame[top] /\ top > 0
        /\ F.j \in Nat /\ F.j >= 1 /\ F.numevents \in Nat /\ F.numevents <= Len(fired)
        /\ fired \in Seq(Event) /\ arena \in Nat /\ F.pc = "dispatch"
    BY Running DEF Dispatch, At
  <1>2. top' = top /\ arena' = arena /\ depth' = depth /\ fired' = fired
    BY DEF Dispatch, sizeVars, endVars
  <1>3. CASE F.j > F.numevents
    <2>1. frame' = Goto("timers")
      BY <1>3 DEF Dispatch
    <2>2. Moves("timers")
      BY <1>1, <1>2, <2>1, GotoMoves DEF Pcs, Inside
    <2> QED
      BY <2>2 DEF Pcs
  <1>4. CASE ~(F.j > F.numevents)
    <2> DEFINE e == fired[F.j]
               p == IF "R" \in mask[e.fd] \cap e.mask THEN "read" ELSE "writetest"
               g == [frame[top] EXCEPT !.cur = e, !.fe = arena, !.pc = p]
    <2>1. e \in Event
      BY <1>1, <1>4
    <2>2. p \in {"read", "writetest"} /\ p \in Pcs
      BY DEF Pcs, Callbacks
    <2>3. frame' = [frame EXCEPT ![top].cur = e, ![top].fe = arena, ![top].pc = p]
      BY <1>4 DEF Dispatch
    <2> HIDE DEF e, p
    <2>4. g \in Frame /\ g.pc = p /\ g.fe = arena /\ g.j = frame[top].j /\ g.numevents = frame[top].numevents
      BY <1>1, <2>1, <2>2 DEF Frame
    <2>5. frame' = [frame EXCEPT ![top] = g]
      BY <1>1, <2>3 DEF Frame
    <2> HIDE DEF g
    <2>6. /\ frame' \in [Levels -> Frame] /\ frame'[top] = g
          /\ \A i \in Levels : i # top => frame'[i] = frame[i]
      BY <1>1, <2>4, <2>5
    <2>7. Moves(p)
      BY <1>1, <1>2, <2>2, <2>4, <2>6 DEF Moves, Inside
    <2> QED
      BY <2>2, <2>7
  <1> QED
    BY <1>3, <1>4

\* The read callback returns, and the pointer is fetched again.
LEMMA ReadReturnMoves ==
  ASSUME LoopInv, ReadReturn
  PROVE  Moves("writetest")
  <1>1. /\ top \in Levels /\ frame \in [Levels -> Frame] /\ F = frame[top] /\ top > 0
        /\ F.j >= 1 /\ F.numevents <= Len(fired) /\ fired \in Seq(Event) /\ arena \in Nat
        /\ F.pc = "read"
    BY Running DEF ReadReturn, At
  <1>2. /\ frame' \in [Levels -> Frame]
        /\ frame'[top].pc = "writetest"
        /\ frame'[top].j = frame[top].j
        /\ frame'[top].numevents = frame[top].numevents
        /\ frame'[top].fe = arena
        /\ \A i \in Levels : i # top => frame'[i] = frame[i]
    <2> DEFINE g == [frame[top] EXCEPT !.pc = "writetest", !.fe = arena]
    <2>1. g \in Frame /\ g.pc = "writetest" /\ g.fe = arena
          /\ g.j = frame[top].j /\ g.numevents = frame[top].numevents
      BY <1>1 DEF Frame, Pcs
    <2>2. frame' = [frame EXCEPT ![top] = g]
      BY <1>1 DEF ReadReturn, Frame
    <2> HIDE DEF g
    <2> QED
      BY <1>1, <2>1, <2>2
  <1>3. top' = top /\ arena' = arena /\ depth' = depth /\ fired' = fired
    BY DEF ReadReturn, sizeVars, endVars
  <1> QED
    BY <1>1, <1>2, <1>3 DEF Moves, Inside

\* loopyProcessEvents returns.
LEMMA LeaveMoves ==
  ASSUME LoopInv, Leave
  PROVE  \E p \in Pcs : Moves(p)
  <1>1. /\ top \in Levels /\ frame \in [Levels -> Frame] /\ F = frame[top] /\ top > 0
        /\ F \in Frame /\ fired \in Seq(Event) /\ F.pc = "leave"
    BY Running DEF Leave, At
  <1> DEFINE p == IF stop THEN "test" ELSE "after"
             g == NewFrame(F.mode, p)
  <1>2. frame' = [frame EXCEPT ![top] = g]
    BY DEF Leave
  <1>3. p \in {"test", "after"} /\ p \in Pcs
    BY DEF Pcs, Callbacks
  <1> HIDE DEF p
  <1>4. g \in Frame /\ g.pc = p /\ g.j = 1 /\ g.numevents = 0
    BY <1>1, <1>3 DEF Frame, NewFrame
  <1> HIDE DEF g
  <1>5. /\ frame' \in [Levels -> Frame] /\ frame'[top] = g
        /\ \A i \in Levels : i # top => frame'[i] = frame[i]
    BY <1>1, <1>2, <1>4
  <1>6. /\ top' = top /\ arena' = arena /\ depth' = depth - 1
        /\ fired' = IF top = 1 THEN << >> ELSE fired
    BY DEF Leave, sizeVars
  <1>7. Len(fired') >= 0 /\ (top = 1 \/ Len(fired) <= Len(fired'))
    BY <1>1, <1>6
  <1>8. Moves(p)
    BY <1>1, <1>3, <1>4, <1>5, <1>6, <1>7 DEF Moves, Inside
  <1> QED
    BY <1>3, <1>8

\* Every other step of the loop but the return of loopyDo, and an interrupted
\* poll, moves the running activation too.
LEMMA LoopStepMoves ==
  ASSUME LoopInv, LoopStep \/ PollInterrupted, ~Exit
  PROVE  \E p \in Pcs : Moves(p)
  <1> USE DEF sizeVars, endVars, At
  <1>1. CASE LoopTest
    <2>1. PICK p \in {"exit", "before"} : frame' = Goto(p)
      BY <1>1 DEF LoopTest
    <2>2. Moves(p)
      BY <1>1, <2>1, GotoMoves DEF LoopTest, Pcs, Callbacks, Inside
    <2> QED
      BY <2>1, <2>2 DEF Pcs, Callbacks
  <1>2. CASE BeforeReturn
    <2>1. PICK p \in {"exit", "enter"} : frame' = Goto(p)
      BY <1>2 DEF BeforeReturn
    <2>2. Moves(p)
      BY <1>2, <2>1, GotoMoves DEF BeforeReturn, Pcs, Callbacks, Inside
    <2> QED
      BY <2>1, <2>2 DEF Pcs, Callbacks
  <1>3. CASE PollTimeout \/ PollInterrupted
    <2>1. Moves("timers")
      BY <1>3, GotoMoves DEF PollTimeout, PollInterrupted, Pcs, Callbacks, Inside
    <2> QED
      BY <2>1 DEF Pcs
  <1>4. CASE WriteTest
    <2>1. CASE frame' = Goto("write")
      <3>1. Moves("write")
        BY <1>4, <2>1, GotoMoves DEF WriteTest, Pcs, Callbacks, Inside
      <3> QED
        BY <3>1 DEF Pcs, Callbacks
    <2>2. CASE frame' = NextEvent
      <3>1. Moves("dispatch")
        BY <1>4, <2>2, NextEventMoves DEF WriteTest, Inside
      <3> QED
        BY <3>1 DEF Pcs
    <2> QED
      BY <1>4, <2>1, <2>2 DEF WriteTest
  <1>5. CASE WriteReturn
    <2>1. Moves("dispatch")
      BY <1>5, NextEventMoves DEF WriteReturn, Inside
    <2> QED
      BY <2>1 DEF Pcs
  <1>6. CASE Timers
    <2>1. PICK p \in {"timer", "leave"} : frame' = Goto(p)
      BY <1>6 DEF Timers
    <2>2. Moves(p)
      BY <1>6, <2>1, GotoMoves DEF Timers, Pcs, Callbacks, Inside
    <2> QED
      BY <2>1, <2>2 DEF Pcs, Callbacks
  <1>7. CASE TimerReturn
    <2>1. Moves("leave")
      BY <1>7, GotoMoves DEF TimerReturn, Pcs, Callbacks, Inside
    <2> QED
      BY <2>1 DEF Pcs
  <1>8. CASE AfterReturn
    <2>1. Moves("test")
      BY <1>8, GotoMoves DEF AfterReturn, Pcs, Callbacks, Inside
    <2> QED
      BY <2>1 DEF Pcs
  <1>9. {"dispatch", "writetest", "poll", "timers"} \subseteq Pcs
    BY DEF Pcs
  <1> QED
    BY <1>1, <1>2, <1>3, <1>4, <1>5, <1>6, <1>7, <1>8, <1>9,
       EnterMoves, PollEventsMoves, DispatchMoves, ReadReturnMoves, LeaveMoves DEF LoopStep

-----------------------------------------------------------------------------
(* The steps that push, pop or leave alone.                                 *)

\* loopyDo returns: one activation less, and the one below is in a callback.
LEMMA ExitKeepsStack ==
  ASSUME LoopInv, Exit
  PROVE  StackPart'
  <1>1. /\ top \in Levels /\ frame \in [Levels -> Frame] /\ F = frame[top] /\ top > 0
        /\ fired \in Seq(Event) /\ F.pc = "exit" /\ depth \in 0 .. MaxDepth
    BY Running DEF Exit, At, LoopInv, LoopTypeOK
  <1>2. /\ top' = top - 1 /\ frame' = [frame EXCEPT ![top] = NoFrame]
        /\ fired' = fired /\ depth' = depth
    BY DEF Exit
  <1>3. NoFrame \in Frame /\ NoFrame.j = 1 /\ NoFrame.numevents = 0
    BY DEF NoFrame, NewFrame, Frame, Pcs
  <1>4. top \in 1 .. MaxDepth /\ top' \in 0 .. MaxDepth /\ 1 .. top \subseteq Levels
    BY <1>1, <1>2, BoundsAssumption DEF Levels
  <1>5. /\ frame' \in [Levels -> Frame] /\ frame'[top] = NoFrame
        /\ \A i \in Levels : i # top => frame'[i] = frame[i]
    BY <1>1, <1>2, <1>3
  <1>6. StackInv'
    <2>1. ASSUME NEW i \in Levels, i > top' PROVE frame'[i].numevents = 0
      <3>1. i = top \/ (i # top /\ i > top)
        BY <1>2, <1>4, <2>1 DEF Levels
      <3> QED
        BY <1>3, <1>5, <3>1 DEF LoopInv, StackInv
    <2>2. ASSUME NEW i \in Levels, i < top' PROVE frame'[i].pc \in Callbacks
      <3>1. i # top /\ i < top
        BY <1>2, <1>4, <2>2 DEF Levels
      <3> QED
        BY <1>5, <3>1 DEF LoopInv, StackInv
    <2>3. ASSUME NEW i \in Levels PROVE frame'[i].j >= 1 /\ frame'[i].numevents <= Len(fired')
      <3>1. CASE i = top
        BY <1>1, <1>2, <1>3, <1>5, <3>1
      <3>2. CASE i # top
        BY <1>2, <1>5, <3>2 DEF LoopInv, StackInv
      <3> QED
        BY <3>1, <3>2
    <2> QED
      BY <2>1, <2>2, <2>3 DEF StackInv
  <1>7. DepthInv'
    <2>1. ProcessingIn(frame', top') = ProcessingIn(frame, top)
      <3>1. "exit" \notin Inside
        BY DEF Inside
      <3>2. \A i \in 1 .. top' : frame'[i] = frame[i] /\ i \in 1 .. top
        BY <1>2, <1>4, <1>5
      <3>3. \A i \in 1 .. top : i = top \/ i \in 1 .. top'
        BY <1>2, <1>4
      <3> QED
        BY <1>1, <3>1, <3>2, <3>3 DEF ProcessingIn
    <2> QED
      BY <1>2, <2>1, DepthCounts DEF LoopInv
  <1>8. EventPointerFresh'
    <2>1. CASE top' = 0
      BY <2>1 DEF EventPointerFresh, At
    <2>2. CASE top' # 0
      <3>1. top' \in Levels /\ top' # top /\ top' < top
        BY <1>2, <1>4, <2>2, BoundsAssumption DEF Levels
      <3>2. frame'[top'].pc \in Callbacks
        BY <1>5, <3>1 DEF LoopInv, StackInv
      <3> QED
        BY <3>2 DEF EventPointerFresh, At, F, Callbacks
    <2> QED
      BY <2>1, <2>2
  <1> QED
    BY <1>1, <1>2, <1>4, <1>5, <1>6, <1>7, <1>8 DEF StackPart

\* loopyMain is called, from outside or from a callback.
LEMMA MainKeepsStack ==
  ASSUME LoopInv, NEW m \in Modes, Main(m)
  PROVE  StackPart'
  <1>1. /\ top \in 0 .. MaxDepth /\ frame \in [Levels -> Frame] /\ fired \in Seq(Event)
        /\ depth \in 0 .. MaxDepth
    BY DEF LoopInv, LoopTypeOK
  <1> DEFINE g == NewFrame(m, "test")
  <1>2. /\ top < MaxDepth /\ top' = top + 1 /\ frame' = [frame EXCEPT ![top + 1] = g]
        /\ fired' = fired /\ depth' = depth
    BY DEF Main
  <1>3. g \in Frame /\ g.pc = "test" /\ g.j = 1 /\ g.numevents = 0
    BY ClientAssumption DEF NewFrame, Frame, Pcs
  <1> HIDE DEF g
  <1>4. top' \in 0 .. MaxDepth /\ top' \in Levels
    BY <1>1, <1>2, BoundsAssumption DEF Levels
  <1>5. /\ frame' \in [Levels -> Frame] /\ frame'[top'] = g
        /\ \A i \in Levels : i # top' => frame'[i] = frame[i]
    BY <1>1, <1>2, <1>3, <1>4
  <1>6. StackInv'
    <2>1. ASSUME NEW i \in Levels, i > top' PROVE frame'[i].numevents = 0
      <3>1. i # top' /\ i > top
        BY <1>1, <1>2, <2>1 DEF Levels
      <3> QED
        BY <1>5, <3>1 DEF LoopInv, StackInv
    <2>2. ASSUME NEW i \in Levels, i < top' PROVE frame'[i].pc \in Callbacks
      <3>1. i # top' /\ (i < top \/ (i = top /\ top > 0))
        BY <1>1, <1>2, <2>2, BoundsAssumption DEF Levels
      <3>2. top > 0 => frame[top].pc \in Callbacks
        BY DEF Main, ClientTurn, F
      <3> QED
        BY <1>5, <3>1, <3>2 DEF LoopInv, StackInv
    <2>3. ASSUME NEW i \in Levels PROVE frame'[i].j >= 1 /\ frame'[i].numevents <= Len(fired')
      <3>1. CASE i = top'
        BY <1>1, <1>2, <1>3, <1>5, <3>1
      <3>2. CASE i # top'
        BY <1>2, <1>5, <3>2 DEF LoopInv, StackInv
      <3> QED
        BY <3>1, <3>2
    <2> QED
      BY <2>1, <2>2, <2>3 DEF StackInv
  <1>7. DepthInv'
    <2>1. ProcessingIn(frame', top') = ProcessingIn(frame, top)
      <3>1. "test" \notin Inside
        BY DEF Inside
      <3>2. \A i \in 1 .. top : frame'[i] = frame[i] /\ i \in 1 .. top'
        BY <1>1, <1>2, <1>5, BoundsAssumption DEF Levels
      <3>3. \A i \in 1 .. top' : i = top' \/ i \in 1 .. top
        BY <1>1, <1>2
      <3> QED
        BY <1>3, <1>5, <3>1, <3>2, <3>3 DEF ProcessingIn
    <2> QED
      BY <1>2, <2>1, DepthCounts DEF LoopInv
  <1>8. EventPointerFresh'
    BY <1>3, <1>5 DEF EventPointerFresh, At, F
  <1> QED
    BY <1>1, <1>2, <1>4, <1>5, <1>6, <1>7, <1>8 DEF StackPart

\* Ticks left stay in range when time passes.
LEMMA OlderType == \A S \in SUBSET TickRange : Older(S) \in SUBSET TickRange
  BY DelaysAssumption DEF Older, TickRange

\* Time passes: only the deadlines of the activations change.
LEMMA TickKeepsStack ==
  ASSUME LoopInv, Tick
  PROVE  StackPart'
  <1>1. /\ top \in 0 .. MaxDepth /\ frame \in [Levels -> Frame] /\ fired \in Seq(Event)
        /\ depth \in 0 .. MaxDepth
    BY DEF LoopInv, LoopTypeOK
  <1>2. /\ top' = top /\ fired' = fired /\ depth' = depth /\ arena' = arena /\ live' = live
        /\ frame' = [i \in Levels |-> [frame[i] EXCEPT !.shortest = Older(@)]]
    BY DEF Tick, sizeVars, endVars
  <1>3. /\ frame' \in [Levels -> Frame]
        /\ \A i \in Levels : /\ frame'[i].pc = frame[i].pc /\ frame'[i].j = frame[i].j
                             /\ frame'[i].numevents = frame[i].numevents
                             /\ frame'[i].fe = frame[i].fe
    BY <1>1, <1>2, OlderType, ZenonT(60) DEF Frame
  <1>5. StackInv'
    BY <1>2, <1>3 DEF LoopInv, StackInv
  <1>6. DepthInv'
    <2>1. 1 .. top \subseteq Levels
      BY <1>1, BoundsAssumption DEF Levels
    <2>2. ProcessingIn(frame', top') = ProcessingIn(frame, top)
      BY <1>2, <1>3, <2>1 DEF ProcessingIn
    <2> QED
      BY <1>2, <2>2, DepthCounts DEF LoopInv
  <1>7. EventPointerFresh'
    <2>1. top > 0 => top \in Levels
      BY <1>1, BoundsAssumption DEF Levels
    <2> QED
      BY <1>2, <1>3, <2>1 DEF LoopInv, EventPointerFresh, At, F
  <1> QED
    BY <1>1, <1>2, <1>3, <1>5, <1>6, <1>7 DEF StackPart

\* Every other step leaves the stack alone; only a client's turn moves the
\* events array, and then no activation is about to use its pointer.
LEMMA OtherStepsKeepStack ==
  ASSUME LoopInv, UNCHANGED <<top, frame, depth, fired>>,
         live' => live, ClientTurn \/ arena' = arena
  PROVE  StackPart'
  <1>1. /\ top' \in 0 .. MaxDepth /\ depth' \in 0 .. MaxDepth /\ frame' \in [Levels -> Frame]
    BY DEF LoopInv, LoopTypeOK
  <1>2. StackInv'
    BY DEF LoopInv, StackInv
  <1>3. DepthInv'
    BY DepthCounts DEF LoopInv
  <1>4. EventPointerFresh'
    BY DEF LoopInv, EventPointerFresh, At, F, ClientTurn, Callbacks
  <1> QED
    BY <1>1, <1>2, <1>3, <1>4 DEF StackPart

\* Every step keeps the stack in order.
LEMMA StackStep ==
  ASSUME LoopInv, [LoopNext]_loopVars, fired' \in Seq(Event)
  PROVE  StackPart'
  <1> USE DEF sizeVars, endVars, stackVars
  <1>1. CASE (LoopStep \/ PollInterrupted) /\ ~Exit
    BY <1>1, LoopStepMoves, MovesKeepStack
  <1>2. CASE Exit
    BY <1>2, ExitKeepsStack
  <1>3. CASE \E m \in Modes : Main(m)
    BY <1>3, MainKeepsStack
  <1>4. CASE Tick
    BY <1>4, TickKeepsStack
  <1>5. CASE \/ \E n \in Resizes : Resize(n)
             \/ \E fd \in Fds, a \in Acts : Register(fd, a) \/ Consume(fd, a)
             \/ \E fd \in Fds : RegisterWriteIfNoneExists(fd)
             \/ \E fd \in Reopens : Reopen(fd)
             \/ \E fd \in Fds, as \in SUBSET Acts \ {{}} : Unregister(fd, as)
             \/ \E d \in Delays : RegisterTimer(d)
             \/ \E t \in timers : UnregisterTimer(t)
    <2>1. UNCHANGED <<top, frame, depth, fired, live>> /\ ClientTurn
      BY <1>5 DEF Resize, Register, Consume, RegisterWriteIfNoneExists, Reopen, Unregister,
                  RegisterTimer, UnregisterTimer
    <2> QED
      BY <2>1, OtherStepsKeepStack
  <1>6. CASE \/ Stop \/ Delete \/ ThreadStop
             \/ \E fd \in Fds, a \in Acts \cup (IF HangUps THEN {"H"} ELSE {}) : BecomeReady(fd, a)
    <2>1. UNCHANGED <<top, frame, depth, fired, arena>> /\ live
      BY <1>6 DEF Stop, Delete, ThreadStop, BecomeReady, ClientTurn
    <2> QED
      BY <2>1, OtherStepsKeepStack
  <1>7. CASE UNCHANGED loopVars
    <2>1. UNCHANGED <<top, frame, depth, fired, arena, live>>
      BY <1>7 DEF loopVars
    <2> QED
      BY <2>1, OtherStepsKeepStack
  <1> QED
    BY <1>1, <1>2, <1>3, <1>4, <1>5, <1>6, <1>7 DEF LoopNext, ClientOp, LoopStep, Environment

-----------------------------------------------------------------------------
(* Types, and the theorems.                                                 *)

RestTypes ==
  /\ arena \in Nat
  /\ wheel \in BOOLEAN
  /\ timers \subseteq TickRange
  /\ stop \in BOOLEAN /\ pendingDelete \in BOOLEAN /\ live \in BOOLEAN
  /\ ready \in [Fds -> SUBSET {"R", "W", "H"}]
  /\ reused \subseteq Fds
  /\ asked \subseteq Levels

\* The variables outside the registry, the storage and the stack keep their
\* types.
LEMMA RestStep ==
  ASSUME RestTypes, top \in 0 .. MaxDepth, [LoopNext]_loopVars
  PROVE  RestTypes'
  <1> USE DEF RestTypes, sizeVars, timerVars, endVars, envVars
  <1>1. CASE \/ \E n \in Resizes : Resize(n)
             \/ \E fd \in Fds, a \in Acts : Register(fd, a)
             \/ \E fd \in Fds : RegisterWriteIfNoneExists(fd)
    BY <1>1 DEF Resize, Register, RegisterWriteIfNoneExists, Conform
  <1>2. CASE \E fd \in Fds, as \in SUBSET Acts \ {{}} : Unregister(fd, as)
    BY <1>2 DEF Unregister
  <1>3. CASE \/ \E fd \in Fds, a \in Acts : Consume(fd, a)
             \/ \E fd \in Reopens : Reopen(fd)
    BY <1>3, FdsAssumption DEF Consume, Reopen
  <1>4. ASSUME NEW fd \in Fds, NEW a \in Acts \cup (IF HangUps THEN {"H"} ELSE {}), BecomeReady(fd, a)
        PROVE  RestTypes'
    <2>1. a \in {"R", "W", "H"}
      BY <1>4, ActsAssumption
    <2> QED
      BY <1>4, <2>1 DEF BecomeReady
  <1>5. CASE \/ \E d \in Delays : RegisterTimer(d)
             \/ \E t \in timers : UnregisterTimer(t)
    <2>1. Delays \subseteq TickRange
      BY DelaysAssumption DEF TickRange
    <2> QED
      BY <1>5, <2>1 DEF RegisterTimer, UnregisterTimer
  <1>6. CASE Stop \/ Delete \/ ThreadStop \/ \E m \in Modes : Main(m)
    <2>1. 1 .. top \subseteq Levels
      BY BoundsAssumption DEF Levels
    <2> QED
      BY <1>6, <2>1 DEF Stop, Delete, ThreadStop, Main
  <1>7. CASE Tick
    BY <1>7, OlderType DEF Tick
  <1>8. CASE \/ LoopTest \/ BeforeReturn \/ Enter \/ PollEvents \/ PollTimeout \/ PollInterrupted
             \/ Dispatch \/ ReadReturn \/ WriteTest \/ WriteReturn
    BY <1>8 DEF LoopTest, BeforeReturn, Enter, PollEvents, PollTimeout, PollInterrupted,
                Dispatch, ReadReturn, WriteTest, WriteReturn
  <1>9. CASE Timers \/ TimerReturn \/ Leave \/ AfterReturn \/ Exit
    BY <1>9 DEF Timers, TimerReturn, Leave, AfterReturn, Exit
  <1>10. CASE UNCHANGED loopVars
    BY <1>10 DEF loopVars
  <1> QED
    BY <1>1, <1>2, <1>3, <1>4, <1>5, <1>6, <1>7, <1>8, <1>9, <1>10
       DEF LoopNext, ClientOp, LoopStep, Environment

\* Registered descriptors fit into the arrays, so there is a largest one, and
\* the peek of the heap finds it.
LEMMA PeekMaxType ==
  ASSUME NEW S \in SUBSET Fds, NEW b \in Nat, \A f \in S : f < b
  PROVE  PeekMax(S) \in Fds \cup {-1}
  <1>1. CASE S = {}
    BY <1>1 DEF PeekMax
  <1>2. CASE S # {}
    <2>1. \A f \in S : f \in Nat /\ f < b
      BY FdsAssumption
    <2> DEFINE T == {b - f : f \in S}
    <2>2. T \subseteq Nat /\ T # {}
      BY <1>2, <2>1
    <2>3. PICK x \in T : \A y \in T : x <= y
      BY <2>2, LeastNatural
    <2>4. PICK m \in S : x = b - m
      OBVIOUS
    <2>5. ASSUME NEW n \in S PROVE n <= m
      <3>1. b - n \in T /\ m \in Nat /\ n \in Nat
        BY <2>1
      <3>2. b - m <= b - n
        BY <2>3, <2>4, <3>1
      <3> HIDE DEF T
      <3> QED
        BY <3>1, <3>2
    <2> QED
      BY <1>2, <2>5 DEF PeekMax
  <1> QED
    BY <1>1, <1>2

\* The parts of the type invariant.
LEMMA TypeParts ==
  /\ LoopTypeOK => StorageTypes /\ RestTypes
  /\ StorageTypes /\ RestTypes /\ StackPart /\ RegistryInv /\ StorageInv => LoopTypeOK
  <1>1. LoopTypeOK => StorageTypes /\ RestTypes
    BY DEF LoopTypeOK, StorageTypes, RegistryTypes, RestTypes
  <1>2. ASSUME StorageTypes, RestTypes, StackPart, RegistryInv, StorageInv PROVE LoopTypeOK
    <2>1. maxfd \in Fds \cup {-1}
      <3>1. Registered \in SUBSET Fds /\ setSize \in Nat /\ \A f \in Registered : f < setSize
        BY <1>2 DEF Registered, StorageTypes, StorageInv
      <3> QED
        BY <1>2, <3>1, PeekMaxType DEF RegistryInv
    <2> QED
      BY <1>2, <2>1 DEF LoopTypeOK, StorageTypes, RegistryTypes, RestTypes, StackPart
  <1> QED
    BY <1>1, <1>2

\* The invariant holds initially and every step keeps it.
THEOREM LoopInvariant == LoopSpec => []LoopInv
  <1>1. LoopInit => LoopInv
    <2> SUFFICES ASSUME LoopInit PROVE LoopInv
      OBVIOUS
    <2>1. StorageTypes /\ RegistryInv /\ StorageInv
      BY SizeAssumption DEF LoopInit, StorageTypes, RegistryTypes, RegistryInv, StorageInv, Registered, PeekMax
    <2>2. RestTypes
      BY DEF LoopInit, RestTypes
    <2>3. NoFrame \in Frame /\ NoFrame.j = 1 /\ NoFrame.numevents = 0
      BY DEF NoFrame, NewFrame, Frame, Pcs
    <2>4. /\ frame \in [Levels -> Frame] /\ \A i \in Levels : frame[i] = NoFrame
          /\ top = 0 /\ depth = 0 /\ Len(fired) = 0
      BY <2>3 DEF LoopInit
    <2>5. StackInv
      BY <2>3, <2>4 DEF StackInv, Levels
    <2>6. DepthInv
      <3>1. ProcessingIn(frame, top) = {}
        BY <2>4 DEF ProcessingIn
      <3> QED
        BY <2>4, <3>1, DepthCounts, FS_EmptySet
    <2>7. EventPointerFresh
      BY <2>4 DEF EventPointerFresh, At
    <2>8. StackPart
      BY <2>4, <2>5, <2>6, <2>7, BoundsAssumption DEF StackPart
    <2> QED
      BY <2>1, <2>2, <2>8, TypeParts DEF LoopInv, StackPart
  <1>2. LoopInv /\ [LoopNext]_loopVars => LoopInv'
    <2> SUFFICES ASSUME LoopInv, [LoopNext]_loopVars PROVE LoopInv'
      OBVIOUS
    <2>1. (StorageTypes /\ RegistryInv /\ StorageInv)'
      BY StorageStep, TypeParts DEF LoopInv
    <2>2. RestTypes'
      BY RestStep, TypeParts DEF LoopInv, LoopTypeOK
    <2>3. StackPart'
      BY <2>1, StackStep DEF StorageTypes
    <2>4. LoopTypeOK'
      <3>1. maxfd' \in Fds \cup {-1}
        <4>1. Registered' \in SUBSET Fds /\ setSize' \in Nat /\ \A f \in Registered' : f < setSize'
          BY <2>1 DEF Registered, StorageTypes, StorageInv
        <4>2. PeekMax(Registered') \in Fds \cup {-1}
          BY <4>1, PeekMaxType
        <4> QED
          BY <2>1, <4>2 DEF RegistryInv
      <3> QED
        BY <2>1, <2>2, <2>3, <3>1 DEF LoopTypeOK, StorageTypes, RegistryTypes, RestTypes, StackPart
    <2> QED
      BY <2>1, <2>3, <2>4 DEF LoopInv, StackPart
  <1> QED
    BY <1>1, <1>2, PTL DEF LoopSpec

\* The event loop's state is type correct for any descriptors and any nesting
\* of loopyMain.
THEOREM LoopTypeCorrect == LoopSpec => []LoopTypeOK
  BY LoopInvariant, PTL DEF LoopInv

\* When loopyProcessEvents looks at fe->mask after the read callback, the
\* pointer is into the current array, wherever callbacks have moved it.
THEOREM EventPointerNeverStale == LoopSpec => []EventPointerFresh
  BY LoopInvariant, PTL DEF LoopInv

\* processingDepth is the number of activations inside loopyProcessEvents:
\* what loopyDelete tests to decide whether to defer.
THEOREM DepthIsCount == LoopSpec => []DepthInv
  BY LoopInvariant, PTL DEF LoopInv

-----------------------------------------------------------------------------
(* Where a step of the loop may lead, and what it is entitled to.           *)

\* loopyDo goes on to loopyProcessEvents only if it is not stopped, polls only
\* there, and calls a callback only for an action that is registered now.
LEMMA StepLeads ==
  ASSUME LoopInv, LoopStep \/ PollInterrupted, ~Exit
  PROVE  /\ top \in Levels /\ top' = top /\ UNCHANGED <<stop, live>> /\ live
         /\ frame'[top].pc = "enter" => F.pc = "before" /\ ~stop
         /\ frame'[top].pc = "poll" => F.pc = "enter"
         /\ frame'[top].pc = "exit" => stop
         /\ frame'[top].pc = "read" => "R" \in mask[frame'[top].cur.fd]
         /\ frame'[top].pc = "write" => "W" \in mask[frame'[top].cur.fd]
  <1> DEFINE Leads == /\ top \in Levels /\ top' = top /\ UNCHANGED <<stop, live>> /\ live
                      /\ frame'[top].pc = "enter" => F.pc = "before" /\ ~stop
                      /\ frame'[top].pc = "poll" => F.pc = "enter"
                      /\ frame'[top].pc = "exit" => stop
                      /\ frame'[top].pc = "read" => "R" \in mask[frame'[top].cur.fd]
                      /\ frame'[top].pc = "write" => "W" \in mask[frame'[top].cur.fd]
  <1>a. frame \in [Levels -> Frame] /\ \A i \in Levels : DOMAIN frame[i] = DOMAIN NoFrame
    BY DEF LoopInv, LoopTypeOK, Frame, NoFrame, NewFrame
  <1>b. \A p : At(p) => top \in Levels /\ live /\ F = frame[top] /\ F.pc = p
    BY Running DEF At, F, LoopInv
  <1> USE DEF endVars
  <1>1. CASE LoopTest \/ BeforeReturn
    BY <1>1, <1>a, <1>b DEF LoopTest, BeforeReturn, Goto, Frame
  <1>2. CASE Enter
    <2>1. frame'[top].pc \in {"poll", "timers"}
      BY <1>2, EnterMoves DEF Moves
    <2> QED
      BY <1>2, <1>b, <2>1 DEF Enter
  <1>3. CASE PollEvents
    <2>1. frame'[top].pc = "dispatch"
      BY <1>3, <1>a, <1>b DEF PollEvents, Frame
    <2> QED
      BY <1>3, <1>b, <2>1 DEF PollEvents
  <1>4. CASE PollTimeout \/ PollInterrupted
    BY <1>4, <1>a, <1>b DEF PollTimeout, PollInterrupted, Goto, Frame
  <1>5. CASE Dispatch
    <2>1. CASE F.j > F.numevents
      BY <1>5, <2>1, <1>a, <1>b DEF Dispatch, Goto, Frame
    <2>2. CASE ~ (F.j > F.numevents)
      <3>1. frame'[top].cur = fired[F.j]
        BY <1>5, <2>2, <1>a, <1>b DEF Dispatch, Frame
      <3>2. frame'[top].pc = IF "R" \in mask[fired[F.j].fd] \cap fired[F.j].mask THEN "read" ELSE "writetest"
        BY <1>5, <2>2, <1>a, <1>b DEF Dispatch, Frame
      <3> QED
        BY <1>5, <1>b, <3>1, <3>2 DEF Dispatch
    <2> QED
      BY <2>1, <2>2
  <1>6. CASE ReadReturn
    <2>1. frame'[top].pc = "writetest"
      BY <1>6, <1>a, <1>b DEF ReadReturn, Frame
    <2> QED
      BY <1>6, <1>b, <2>1 DEF ReadReturn
  <1>7. CASE WriteTest \/ WriteReturn
    <2>1. CASE frame' = NextEvent
      <3>1. top \in Levels
        BY <1>7, <1>b DEF WriteTest, WriteReturn
      <3>2. frame'[top].pc = "dispatch"
        BY <2>1, <3>1, <1>a DEF NextEvent, Frame
      <3> QED
        BY <1>7, <1>b, <3>2 DEF WriteTest, WriteReturn
    <2>2. CASE WriteTest /\ "W" \in mask[F.cur.fd] \cap F.cur.mask /\ frame' = Goto("write")
      <3>1. frame'[top].pc = "write" /\ frame'[top].cur = F.cur
        BY <2>2, <1>a, <1>b DEF WriteTest, Goto, Frame
      <3> QED
        BY <2>2, <3>1, <1>b DEF WriteTest
    <2> QED
      BY <1>7, <2>1, <2>2 DEF WriteTest, WriteReturn
  <1>8. CASE Timers \/ TimerReturn \/ AfterReturn
    BY <1>8, <1>a, <1>b DEF Timers, TimerReturn, AfterReturn, Goto, Frame
  <1>9. CASE Leave
    <2>1. frame'[top].pc \in {"test", "after"}
      BY <1>9, <1>a, <1>b DEF Leave, NewFrame, Frame
    <2> QED
      BY <1>9, <1>b, <2>1 DEF Leave
  <1> QED
    BY <1>1, <1>2, <1>3, <1>4, <1>5, <1>6, <1>7, <1>8, <1>9 DEF LoopStep

\* The steps that leave the activations alone, but for the deadlines.
LEMMA OthersLead ==
  ASSUME LoopInv, [LoopNext]_loopVars, ~LoopStep, ~PollInterrupted, \A m \in Modes : ~Main(m)
  PROVE  /\ top' = top
         /\ top > 0 => frame'[top].pc = F.pc
         /\ stop => stop'
         /\ (stop' /\ ~stop) => ClientTurn \/ ThreadStops
         /\ live' = live \/ Delete
  <1>a. frame \in [Levels -> Frame] /\ (top > 0 => top \in Levels)
    BY BoundsAssumption DEF LoopInv, LoopTypeOK, Levels
  <1> USE DEF endVars, stackVars, F
  <1>1. CASE \/ \E n \in Resizes : Resize(n)
             \/ \E fd \in Fds, a \in Acts : Register(fd, a) \/ Consume(fd, a)
             \/ \E fd \in Fds : RegisterWriteIfNoneExists(fd)
             \/ \E fd \in Reopens : Reopen(fd)
             \/ \E fd \in Fds, as \in SUBSET Acts \ {{}} : Unregister(fd, as)
             \/ \E d \in Delays : RegisterTimer(d)
             \/ \E t \in timers : UnregisterTimer(t)
    <2>1. UNCHANGED <<top, frame, stop, live>>
      BY <1>1 DEF Resize, Register, Consume, RegisterWriteIfNoneExists, Reopen, Unregister,
                  RegisterTimer, UnregisterTimer
    <2> QED
      BY <2>1
  <1>2. CASE Stop \/ Delete
    BY <1>2 DEF Stop, Delete
  <1>3. CASE ThreadStop \/ \E fd \in Fds, a \in Acts \cup (IF HangUps THEN {"H"} ELSE {}) : BecomeReady(fd, a)
    BY <1>3 DEF ThreadStop, BecomeReady
  <1>4. CASE Tick
    BY <1>4, <1>a DEF Tick, Frame
  <1>5. CASE UNCHANGED loopVars
    BY <1>5 DEF loopVars
  <1> QED
    BY <1>1, <1>2, <1>3, <1>4, <1>5 DEF LoopNext, ClientOp, Environment

\* loopyProcessEvents looks at the mask at the moment it calls: a callback never
\* runs for an action that an earlier one has unregistered, at any nesting.
THEOREM UnregisteredNeverCalled == LoopSpec => NoCallbackAfterUnregister
  <1> DEFINE A == /\ Invoked("read")  => "R" \in mask[frame'[top].cur.fd]
                  /\ Invoked("write") => "W" \in mask[frame'[top].cur.fd]
  <1>1. LoopInv /\ [LoopNext]_loopVars => [A]_loopVars
    <2> SUFFICES ASSUME LoopInv, [LoopNext]_loopVars PROVE A
      OBVIOUS
    <2>1. CASE (LoopStep \/ PollInterrupted) /\ ~Exit
      BY <2>1, StepLeads DEF Invoked
    <2>2. CASE Exit \/ \E m \in Modes : Main(m)
      <3>1. top' # top
        BY <2>2, BoundsAssumption DEF Exit, Main, LoopInv, LoopTypeOK
      <3> QED
        BY <3>1 DEF Invoked
    <2>3. CASE ~LoopStep /\ ~PollInterrupted /\ \A m \in Modes : ~Main(m)
      BY <2>3, OthersLead DEF Invoked
    <2> QED
      BY <2>1, <2>2, <2>3
  <1> QED
    BY <1>1, LoopInvariant, PTL DEF LoopSpec, NoCallbackAfterUnregister

\* loopyStop from a callback is heeded: the loop does not poll again, whatever
\* activations are nested.  (A stop from another thread may come during the
\* poll.)
THEOREM StopIsHeeded ==
  ASSUME ~ThreadStops
  PROVE  LoopSpec => []StopHeeded
  <1>1. LoopInit => StopHeeded
    BY DEF LoopInit, StopHeeded
  <1>2. LoopInv /\ StopHeeded /\ [LoopNext]_loopVars => StopHeeded'
    <2> SUFFICES ASSUME LoopInv, StopHeeded, [LoopNext]_loopVars PROVE StopHeeded'
      OBVIOUS
    <2>1. CASE (LoopStep \/ PollInterrupted) /\ ~Exit
      <3>1. top > 0
        BY <2>1, StepLeads, BoundsAssumption DEF Levels
      <3>2. /\ top' = top /\ stop' = stop /\ F' = frame'[top]
            /\ F'.pc = "enter" => ~stop
            /\ F'.pc = "poll" => F.pc = "enter"
        BY <2>1, StepLeads DEF F
      <3> QED
        BY <3>1, <3>2 DEF StopHeeded
    <2>2. CASE Exit
      <3>1. top' = top - 1 /\ top \in Levels /\ frame' = [frame EXCEPT ![top] = NoFrame]
        BY <2>2, Running DEF Exit, At
      <3>2. top' > 0 => top' \in Levels /\ top' < top
        BY <3>1, BoundsAssumption DEF Levels
      <3>3. top' > 0 => frame'[top'].pc \in Callbacks
        BY <3>1, <3>2 DEF LoopInv, StackInv, LoopTypeOK
      <3> QED
        BY <3>3 DEF StopHeeded, F, Callbacks
    <2>3. CASE \E m \in Modes : Main(m)
      BY <2>3 DEF Main, StopHeeded
    <2>4. CASE ~LoopStep /\ ~PollInterrupted /\ \A m \in Modes : ~Main(m)
      BY <2>4, OthersLead DEF StopHeeded, ClientTurn, Callbacks, F
    <2> QED
      BY <2>1, <2>2, <2>3, <2>4
  <1> QED
    BY <1>1, <1>2, LoopInvariant, PTL DEF LoopSpec

\* What every step does to the stops that callbacks have asked for.
AskedInv ==
  /\ asked \subseteq 1 .. top
  /\ At("exit") => stop
  /\ StopNotForgotten

\* A step of the running activation asks for nothing.
LEMMA StepKeepsAsked ==
  ASSUME LoopInv, AskedInv, (LoopStep \/ PollInterrupted) /\ ~Exit
  PROVE  AskedInv'
  <1>1. /\ top \in Levels /\ top' = top /\ stop' = stop /\ F' = frame'[top]
        /\ F'.pc = "enter" => ~stop
        /\ F'.pc = "poll" => F.pc = "enter"
        /\ F'.pc = "exit" => stop
    BY StepLeads DEF F
  <1>2. asked' = asked
    BY DEF LoopStep, LoopTest, BeforeReturn, Enter, PollEvents, PollTimeout, PollInterrupted, Dispatch,
           ReadReturn, WriteTest, WriteReturn, Timers, TimerReturn, Leave, AfterReturn, endVars
  <1> QED
    BY <1>1, <1>2 DEF AskedInv, StopNotForgotten, At

\* loopyDo returns, with the flag set, to whoever has called loopyMain.
LEMMA ExitKeepsAsked ==
  ASSUME LoopInv, AskedInv, Exit
  PROVE  AskedInv'
  <1>1. /\ top \in Levels /\ top' = top - 1 /\ frame' = [frame EXCEPT ![top] = NoFrame]
        /\ stop /\ stop' = stop /\ asked' = asked \ {top}
    BY Running DEF Exit, At, AskedInv
  <1>2. top' > 0 => top' \in Levels /\ top' < top /\ top' # top
    BY <1>1, BoundsAssumption DEF Levels
  <1>3. top' > 0 => F'.pc \in Callbacks
    BY <1>1, <1>2 DEF LoopInv, StackInv, LoopTypeOK, F
  <1>4. asked' \subseteq 1 .. top'
    BY <1>1, BoundsAssumption DEF AskedInv, Levels
  <1> QED
    BY <1>1, <1>3, <1>4 DEF AskedInv, StopNotForgotten, At, Callbacks

\* loopyMain is called: the new activation has not been asked yet.
LEMMA MainKeepsAsked ==
  ASSUME LoopInv, AskedInv, NEW m \in Modes, Main(m)
  PROVE  AskedInv'
  <1>1. top \in 0 .. MaxDepth /\ top' = top + 1 /\ asked' = asked /\ top < MaxDepth
    BY DEF Main, LoopInv, LoopTypeOK
  <1>2. F'.pc = "test"
    <2>1. top + 1 \in Levels
      BY <1>1, BoundsAssumption DEF Levels
    <2> QED
      BY <1>1, <2>1 DEF Main, F, NewFrame, LoopInv, LoopTypeOK
  <1>3. asked' \subseteq 1 .. top' /\ top' \notin asked'
    BY <1>1, BoundsAssumption DEF AskedInv
  <1> QED
    BY <1>2, <1>3 DEF AskedInv, StopNotForgotten, At

\* Everything else keeps the stack, and asks from a callback if at all.
LEMMA OthersKeepAsked ==
  ASSUME LoopInv, AskedInv, [LoopNext]_loopVars, ~LoopStep, ~PollInterrupted, \A m \in Modes : ~Main(m)
  PROVE  AskedInv'
  <1>1. /\ top' = top /\ (top > 0 => F'.pc = F.pc) /\ (stop => stop')
        /\ (live' = live \/ Delete)
    BY OthersLead DEF F
  <1>2. asked' = asked \/ (asked' = 1 .. top /\ stop' /\ ClientTurn)
    <2> USE DEF endVars
    <2>1. CASE \/ \E n \in Resizes : Resize(n)
               \/ \E fd \in Fds, a \in Acts : Register(fd, a) \/ Consume(fd, a)
               \/ \E fd \in Fds : RegisterWriteIfNoneExists(fd)
               \/ \E fd \in Reopens : Reopen(fd)
               \/ \E fd \in Fds, as \in SUBSET Acts \ {{}} : Unregister(fd, as)
               \/ \E d \in Delays : RegisterTimer(d)
               \/ \E t \in timers : UnregisterTimer(t)
      BY <2>1 DEF Resize, Register, Consume, RegisterWriteIfNoneExists, Reopen, Unregister,
                  RegisterTimer, UnregisterTimer
    <2>2. CASE Stop \/ Delete
      BY <2>2 DEF Stop, Delete
    <2>3. CASE \/ ThreadStop \/ Tick
               \/ \E fd \in Fds, a \in Acts \cup (IF HangUps THEN {"H"} ELSE {}) : BecomeReady(fd, a)
      BY <2>3 DEF ThreadStop, BecomeReady, Tick
    <2>4. CASE UNCHANGED loopVars
      BY <2>4 DEF loopVars
    <2> QED
      BY <2>1, <2>2, <2>3, <2>4 DEF LoopNext, ClientOp, Environment
  <1>3. asked' \subseteq 1 .. top'
    BY <1>1, <1>2 DEF AskedInv
  <1>4. At("exit")' => stop'
    <2>1. CASE Delete
      BY <2>1, <1>1 DEF Delete, ClientTurn, At, Callbacks
    <2>2. CASE ~Delete
      BY <2>2, <1>1 DEF At, AskedInv
    <2> QED
      BY <2>1, <2>2
  <1>5. StopNotForgotten'
    BY <1>1, <1>2 DEF AskedInv, StopNotForgotten, ClientTurn, Callbacks
  <1> QED
    BY <1>3, <1>4, <1>5 DEF AskedInv

\* An activation that a callback asked to stop never polls again, at any nesting
\* and whatever other threads do: a loopyMain called in between resets the flag
\* but returns only when it is set again.
THEOREM StopIsRemembered == LoopSpec => []StopNotForgotten
  <1>1. LoopInit => AskedInv
    BY DEF LoopInit, AskedInv, StopNotForgotten, At
  <1>2. LoopInv /\ AskedInv /\ [LoopNext]_loopVars => AskedInv'
    BY StepKeepsAsked, ExitKeepsAsked, MainKeepsAsked, OthersKeepAsked
  <1>3. AskedInv => StopNotForgotten
    BY DEF AskedInv
  <1> QED
    BY <1>1, <1>2, <1>3, LoopInvariant, PTL DEF LoopSpec

\* Where a deferred deletion may be pending, and the loop still be alive.
DeferredInv ==
  /\ LoopOutlivesFrames
  /\ pendingDelete => top <= 1

\* loopyDelete from a read, write or timer callback never frees the loop under
\* loopyMain, although other callbacks run it nested: processingDepth is not zero
\* there, so the deletion is deferred until loopyDo returns.  (Deletion from a
\* sleep callback or while loopyMain is nested is excluded: there it does.)
THEOREM DeletionIsDeferred ==
  ASSUME ~NestedDelete, DeleteIn \subseteq {"read", "write", "timer"}
  PROVE  LoopSpec => []LoopOutlivesFrames
  <1>1. LoopInit => DeferredInv
    BY DEF LoopInit, DeferredInv, LoopOutlivesFrames
  <1>2. LoopInv /\ DeferredInv /\ [LoopNext]_loopVars => DeferredInv'
    <2> SUFFICES ASSUME LoopInv, DeferredInv, [LoopNext]_loopVars PROVE DeferredInv'
      OBVIOUS
    <2> USE DEF DeferredInv, LoopOutlivesFrames
    <2>a. top \in 0 .. MaxDepth /\ frame \in [Levels -> Frame] /\ MaxDepth \in Nat
      BY BoundsAssumption DEF LoopInv, LoopTypeOK
    <2>1. CASE (LoopStep \/ PollInterrupted) /\ ~Exit
      <3>1. top' = top /\ live' = live
        BY <2>1, StepLeads
      <3>2. pendingDelete' = pendingDelete
        BY <2>1 DEF LoopStep, LoopTest, BeforeReturn, Enter, PollEvents, PollTimeout, PollInterrupted,
           Dispatch, ReadReturn, WriteTest, WriteReturn, Timers, TimerReturn, Leave, AfterReturn, endVars
      <3> QED
        BY <3>1, <3>2
    <2>2. CASE Exit
      <3>1. top' = top - 1 /\ top > 0 /\ (pendingDelete \/ live') /\ pendingDelete' = pendingDelete
        BY <2>2 DEF Exit, At
      <3>2. CASE pendingDelete
        BY <3>1, <3>2, <2>a
      <3>3. CASE ~pendingDelete
        BY <3>1, <3>3
      <3> QED
        BY <3>2, <3>3
    <2>3. CASE \E m \in Modes : Main(m)
      <3>1. top' = top + 1 /\ live' /\ pendingDelete' = pendingDelete /\ (top > 0 => ~pendingDelete)
        BY <2>3 DEF Main, ClientTurn
      <3> QED
        BY <3>1, <2>a
    <2>4. CASE Delete
      <3>0. top <= 1 /\ top' = top
        BY <2>4, <2>a DEF Delete, stackVars
      <3>1. CASE top = 0
        BY <2>4, <3>0, <3>1
      <3>2. CASE top = 1
        <4>0. F.pc \in DeleteIn /\ F = frame[1]
          BY <2>4, <3>2 DEF Delete, F
        <4>1. frame[1].pc \in Inside
          BY <4>0 DEF Inside
        <4>2. ProcessingIn(frame, top) = {1}
          BY <3>2, <4>1 DEF ProcessingIn
        <4>3. depth = 1
          BY <4>2, DepthCounts, FS_Singleton DEF LoopInv
        <4> QED
          BY <2>4, <4>3, <3>2, <3>0 DEF Delete
      <3> QED
        BY <2>a, <3>0, <3>1, <3>2
    <2>5. CASE ~LoopStep /\ ~PollInterrupted /\ (\A m \in Modes : ~Main(m)) /\ ~Delete
      <3>1. top' = top /\ live' = live
        BY <2>5, OthersLead
      <3>2. pendingDelete' = pendingDelete
        <4> USE DEF endVars
        <4>1. CASE \/ \E n \in Resizes : Resize(n)
                   \/ \E fd \in Fds, a \in Acts : Register(fd, a) \/ Consume(fd, a)
                   \/ \E fd \in Fds : RegisterWriteIfNoneExists(fd)
                   \/ \E fd \in Reopens : Reopen(fd)
                   \/ \E fd \in Fds, as \in SUBSET Acts \ {{}} : Unregister(fd, as)
                   \/ \E d \in Delays : RegisterTimer(d)
                   \/ \E t \in timers : UnregisterTimer(t)
          BY <4>1 DEF Resize, Register, Consume, RegisterWriteIfNoneExists, Reopen, Unregister,
                      RegisterTimer, UnregisterTimer
        <4>2. CASE \/ Stop \/ ThreadStop \/ Tick
                   \/ \E fd \in Fds, a \in Acts \cup (IF HangUps THEN {"H"} ELSE {}) : BecomeReady(fd, a)
          BY <4>2 DEF Stop, ThreadStop, BecomeReady, Tick
        <4>3. CASE UNCHANGED loopVars
          BY <4>3 DEF loopVars
        <4> QED
          BY <2>5, <4>1, <4>2, <4>3 DEF LoopNext, ClientOp, Environment
      <3> QED
        BY <3>1, <3>2
    <2> QED
      BY <2>1, <2>2, <2>3, <2>4, <2>5
  <1>3. DeferredInv => LoopOutlivesFrames
    BY DEF DeferredInv
  <1> QED
    BY <1>1, <1>2, <1>3, LoopInvariant, PTL DEF LoopSpec
=============================================================================
