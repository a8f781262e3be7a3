------------------------ MODULE LoopyAdaptersProofs -------------------------
(***************************************************************************)
(* Proofs about the adapters other than epoll: io_uring operations, their  *)
(* pools of buffers and their readiness, event ports and kqueue.           *)
(***************************************************************************)
EXTENDS LoopyHandles, LoopyLemmas

-----------------------------------------------------------------------------
(* Event ports                                                              *)

EvTypeOK ==
  /\ evMask \in [EvFds -> SUBSET EvActions]
  /\ evAssoc \in [EvFds -> SUBSET EvActions]
  /\ evPending \in [EvFds -> SUBSET EvActions]

EvInv == EvTypeOK /\ PortArmed

\* No more descriptors are pending when each of them was pending before, or
\* has just been reported.
LEMMA EvPendingRoom ==
  ASSUME NEW S \in SUBSET EvFds, NEW T \in SUBSET S, Cardinality(S) <= EvBatch
  PROVE  Cardinality(T) <= EvBatch
<1>1. IsFiniteSet(S)
  BY FS_Subset, EvAssumption
<1>2. IsFiniteSet(T) /\ Cardinality(T) <= Cardinality(S)
  BY <1>1, FS_Subset
<1>3. Cardinality(T) \in Nat /\ Cardinality(S) \in Nat
  BY <1>1, <1>2, FS_CardinalityType
<1> QED  BY <1>2, <1>3, EvAssumption

LEMMA EvStep ==
  ASSUME EvInv, [EvNext]_evVars
  PROVE  EvInv'
<1> DEFINE S == {fd \in EvFds : IsPending(fd)}
           ArmedPort(fd) == /\ evMask[fd] \subseteq evAssoc[fd] \union evPending[fd]
                            /\ evAssoc[fd] = {} \/ ~IsPending(fd)
<1>0. EvTypeOK /\ (\A fd \in EvFds : ArmedPort(fd)) /\ Cardinality(S) <= EvBatch /\ S \in SUBSET EvFds
  BY DEF EvInv, PortArmed
<1>a. ASSUME EvTypeOK', \A fd \in EvFds : ArmedPort(fd)', \A fd \in EvFds : IsPending(fd)' => IsPending(fd)
      PROVE  EvInv'
  <2>1. S' \in SUBSET S
    BY <1>a
  <2>2. Cardinality(S') <= EvBatch
    BY <1>0, <2>1, EvPendingRoom
  <2> QED  BY <1>a, <2>2 DEF EvInv, PortArmed
<1>1. ASSUME NEW fd \in EvFds, NEW mask \in SUBSET EvActions \ {{}}, RegisterPort(fd, mask)
      PROVE  EvInv'
  BY <1>0, <1>1, <1>a DEF RegisterPort, PortAddEvent, EvTypeOK, IsPending
<1>2. ASSUME NEW fd \in EvFds, NEW mask \in SUBSET EvActions \ {{}}, UnregisterPort(fd, mask)
      PROVE  EvInv'
  BY <1>0, <1>2, <1>a DEF UnregisterPort, PortDelEvent, EvTypeOK, IsPending
<1>3. ASSUME NEW fd \in EvFds, CloseFd(fd)
      PROVE  EvInv'
  BY <1>0, <1>3, <1>a DEF CloseFd, EvTypeOK, IsPending
<1>4. ASSUME NEW fd \in EvFds, OpenFd(fd)
      PROVE  EvInv'
  BY <1>0, <1>4, <1>a DEF OpenFd, EvTypeOK, IsPending
<1>5. ASSUME NEW fired \in SUBSET EvFds, PollPort(fired)
      PROVE  EvInv'
  <2>1. /\ Cardinality(fired) <= EvBatch
        /\ evAssoc' = [fd \in EvFds |-> IF fd \in fired THEN {} ELSE Reassociated[fd]]
        /\ evPending' = [fd \in EvFds |-> IF fd \in fired THEN Reassociated[fd] ELSE {}]
        /\ evMask' = evMask
    BY <1>5 DEF PollPort
  <2>2. \A fd \in EvFds : Reassociated[fd] \in SUBSET EvActions /\ evMask[fd] \subseteq Reassociated[fd]
    BY <1>0 DEF Reassociated, EvTypeOK, IsPending
  <2>3. EvTypeOK'
    BY <1>0, <2>1, <2>2 DEF EvTypeOK
  <2>4. \A fd \in EvFds : ArmedPort(fd)'
    BY <2>1, <2>2 DEF IsPending
  <2>5. S' \in SUBSET fired
    BY <2>1 DEF IsPending
  <2>6. Cardinality(S') <= EvBatch
    BY <2>1, <2>5, EvPendingRoom
  <2> QED  BY <2>3, <2>4, <2>6 DEF EvInv, PortArmed
<1>6. CASE UNCHANGED <<evMask, evAssoc, evPending>>
  BY <1>0, <1>6, <1>a DEF EvTypeOK, IsPending
<1> QED  BY <1>1, <1>2, <1>3, <1>4, <1>5, <1>6 DEF EvNext, evVars, UnregisterAborts, PollAborts

LEMMA EvInitOK == EvInit => EvInv
<1> SUFFICES ASSUME EvInit
             PROVE  EvInv
  OBVIOUS
<1>1. {fd \in EvFds : IsPending(fd)} = {}
  BY DEF EvInit, NoActions, IsPending
<1>2. Cardinality({fd \in EvFds : IsPending(fd)}) <= EvBatch
  BY <1>1, FS_EmptySet, EvAssumption
<1> QED  BY <1>2 DEF EvInit, NoActions, EvInv, EvTypeOK, PortArmed

-----------------------------------------------------------------------------
(* kqueue                                                                   *)

KqInv ==
  /\ kqMask \in [KqFds -> SUBSET KqActions]
  /\ kqFilters \in [KqFds -> SUBSET KqActions]
  /\ kqFired \in Seq(KqFds \X KqActions)
  /\ FiltersArmed

LEMMA KqStep ==
  ASSUME KqInv, [KqNext]_kqVars
  PROVE  KqInv'
<1>0. /\ kqMask \in [KqFds -> SUBSET KqActions]
      /\ kqFilters \in [KqFds -> SUBSET KqActions]
      /\ kqFired \in Seq(KqFds \X KqActions)
      /\ \A fd \in KqFds : kqMask[fd] \subseteq kqFilters[fd]
      /\ IsInjective(kqFired) /\ Len(kqFired) <= KqSetSize
  BY DEF KqInv, FiltersArmed
<1>a. ASSUME kqMask' \in [KqFds -> SUBSET KqActions], kqFilters' \in [KqFds -> SUBSET KqActions],
             \A fd \in KqFds : kqMask'[fd] \subseteq kqFilters'[fd], kqFired' = kqFired
      PROVE  KqInv'
  BY <1>0, <1>a DEF KqInv, FiltersArmed
<1>1. ASSUME NEW fd \in KqFds, NEW mask \in KqMasks, UnregisterKqueue(fd, mask)
      PROVE  KqInv'
  <2>1. KqDeleted(fd, mask) \subseteq mask
    BY DEF KqDeleted
  <2> QED  BY <1>0, <1>1, <1>a, <2>1 DEF UnregisterKqueue
<1>2. ASSUME NEW fd \in KqFds, NEW mask \in KqMasks, NEW refused \in {{}} \union KqMasks,
             RegisterKqueue(fd, mask, refused)
      PROVE  KqInv'
  <2> DEFINE added == CASE mask \intersect refused = {} -> mask
                        [] "READ" \in mask \intersect refused -> {}
                        [] OTHER -> mask \ {"WRITE"}
  <2>1. mask \subseteq KqActions
    BY DEF KqMasks
  <2>2. added \subseteq mask /\ (mask \intersect refused = {} => added = mask)
    OBVIOUS
  <2>3. kqFilters' = [kqFilters EXCEPT ![fd] = @ \union added]
    BY <1>2 DEF RegisterKqueue
  <2>4. /\ kqMask' = IF mask \intersect refused = {} THEN [kqMask EXCEPT ![fd] = @ \union mask] ELSE kqMask
        /\ kqFired' = kqFired
    BY <1>2 DEF RegisterKqueue
  <2> HIDE DEF added
  <2>5. CASE mask \intersect refused = {}
    BY <1>0, <1>a, <2>1, <2>2, <2>3, <2>4, <2>5
  <2>6. CASE mask \intersect refused # {}
    BY <1>0, <1>a, <2>1, <2>2, <2>3, <2>4, <2>6
  <2> QED  BY <2>5, <2>6
<1>3. ASSUME NEW fd \in KqFds, CloseKqueue(fd)
      PROVE  KqInv'
  BY <1>0, <1>3, <1>a DEF CloseKqueue
<1>4. CASE PollKqueue
  <2>1. PICK ready \in SUBSET {e \in KqFds \X KqActions : e[2] \in kqFilters[e[1]]} :
          Cardinality(ready) \in 1 .. KqSetSize /\ kqFired' \in SetToSeqs(ready)
    BY <1>4 DEF PollKqueue
  <2>2. kqMask' = kqMask /\ kqFilters' = kqFilters
    BY <1>4 DEF PollKqueue
  <2> DEFINE n == Cardinality(ready)
  <2>3. kqFired' \in [1 .. n -> ready] /\ IsInjective(kqFired') /\ n \in 1 .. KqSetSize
    <3>1. /\ kqFired' \in [1 .. n -> ready] /\ n \in 1 .. KqSetSize
          /\ \A i, j \in 1 .. n : i # j => kqFired'[i] # kqFired'[j]
      BY <2>1 DEF SetToSeqs
    <3>2. DOMAIN kqFired' = 1 .. n
      BY <3>1
    <3> QED  BY <3>1, <3>2 DEF IsInjective
  <2> HIDE DEF n
  <2>4. ready \subseteq KqFds \X KqActions /\ n \in Nat /\ n <= KqSetSize
    BY <2>3, KqAssumption
  <2>5. kqFired' \in Seq(KqFds \X KqActions) /\ Len(kqFired') = n
    BY <2>3, <2>4
  <2> QED  BY <1>0, <2>2, <2>3, <2>4, <2>5 DEF KqInv, FiltersArmed
<1>5. CASE DispatchKqueue
  <2>1. kqFired # << >> /\ kqFired' = Tail(kqFired) /\ kqMask' = kqMask /\ kqFilters' = kqFilters
    BY <1>5 DEF DispatchKqueue
  <2> DEFINE n == Len(kqFired)
  <2>2. n \in Nat \ {0} /\ DOMAIN kqFired = 1 .. n
    BY <1>0, <2>1
  <2>3. /\ kqFired' \in Seq(KqFds \X KqActions) /\ Len(kqFired') = n - 1 /\ DOMAIN kqFired' = 1 .. n - 1
        /\ \A k \in 1 .. n - 1 : kqFired'[k] = kqFired[k + 1]
    BY <1>0, <2>1, <2>2
  <2>4. \A j, k \in 1 .. n : kqFired[j] = kqFired[k] => j = k
    BY <1>0, <2>2 DEF IsInjective
  <2>5. \A j, k \in 1 .. n - 1 : kqFired'[j] = kqFired'[k] => j = k
    <3> SUFFICES ASSUME NEW j \in 1 .. n - 1, NEW k \in 1 .. n - 1, kqFired'[j] = kqFired'[k]
                 PROVE  j = k
      OBVIOUS
    <3>1. j + 1 \in 1 .. n /\ k + 1 \in 1 .. n
      BY <2>2
    <3>2. kqFired[j + 1] = kqFired[k + 1]
      BY <2>3
    <3>3. j + 1 = k + 1
      BY <2>4, <3>1, <3>2
    <3> QED  BY <2>2, <3>3
  <2>6. IsInjective(kqFired')
    BY <2>3, <2>5 DEF IsInjective
  <2>7. Len(kqFired') <= KqSetSize
    BY <1>0, <2>2, <2>3, KqAssumption
  <2> QED  BY <1>0, <2>1, <2>3, <2>6, <2>7 DEF KqInv, FiltersArmed
<1>6. CASE UNCHANGED kqVars
  BY <1>0, <1>6, <1>a DEF kqVars
<1> QED  BY <1>1, <1>2, <1>3, <1>4, <1>5, <1>6 DEF KqNext

LEMMA KqInitOK == KqInit => KqInv
<1> SUFFICES ASSUME KqInit
             PROVE  KqInv
  OBVIOUS
<1>1. kqFired = << >> /\ Len(kqFired) <= KqSetSize /\ kqFired \in Seq(KqFds \X KqActions) /\ DOMAIN kqFired = {}
  BY KqAssumption DEF KqInit
<1>2. IsInjective(kqFired)
  BY <1>1 DEF IsInjective
<1> QED  BY <1>1, <1>2 DEF KqInit, KqInv, FiltersArmed

-----------------------------------------------------------------------------
(* Readiness under io_uring                                                 *)

\* What the operations on bags do to their elements.
LEMMA BagUnionOK ==
  ASSUME NEW B, NEW C, IsABag(B), IsABag(C)
  PROVE  IsABag(B (+) C) /\ DOMAIN (B (+) C) = DOMAIN B \cup DOMAIN C
<1>1. /\ \A e \in DOMAIN B : B[e] \in Nat /\ B[e] > 0
      /\ \A e \in DOMAIN C : C[e] \in Nat /\ C[e] > 0
  BY DEF IsABag
<1>2. DOMAIN (B (+) C) = DOMAIN B \cup DOMAIN C
  BY DEF (+)
<1>3. ASSUME NEW e \in DOMAIN B \cup DOMAIN C
      PROVE  (B (+) C)[e] \in Nat /\ (B (+) C)[e] > 0
  <2> DEFINE b == IF e \in DOMAIN B THEN B[e] ELSE 0
             c == IF e \in DOMAIN C THEN C[e] ELSE 0
  <2>1. (B (+) C)[e] = b + c
    BY DEF (+)
  <2>2. b \in Nat /\ c \in Nat /\ (b > 0 \/ c > 0)
    BY <1>1
  <2> HIDE DEF b, c
  <2> QED  BY <2>1, <2>2
<1>4. (B (+) C) = [e \in DOMAIN (B (+) C) |-> (B (+) C)[e]]
  BY DEF (+)
<1> QED  BY <1>2, <1>3, <1>4 DEF IsABag

LEMMA BagOneOK ==
  ASSUME NEW x
  PROVE  IsABag(SetToBag({x})) /\ DOMAIN SetToBag({x}) = {x}
  BY DEF IsABag, SetToBag

LEMMA BagLessOK ==
  ASSUME NEW B, IsABag(B), NEW x
  PROVE  /\ IsABag(B (-) SetToBag({x}))
         /\ DOMAIN (B (-) SetToBag({x})) \subseteq DOMAIN B
         /\ \A e \in DOMAIN B : e # x => e \in DOMAIN (B (-) SetToBag({x}))
<1> DEFINE C == SetToBag({x})
           D == [e \in DOMAIN B |-> IF e \in DOMAIN C THEN B[e] - C[e] ELSE B[e]]
           R == B (-) C
<1>1. /\ \A e \in DOMAIN B : B[e] \in Nat /\ B[e] > 0
      /\ DOMAIN C = {x} /\ C[x] = 1
  BY DEF IsABag, SetToBag
<1>2. R = [e \in {d \in DOMAIN D : D[d] > 0} |-> D[e]]
  BY Zenon DEF (-)
<1>3. \A e \in DOMAIN B : D[e] \in Int /\ (e # x => D[e] > 0)
  BY <1>1
<1>4. DOMAIN D = DOMAIN B
  OBVIOUS
<1> HIDE DEF C, D
<1>5. DOMAIN R = {d \in DOMAIN B : D[d] > 0} /\ \A e \in DOMAIN R : R[e] = D[e]
  BY <1>2, <1>4
<1>6. \A e \in DOMAIN R : R[e] \in {n \in Nat : n > 0}
  BY <1>3, <1>5
<1>7. R = [e \in DOMAIN R |-> R[e]]
  BY <1>2
<1>8. R \in [DOMAIN R -> {n \in Nat : n > 0}]
  <2> HIDE DEF R
  <2> QED  BY <1>6, <1>7
<1> QED  BY <1>3, <1>5, <1>8 DEF IsABag, C

UpEntry == [op : {"add", "remove"}, fd : UpFds, mask : SUBSET Events]
UpCompletion == UpFds \X SUBSET (Events \cup Canceled)

RingOK(ring) ==
  /\ ring.sq \in Seq(UpEntry) /\ ring.cq \in Seq(UpCompletion)
  /\ IsABag(ring.flight) /\ DOMAIN ring.flight \subseteq UpFds \X SUBSET Events

\* No descriptor loses what watches it, and no completion is lost.
Keeps(old, new) ==
  /\ Len(new.cq) >= Len(old.cq)
  /\ \A f \in UpFds, mask \in SUBSET Events : Armed(old, f, mask) => Armed(new, f, mask)

UpInv ==
  /\ upMask \in [UpFds -> SUBSET Events] /\ upReady \in [UpFds -> SUBSET Events]
  /\ RingOK(upRing)
  /\ upLeft \in Nat /\ (upPoll = "reap" => upLeft # 0 /\ upLeft <= Len(upRing.cq))
  /\ PollArmed

LEMMA KeepsTwice ==
  ASSUME NEW R, NEW S, NEW T, RingOK(R), RingOK(S), RingOK(T), Keeps(R, S), Keeps(S, T)
  PROVE  Keeps(R, T)
<1>1. Len(R.cq) \in Nat /\ Len(S.cq) \in Nat /\ Len(T.cq) \in Nat
  BY DEF RingOK
<1>2. Len(T.cq) >= Len(R.cq)
  BY <1>1 DEF Keeps
<1> QED  BY <1>2 DEF Keeps

\* The kernel takes an entry: a request is added, or one is removed and
\* completes.
LEMMA TakenKeeps ==
  ASSUME NEW R, RingOK(R), R.sq # << >>, NEW S \in TakenPoll(R)
  PROVE  RingOK(S) /\ Keeps(R, S)
<1> DEFINE e == Head(R.sq)
<1>1. /\ e \in UpEntry /\ Tail(R.sq) \in Seq(UpEntry)
      /\ Range(R.sq) = Range(Tail(R.sq)) \cup {e}
  BY SplitList DEF RingOK
<1>2. /\ IsABag(R.flight) /\ DOMAIN R.flight \subseteq UpFds \X SUBSET Events
      /\ R.cq \in Seq(UpCompletion) /\ Len(R.cq) \in Nat
  BY DEF RingOK
<1>3. e.fd \in UpFds /\ e.mask \in SUBSET Events
  BY <1>1 DEF UpEntry
<1> HIDE DEF e
<1>4. CASE e.op = "add"
  <2> DEFINE x == <<e.fd, e.mask>>
  <2>1. S.sq = Tail(R.sq) /\ S.flight = R.flight (+) SetToBag({x}) /\ S.cq = R.cq
    BY <1>4 DEF TakenPoll, e
  <2>2. IsABag(S.flight) /\ DOMAIN S.flight = DOMAIN R.flight \cup {x}
    <3>1. IsABag(SetToBag({x})) /\ DOMAIN SetToBag({x}) = {x}
      BY BagOneOK
    <3>2. /\ IsABag(R.flight (+) SetToBag({x}))
          /\ DOMAIN (R.flight (+) SetToBag({x})) = DOMAIN R.flight \cup DOMAIN SetToBag({x})
      BY <1>2, <3>1, BagUnionOK
    <3> QED  BY <2>1, <3>1, <3>2
  <2>3. RingOK(S)
    <3>1. x \in UpFds \X SUBSET Events
      BY <1>3
    <3> HIDE DEF x
    <3>2. DOMAIN S.flight \subseteq UpFds \X SUBSET Events
      BY <1>2, <2>2, <3>1
    <3> QED  BY <1>1, <1>2, <2>1, <2>2, <3>2 DEF RingOK
  <2>4. ASSUME NEW f \in UpFds, NEW mask \in SUBSET Events, Armed(R, f, mask)
        PROVE  Armed(S, f, mask)
    <3>1. CASE InKernel(R, f, mask)
      BY <2>2, <3>1 DEF Armed, InKernel, BagToSet
    <3>2. CASE \E d \in Range(R.sq) : d.op = "add" /\ d.fd = f /\ mask \subseteq d.mask
      <4>1. PICK d \in Range(R.sq) : d.op = "add" /\ d.fd = f /\ mask \subseteq d.mask
        BY <3>2
      <4>2. CASE d = e
        <5>1. x \in DOMAIN S.flight /\ x[1] = f /\ mask \subseteq x[2]
          BY <2>2, <4>1, <4>2
        <5> QED  BY <5>1 DEF Armed, InKernel, BagToSet
      <4>3. CASE d \in Range(Tail(R.sq))
        BY <2>1, <4>1, <4>3 DEF Armed, InQueues
      <4> QED  BY <1>1, <4>2, <4>3
    <3>3. CASE \E c \in Range(R.cq) : c[1] = f
      BY <2>1, <3>3 DEF Armed, InQueues
    <3> QED  BY <2>4, <3>1, <3>2, <3>3 DEF Armed, InQueues
  <2> QED  BY <1>2, <2>1, <2>3, <2>4 DEF Keeps
<1>5. CASE e.op # "add"
  <2>0. ASSUME NEW f \in UpFds, NEW mask \in SUBSET Events, InQueues(R, f, mask),
               S.sq = Tail(R.sq), Range(R.cq) \subseteq Range(S.cq)
        PROVE  Armed(S, f, mask)
    BY <1>1, <1>5, <2>0 DEF Armed, InQueues
  <2>1. CASE PollsOf(R, e.fd) = {}
    <3>1. S.sq = Tail(R.sq) /\ S.flight = R.flight /\ S.cq = R.cq
      BY <1>5, <2>1 DEF TakenPoll, e
    <3>2. RingOK(S)
      BY <1>1, <1>2, <3>1 DEF RingOK
    <3>3. \A f \in UpFds, mask \in SUBSET Events : Armed(R, f, mask) => Armed(S, f, mask)
      BY <2>0, <3>1 DEF Armed, InKernel
    <3> QED  BY <1>2, <3>1, <3>2, <3>3 DEF Keeps
  <2>2. CASE PollsOf(R, e.fd) # {}
    <3> DEFINE c == <<e.fd, Canceled>>
    <3>1. PICK r \in PollsOf(R, e.fd) :
            S = [sq |-> Tail(R.sq), flight |-> R.flight (-) SetToBag({r}), cq |-> Append(R.cq, c)]
      BY <1>5, <2>2 DEF TakenPoll, e
    <3>2. S.sq = Tail(R.sq) /\ S.flight = R.flight (-) SetToBag({r}) /\ S.cq = Append(R.cq, c)
      BY <3>1
    <3>3. c \in UpCompletion /\ c[1] = e.fd
      BY <1>3 DEF UpCompletion
    <3> HIDE DEF c
    <3>4. S.cq \in Seq(UpCompletion) /\ Len(S.cq) = Len(R.cq) + 1 /\ Range(S.cq) = Range(R.cq) \cup {c}
      BY <1>2, <3>2, <3>3, AppendList
    <3>5. /\ IsABag(S.flight) /\ DOMAIN S.flight \subseteq DOMAIN R.flight
          /\ \A d \in DOMAIN R.flight : d # r => d \in DOMAIN S.flight
      BY <1>2, <3>2, BagLessOK
    <3>6. RingOK(S)
      BY <1>1, <1>2, <3>2, <3>4, <3>5 DEF RingOK
    <3>7. ASSUME NEW f \in UpFds, NEW mask \in SUBSET Events, InKernel(R, f, mask)
          PROVE  Armed(S, f, mask)
      <4>1. PICK d \in DOMAIN R.flight : d[1] = f /\ mask \subseteq d[2]
        BY <3>7 DEF InKernel, BagToSet
      <4>2. CASE d = r
        <5>1. c[1] = f /\ c \in Range(S.cq)
          BY <3>3, <3>4, <4>1, <4>2 DEF PollsOf
        <5> QED  BY <5>1 DEF Armed, InQueues
      <4>3. CASE d # r
        BY <3>5, <4>1, <4>3 DEF Armed, InKernel, BagToSet
      <4> QED  BY <4>2, <4>3
    <3>8. \A f \in UpFds, mask \in SUBSET Events : Armed(R, f, mask) => Armed(S, f, mask)
      BY <2>0, <3>2, <3>4, <3>7 DEF Armed
    <3>9. Len(S.cq) >= Len(R.cq)
      BY <1>2, <3>4
    <3> QED  BY <3>6, <3>8, <3>9 DEF Keeps
  <2> QED  BY <2>1, <2>2
<1> QED  BY <1>4, <1>5

\* What ioUringAddPoll and ioUringRemovePoll leave.
LEMMA SubmitKeeps ==
  ASSUME NEW R, RingOK(R), NEW e \in UpEntry, NEW o \in SubmitPoll(R, e)
  PROVE  /\ RingOK(o.ring) /\ Keeps(R, o.ring) /\ (o.ok => o.queued)
         /\ o.queued /\ e.op = "add" => Armed(o.ring, e.fd, e.mask)
<1> DEFINE N == [sq |-> Append(R.sq, e), flight |-> R.flight, cq |-> R.cq]
<1>0. Len(R.cq) \in Nat /\ e.fd \in UpFds /\ e.mask \in SUBSET Events
  BY DEF RingOK, UpEntry
<1>1. /\ N.sq \in Seq(UpEntry) /\ Range(N.sq) = Range(R.sq) \cup {e} /\ N.sq # << >>
      /\ N.flight = R.flight /\ N.cq = R.cq
  <2>1. /\ Append(R.sq, e) \in Seq(UpEntry) /\ Len(Append(R.sq, e)) = Len(R.sq) + 1
        /\ Range(Append(R.sq, e)) = Range(R.sq) \cup {e} /\ Len(R.sq) \in Nat
    BY AppendList DEF RingOK
  <2>2. Append(R.sq, e) # << >>
    BY <2>1
  <2> QED  BY <2>1, <2>2
<1> HIDE DEF N
<1>2. RingOK(N)
  BY <1>1 DEF RingOK
<1>3. Keeps(R, N)
  <2>1. Len(N.cq) >= Len(R.cq)
    BY <1>0, <1>1
  <2> QED  BY <1>1, <2>1 DEF Keeps, Armed, InKernel, InQueues
<1>4. e.op = "add" => Armed(N, e.fd, e.mask)
  BY <1>1 DEF Armed, InQueues
<1>5. CASE Len(R.sq) >= UpQueueSize
  <2>1. o.ring = R /\ o.ok = FALSE /\ o.queued = FALSE
    BY <1>5 DEF SubmitPoll, Refused
  <2>2. Keeps(R, R)
    BY <1>0 DEF Keeps
  <2> QED  BY <2>1, <2>2
<1>6. CASE ~(Len(R.sq) >= UpQueueSize)
  <2>1. \/ o = [ring |-> N, ok |-> FALSE, queued |-> TRUE]
        \/ \E S \in TakenPoll(N) : o = [ring |-> S, ok |-> TRUE, queued |-> TRUE]
    BY <1>6 DEF SubmitPoll, N
  <2>2. CASE o = [ring |-> N, ok |-> FALSE, queued |-> TRUE]
    <3>1. o.ring = N /\ o.ok = FALSE /\ o.queued = TRUE
      BY <2>2
    <3> QED  BY <1>2, <1>3, <1>4, <3>1
  <2>3. ASSUME NEW S \in TakenPoll(N), o = [ring |-> S, ok |-> TRUE, queued |-> TRUE]
        PROVE  /\ RingOK(o.ring) /\ Keeps(R, o.ring) /\ (o.ok => o.queued)
               /\ o.queued /\ e.op = "add" => Armed(o.ring, e.fd, e.mask)
    <3>1. o.ring = S /\ o.ok = TRUE /\ o.queued = TRUE
      BY <2>3
    <3>2. RingOK(S) /\ Keeps(N, S)
      BY <1>1, <1>2, <2>3, TakenKeeps
    <3>3. Keeps(R, S)
      BY <1>2, <1>3, <3>2, KeepsTwice
    <3>4. e.op = "add" => Armed(S, e.fd, e.mask)
      BY <1>0, <1>4, <3>2 DEF Keeps
    <3> QED  BY <3>1, <3>2, <3>3, <3>4
  <2> QED  BY <2>1, <2>2, <2>3
<1> QED  BY <1>5, <1>6

LEMMA UpStep ==
  ASSUME UpInv, [UpNext]_upVars
  PROVE  UpInv'
<1>0. /\ upMask \in [UpFds -> SUBSET Events] /\ upReady \in [UpFds -> SUBSET Events]
      /\ RingOK(upRing) /\ Len(upRing.cq) \in Nat
      /\ upLeft \in Nat /\ (upPoll = "reap" => upLeft # 0 /\ upLeft <= Len(upRing.cq))
      /\ \A f \in UpFds \ upLost : upMask[f] # {} => Armed(upRing, f, upMask[f])
  BY DEF UpInv, PollArmed, RingOK
\* A step that loses nothing of the rings, and arms what it registers.
<1>a. ASSUME RingOK(upRing'), Keeps(upRing, upRing'), upReady' \in [UpFds -> SUBSET Events],
             upPoll' = upPoll, upLeft' = upLeft,
             upMask' \in [UpFds -> SUBSET Events],
             \A f \in UpFds \ upLost' : upMask'[f] # {} =>
               \/ Armed(upRing', f, upMask'[f])
               \/ f \notin upLost /\ upMask'[f] \subseteq upMask[f]
      PROVE  UpInv'
  <2>1. \A f \in UpFds, mask, more \in SUBSET Events :
          mask \subseteq more /\ Armed(upRing', f, more) => Armed(upRing', f, mask)
    BY DEF Armed, InKernel, InQueues
  <2>2. ASSUME NEW f \in UpFds \ upLost', upMask'[f] # {}
        PROVE  Armed(upRing', f, upMask'[f])
    <3>1. CASE f \notin upLost /\ upMask'[f] \subseteq upMask[f]
      <4>1. upMask[f] # {} /\ upMask[f] \in SUBSET Events /\ upMask'[f] \in SUBSET Events
        BY <1>0, <1>a, <2>2, <3>1
      <4>2. Armed(upRing, f, upMask[f])
        BY <1>0, <3>1, <4>1
      <4>3. Armed(upRing', f, upMask[f])
        BY <1>a, <4>1, <4>2 DEF Keeps
      <4> QED  BY <2>1, <3>1, <4>1, <4>3
    <3> QED  BY <1>a, <2>2, <3>1
  <2>3. Len(upRing'.cq) \in Nat /\ Len(upRing'.cq) >= Len(upRing.cq)
    BY <1>a DEF RingOK, Keeps
  <2>4. upPoll' = "reap" => upLeft' # 0 /\ upLeft' <= Len(upRing'.cq)
    BY <1>0, <1>a, <2>3
  <2>5. PollArmed'
    BY <2>2 DEF PollArmed
  <2> QED  BY <1>0, <1>a, <2>4, <2>5 DEF UpInv
<1>b. Keeps(upRing, upRing)
  BY <1>0 DEF Keeps
<1>1. ASSUME NEW f \in UpFds, NEW mask \in SUBSET Events \ {{}}, UringAddEvent(f, mask)
      PROVE  UpInv'
  <2> DEFINE m == upMask[f] \cup mask
             e == PollAdd(f, m)
  <2>1. PICK old \in IF upMask[f] # {} THEN SubmitPoll(upRing, PollRemove(f)) ELSE {Refused(upRing)} :
        \E new \in SubmitPoll(old.ring, e) :
          /\ upRing' = new.ring
          /\ upMask' = IF new.ok THEN [upMask EXCEPT ![f] = @ \cup mask] ELSE upMask
          /\ upLost' = IF new.ok THEN upLost \ {f} ELSE upLost
    BY <1>1 DEF UringAddEvent
  <2>2. PICK new \in SubmitPoll(old.ring, e) :
          /\ upRing' = new.ring
          /\ upMask' = IF new.ok THEN [upMask EXCEPT ![f] = @ \cup mask] ELSE upMask
          /\ upLost' = IF new.ok THEN upLost \ {f} ELSE upLost
    BY <2>1
  <2>3. upPoll' = upPoll /\ upLeft' = upLeft /\ upReady' = upReady
    BY <1>1 DEF UringAddEvent
  <2>4. /\ PollRemove(f) \in UpEntry /\ m \in SUBSET Events
        /\ e \in UpEntry /\ e.op = "add" /\ e.fd = f /\ e.mask = m
    BY <1>0 DEF PollRemove, PollAdd, UpEntry
  <2> HIDE DEF e
  <2>5. RingOK(old.ring) /\ Keeps(upRing, old.ring)
    <3>1. CASE upMask[f] # {}
      BY <1>0, <2>1, <2>4, <3>1, SubmitKeeps
    <3>2. CASE upMask[f] = {}
      BY <1>0, <1>b, <2>1, <3>2 DEF Refused
    <3> QED  BY <3>1, <3>2
  <2>6. /\ RingOK(new.ring) /\ Keeps(old.ring, new.ring) /\ (new.ok => new.queued)
        /\ new.queued => Armed(new.ring, f, m)
    <3> HIDE DEF m
    <3> QED  BY <2>2, <2>4, <2>5, SubmitKeeps
  <2>7. Keeps(upRing, upRing') /\ RingOK(upRing')
    BY <1>0, <2>2, <2>5, <2>6, KeepsTwice
  <2>8. CASE new.ok
    <3>1. upMask' \in [UpFds -> SUBSET Events] /\ upMask'[f] = m /\ \A g \in UpFds : g # f => upMask'[g] = upMask[g]
      BY <1>0, <2>2, <2>4, <2>8
    <3>2. \A g \in UpFds \ upLost' : g # f => g \notin upLost
      BY <2>2, <2>8
    <3>3. Armed(upRing', f, upMask'[f])
      BY <2>2, <2>6, <2>8, <3>1
    <3> QED  BY <1>0, <1>a, <2>3, <2>7, <3>1, <3>2, <3>3
  <2>9. CASE ~new.ok
    <3>1. upMask' = upMask /\ upLost' = upLost
      BY <2>2, <2>9
    <3> QED  BY <1>0, <1>a, <2>3, <2>7, <3>1
  <2> QED  BY <2>8, <2>9
<1>2. ASSUME NEW f \in UpFds, NEW mask \in SUBSET Events \ {{}}, UringDelEvent(f, mask)
      PROVE  UpInv'
  <2> DEFINE m == upMask[f] \ mask
             e == PollAdd(f, m)
  <2>1. PICK old \in SubmitPoll(upRing, PollRemove(f)) :
        \E new \in IF m = {} THEN {old} ELSE SubmitPoll(old.ring, e) : upRing' = new.ring
    BY <1>2 DEF UringDelEvent
  <2>2. PICK new \in IF m = {} THEN {old} ELSE SubmitPoll(old.ring, e) : upRing' = new.ring
    BY <2>1
  <2>3. /\ upPoll' = upPoll /\ upLeft' = upLeft /\ upReady' = upReady /\ upLost' = upLost
        /\ upMask' = [upMask EXCEPT ![f] = @ \ mask]
    BY <1>2 DEF UringDelEvent
  <2>4. PollRemove(f) \in UpEntry /\ e \in UpEntry
    BY <1>0 DEF PollRemove, PollAdd, UpEntry
  <2> HIDE DEF e
  <2>5. RingOK(old.ring) /\ Keeps(upRing, old.ring)
    BY <1>0, <2>1, <2>4, SubmitKeeps
  <2>6. RingOK(new.ring) /\ Keeps(upRing, new.ring)
    <3>1. CASE m = {}
      BY <2>2, <2>5, <3>1
    <3>2. CASE m # {}
      <4>1. RingOK(new.ring) /\ Keeps(old.ring, new.ring)
        BY <2>2, <2>4, <2>5, <3>2, SubmitKeeps
      <4> QED  BY <1>0, <2>5, <4>1, KeepsTwice
    <3> QED  BY <3>1, <3>2
  <2>7. upMask' \in [UpFds -> SUBSET Events] /\ \A g \in UpFds : upMask'[g] \subseteq upMask[g]
    BY <1>0, <2>3
  <2> QED  BY <1>0, <1>a, <2>2, <2>3, <2>6, <2>7
<1>3. ASSUME NEW f \in UpFds, NEW ready \in SUBSET Events, ReadyChanges(f, ready)
      PROVE  UpInv'
  BY <1>0, <1>3, <1>a, <1>b DEF ReadyChanges
<1>4. ASSUME NEW r \in BagToSet(upRing.flight), PollCompletes(r)
      PROVE  UpInv'
  <2> DEFINE c == <<r[1], r[2] \cap upReady[r[1]]>>
             S == [sq |-> upRing.sq, flight |-> upRing.flight (-) SetToBag({r}), cq |-> Append(upRing.cq, c)]
  <2>1. upRing' = S /\ upMask' = upMask /\ upPoll' = upPoll /\ upLeft' = upLeft /\ upReady' = upReady /\ upLost' = upLost
    BY <1>4 DEF PollCompletes
  <2>2. S.sq = upRing.sq /\ S.flight = upRing.flight (-) SetToBag({r}) /\ S.cq = Append(upRing.cq, c)
    OBVIOUS
  <2>3. r \in UpFds \X SUBSET Events
    BY <1>0 DEF RingOK, BagToSet
  <2>4. c \in UpCompletion /\ c[1] = r[1]
    BY <1>0, <2>3 DEF UpCompletion
  <2> HIDE DEF c, S
  <2>5. S.cq \in Seq(UpCompletion) /\ Len(S.cq) = Len(upRing.cq) + 1 /\ Range(S.cq) = Range(upRing.cq) \cup {c}
    BY <1>0, <2>2, <2>4, AppendList DEF RingOK
  <2>6. /\ IsABag(S.flight) /\ DOMAIN S.flight \subseteq DOMAIN upRing.flight
        /\ \A d \in DOMAIN upRing.flight : d # r => d \in DOMAIN S.flight
    <3>1. IsABag(upRing.flight)
      BY <1>0 DEF RingOK
    <3> QED  BY <2>2, <3>1, BagLessOK
  <2>7. RingOK(S)
    BY <1>0, <2>2, <2>5, <2>6 DEF RingOK
  <2>8. ASSUME NEW f \in UpFds, NEW mask \in SUBSET Events, Armed(upRing, f, mask)
        PROVE  Armed(S, f, mask)
    <3>1. CASE InQueues(upRing, f, mask)
      BY <2>2, <2>5, <3>1 DEF Armed, InQueues
    <3>2. CASE InKernel(upRing, f, mask)
      <4>1. PICK d \in DOMAIN upRing.flight : d[1] = f /\ mask \subseteq d[2]
        BY <3>2 DEF InKernel, BagToSet
      <4>2. CASE d = r
        <5>1. c \in Range(S.cq) /\ c[1] = f
          BY <2>4, <2>5, <4>1, <4>2
        <5> QED  BY <5>1 DEF Armed, InQueues
      <4>3. CASE d # r
        BY <2>6, <4>1, <4>3 DEF Armed, InKernel, BagToSet
      <4> QED  BY <4>2, <4>3
    <3> QED  BY <2>8, <3>1, <3>2 DEF Armed
  <2>9. Len(S.cq) >= Len(upRing.cq)
    BY <1>0, <2>5
  <2>10. Keeps(upRing, S)
    BY <2>8, <2>9 DEF Keeps
  <2> QED  BY <1>0, <1>a, <2>1, <2>7, <2>10
<1>5. CASE UringPoll
  <2>1. /\ upMask' = upMask /\ upRing' = upRing /\ upLeft' = upLeft /\ upReady' = upReady /\ upLost' = upLost
        /\ upPoll' = "submit"
    BY <1>5 DEF UringPoll
  <2> QED  BY <1>0, <2>1 DEF UpInv, PollArmed
<1>6. CASE PollTakes
  <2>1. /\ upRing.sq # << >> /\ upRing' \in TakenPoll(upRing)
        /\ upMask' = upMask /\ upPoll' = upPoll /\ upLeft' = upLeft /\ upReady' = upReady /\ upLost' = upLost
    BY <1>6 DEF PollTakes
  <2>2. RingOK(upRing') /\ Keeps(upRing, upRing')
    BY <1>0, <2>1, TakenKeeps
  <2> QED  BY <1>0, <1>a, <2>1, <2>2
<1>7. ASSUME NEW look \in BOOLEAN, PollEntered(look)
      PROVE  UpInv'
  <2> DEFINE n == Len(upRing.cq)
  <2>1. /\ upMask' = upMask /\ upRing' = upRing /\ upReady' = upReady /\ upLost' = upLost
        /\ upLeft' = IF ~look THEN 0 ELSE IF n <= UpSetSize THEN n ELSE UpSetSize
        /\ upPoll' = IF upLeft' = 0 THEN "out" ELSE "reap"
    BY <1>7 DEF PollEntered
  <2>2. upLeft' \in Nat /\ upLeft' <= n
    BY <1>0, <2>1, UpAssumption
  <2>3. upPoll' = "reap" => upLeft' # 0
    BY <2>1
  <2> QED  BY <1>0, <2>1, <2>2, <2>3 DEF UpInv, PollArmed
<1>8. CASE PollReaps
  <2> DEFINE c == Head(upRing.cq)
             f == c[1]
             R == [sq |-> upRing.sq, flight |-> upRing.flight, cq |-> Tail(upRing.cq)]
             e == PollAdd(f, upMask[f])
  <2>1. PICK new \in IF upMask[f] = {} THEN {Refused(R)} ELSE SubmitPoll(R, e) :
          /\ upRing' = new.ring
          /\ upLost' = IF new.queued \/ upMask[f] = {} THEN upLost \ {f} ELSE upLost \cup {f}
    BY <1>8 DEF PollReaps
  <2>2. /\ upMask' = upMask /\ upReady' = upReady /\ upLeft' = upLeft - 1 /\ upPoll = "reap"
        /\ upPoll' = IF upLeft' = 0 THEN "out" ELSE "reap"
    BY <1>8 DEF PollReaps
  <2>3. upLeft # 0 /\ upLeft <= Len(upRing.cq) /\ upRing.cq # << >> /\ upRing.cq \in Seq(UpCompletion)
    BY <1>0, <2>2 DEF RingOK
  <2>4. /\ c \in UpCompletion /\ Tail(upRing.cq) \in Seq(UpCompletion) /\ Len(Tail(upRing.cq)) = Len(upRing.cq) - 1
        /\ Range(upRing.cq) = Range(Tail(upRing.cq)) \cup {c}
    BY <2>3, SplitList
  <2>5. R.sq = upRing.sq /\ R.flight = upRing.flight /\ R.cq = Tail(upRing.cq)
    OBVIOUS
  <2>6. f \in UpFds
    BY <2>4 DEF UpCompletion
  <2>7. e \in UpEntry /\ e.op = "add" /\ e.fd = f /\ e.mask = upMask[f]
    BY <1>0, <2>6 DEF PollAdd, UpEntry
  <2> HIDE DEF c, R, e
  <2>8. RingOK(R)
    BY <1>0, <2>4, <2>5 DEF RingOK
  <2>9. \A g \in UpFds, mask \in SUBSET Events : g # f /\ Armed(upRing, g, mask) => Armed(R, g, mask)
    BY <2>4, <2>5 DEF Armed, InKernel, InQueues
  <2>10. /\ RingOK(new.ring) /\ Keeps(R, new.ring)
         /\ new.queued /\ upMask[f] # {} => Armed(new.ring, f, upMask[f])
    <3>1. CASE upMask[f] = {}
      <4>1. Keeps(R, R)
        <5>1. Len(R.cq) \in Nat
          BY <2>8 DEF RingOK
        <5> QED  BY <5>1 DEF Keeps
      <4> QED  BY <2>1, <2>8, <3>1, <4>1 DEF Refused
    <3>2. CASE upMask[f] # {}
      BY <2>1, <2>7, <2>8, <3>2, SubmitKeeps
    <3> QED  BY <3>1, <3>2
  <2>11. ASSUME NEW g \in UpFds \ upLost', upMask[g] # {}
         PROVE  Armed(upRing', g, upMask[g])
    <3>1. CASE g = f
      <4>1. new.queued
        BY <2>1, <2>11, <3>1
      <4> QED  BY <2>1, <2>10, <2>11, <3>1, <4>1
    <3>2. CASE g # f
      <4>1. g \notin upLost /\ upMask[g] \in SUBSET Events
        BY <1>0, <2>1, <2>11, <3>2
      <4>2. Armed(R, g, upMask[g])
        BY <1>0, <2>9, <2>11, <3>2, <4>1
      <4> QED  BY <2>1, <2>10, <4>1, <4>2 DEF Keeps
    <3> QED  BY <3>1, <3>2
  <2>12. PollArmed'
    BY <2>2, <2>11 DEF PollArmed
  <2>13. Len(upRing'.cq) \in Nat /\ Len(upRing'.cq) >= Len(upRing.cq) - 1
    BY <1>0, <2>1, <2>4, <2>5, <2>10 DEF RingOK, Keeps
  <2>14. upLeft' \in Nat /\ (upPoll' = "reap" => upLeft' # 0 /\ upLeft' <= Len(upRing'.cq))
    BY <1>0, <2>2, <2>3, <2>13
  <2> QED  BY <1>0, <2>1, <2>2, <2>10, <2>12, <2>14 DEF UpInv
<1>9. CASE UNCHANGED upVars
  BY <1>9 DEF upVars, UpInv, PollArmed
<1> QED  BY <1>1, <1>2, <1>3, <1>4, <1>5, <1>6, <1>7, <1>8, <1>9 DEF UpNext

LEMMA UpInitOK == UpInit => UpInv
<1> SUFFICES ASSUME UpInit
             PROVE  UpInv
  OBVIOUS
<1>1. upRing.sq = << >> /\ upRing.cq = << >> /\ upRing.flight = EmptyBag
  BY DEF UpInit
<1>2. IsABag(EmptyBag) /\ DOMAIN EmptyBag = {}
  BY DEF EmptyBag, SetToBag, IsABag
<1>3. RingOK(upRing)
  BY <1>1, <1>2 DEF RingOK
<1> QED  BY <1>3 DEF UpInit, UpInv, PollArmed

-----------------------------------------------------------------------------
(* Operations under io_uring                                                *)

UoSlot == [id : Nat, active : BOOLEAN, kind : UoKinds]
UoEntry == [id : 0 .. UoMaxId, target : 0 .. UoMaxId]
UoCompletion == [id : UoIds, more : BOOLEAN]

\* An operation is in one place: the submission queue, the kernel, or past its
\* last completion, which is the only one without `more`.
UoQueues(next, sq, kernel, cq) ==
  /\ next \in Nat \ {0}
  /\ sq \in Seq(UoEntry) /\ cq \in Seq(UoCompletion) /\ kernel \subseteq UoIds
  /\ \A i \in 1 .. Len(sq) : sq[i].id < next
  /\ \A k \in 1 .. Len(cq) : cq[k].id < next
  /\ \A id \in kernel : id < next
  /\ \A i, j \in 1 .. Len(sq) : sq[i].id = sq[j].id /\ sq[i].id # 0 => i = j
  /\ \A i \in 1 .. Len(sq) : sq[i].id # 0 =>
       sq[i].id \notin kernel /\ \A k \in 1 .. Len(cq) : cq[k].id # sq[i].id
  /\ \A k \in 1 .. Len(cq) : ~cq[k].more =>
       cq[k].id \notin kernel /\ \A m \in k + 1 .. Len(cq) : cq[m].id # cq[k].id
  /\ \A k \in 1 .. Len(cq) : cq[k].more =>
       cq[k].id \in kernel \/ \E m \in k + 1 .. Len(cq) : cq[m].id = cq[k].id

\* Each operation has had one slot, which keeps its number until it is used
\* again.
UoTable(ops, next) ==
  /\ ops \in Seq(UoSlot) /\ Len(ops) # 0
  /\ \A i \in 1 .. Len(ops) : ops[i].id < next /\ (ops[i].active => ops[i].id \in UoIds)
  /\ \A i, j \in 1 .. Len(ops) : ops[i].id = ops[j].id /\ ops[i].id # 0 => i = j

OnWay(sq, kernel, id) == id \in kernel \/ \E i \in 1 .. Len(sq) : sq[i].id = id
Comes(cq, seen, id) == \E k \in seen + 1 .. Len(cq) : cq[k].id = id
Waiting(cq, seen, id) == Cardinality({k \in seen + 1 .. Len(cq) : cq[k].id = id})
ActiveSlot(ops, id) == \E i \in 1 .. Len(ops) : ops[i].active /\ ops[i].id = id
Seen == IF uoPoll = -1 THEN 0 ELSE uoPoll

UoTypeOK ==
  /\ uoPoll \in -1 .. Len(uoCq)
  /\ uoCalls \in [UoIds -> Nat] /\ uoShots \in [UoIds -> Nat] /\ DOMAIN uoTold = UoIds
  /\ uoFinal \subseteq UoIds
  /\ \A id \in UoIds : id >= uoNextId =>
       uoTold[id] = "none" /\ uoCalls[id] = 0 /\ id \notin uoFinal

\* Kinds: only one that is not single has completions with `more`.
UoKindInv ==
  /\ \A k \in 1 .. Len(uoCq) : uoCq[k].more =>
       \A i \in 1 .. Len(uoOps) : uoOps[i].id = uoCq[k].id => uoOps[i].kind # "single"
  /\ \A i \in 1 .. Len(uoOps) : uoOps[i].kind = "zero copy" => uoOps[i].id \in uoZero

\* Where an operation is, by what the client was told, and how often it has
\* been called back.
UoToldInv ==
  /\ \A id \in UoIds : uoTold[id] = "submitted" /\ id \notin uoFinal =>
       ActiveSlot(uoOps, id) /\ (OnWay(uoSq, uoKernel, id) \/ Comes(uoCq, Seen, id))
  /\ \A id \in UoIds : uoTold[id] = "failed" => uoCalls[id] = 0 /\ ~ActiveSlot(uoOps, id)
  /\ \A id \in uoFinal \ uoZero : ~OnWay(uoSq, uoKernel, id) /\ ~Comes(uoCq, Seen, id)
  /\ \A id \in UoIds : uoCalls[id] + Waiting(uoCq, Seen, id)
                         <= uoShots[id] + (IF OnWay(uoSq, uoKernel, id) THEN 0 ELSE 1)

\* The slot that will be freed when the callback returns is that of an
\* operation with no more callbacks.
UoRunInv ==
  /\ uoRun \in [slot : Nat, moved : BOOLEAN, goesOn : BOOLEAN]
  /\ uoRun # NoRun /\ ~uoRun.goesOn =>
       uoRun.slot \in 1 .. Len(uoOps) /\ uoOps[uoRun.slot].active /\ uoOps[uoRun.slot].id \in uoFinal

UoInv ==
  /\ UoQueues(uoNextId, uoSq, uoKernel, uoCq)
  /\ UoTable(uoOps, uoNextId)
  /\ UoTypeOK /\ UoKindInv /\ UoToldInv /\ UoRunInv

\* A finite set as a sequence: each element once.
LEMMA SetAsSequence ==
  ASSUME NEW S, IsFiniteSet(S)
  PROVE  /\ SetToSeq(S) \in Seq(S) /\ Len(SetToSeq(S)) \in Nat
         /\ \A i, j \in 1 .. Len(SetToSeq(S)) : SetToSeq(S)[i] = SetToSeq(S)[j] => i = j
         /\ \A x \in S : \E i \in 1 .. Len(SetToSeq(S)) : SetToSeq(S)[i] = x
<1> DEFINE n == Cardinality(S)
           s == SetToSeq(S)
<1>1. n \in Nat /\ ExistsBijection(1 .. n, S)
  BY FS_CardinalityType
<1>2. \E f \in [1 .. n -> S] : IsInjective(f)
  BY <1>1 DEF ExistsBijection, Bijection, Injection
<1>3. s \in [1 .. n -> S] /\ IsInjective(s)
  BY <1>2, Zenon DEF SetToSeq
<1>4. s \in Injection(1 .. n, S) /\ Cardinality(1 .. n) = n
  BY <1>1, <1>3, FS_Interval DEF Injection
<1> HIDE DEF s, n
<1>5. s \in Surjection(1 .. n, S)
  <2>1. Cardinality(1 .. n) = Cardinality(S) <=> s \in Surjection(1 .. n, S)
    BY <1>4, FS_Injection
  <2> QED  BY <1>4, <2>1 DEF n
<1>6. s \in Seq(S) /\ Len(s) = n
  BY <1>1, <1>3
<1>7. \A i, j \in 1 .. n : s[i] = s[j] => i = j
  BY <1>3 DEF IsInjective
<1>8. \A x \in S : \E i \in 1 .. n : s[i] = x
  BY <1>5 DEF Surjection
<1> QED  BY <1>1, <1>6, <1>7, <1>8 DEF s

\* Counting the completions that are to come.
LEMMA WaitingType ==
  ASSUME NEW cq, Len(cq) \in Nat, NEW seen \in Nat, NEW id
  PROVE  IsFiniteSet({k \in seen + 1 .. Len(cq) : cq[k].id = id}) /\ Waiting(cq, seen, id) \in Nat
<1> DEFINE K == {k \in seen + 1 .. Len(cq) : cq[k].id = id}
<1>1. IsFiniteSet(seen + 1 .. Len(cq))
  BY FS_Interval
<1>2. IsFiniteSet(K)
  BY <1>1, FS_Subset
<1>3. Cardinality(K) \in Nat
  BY <1>2, FS_CardinalityType
<1> QED  BY <1>2, <1>3 DEF Waiting

LEMMA WaitingSame ==
  ASSUME NEW cq, NEW dq, Len(cq) \in Nat, Len(dq) \in Nat, Len(cq) <= Len(dq),
         NEW seen \in Nat, NEW id,
         \A k \in 1 .. Len(cq) : dq[k].id = cq[k].id,
         \A k \in Len(cq) + 1 .. Len(dq) : dq[k].id # id
  PROVE  /\ Waiting(dq, seen, id) = Waiting(cq, seen, id)
         /\ Comes(dq, seen, id) <=> Comes(cq, seen, id)
<1>1. {k \in seen + 1 .. Len(dq) : dq[k].id = id} = {k \in seen + 1 .. Len(cq) : cq[k].id = id}
  <2>1. ASSUME NEW k \in seen + 1 .. Len(dq), dq[k].id = id
        PROVE  k \in seen + 1 .. Len(cq) /\ cq[k].id = id
    <3>1. k \in 1 .. Len(cq) \/ k \in Len(cq) + 1 .. Len(dq)
      OBVIOUS
    <3>2. k \in 1 .. Len(cq)
      BY <2>1, <3>1
    <3> QED  BY <2>1, <3>2
  <2>2. ASSUME NEW k \in seen + 1 .. Len(cq), cq[k].id = id
        PROVE  k \in seen + 1 .. Len(dq) /\ dq[k].id = id
    BY <2>2
  <2> QED  BY <2>1, <2>2
<1> QED  BY <1>1 DEF Waiting, Comes

LEMMA WaitingOneMore ==
  ASSUME NEW cq, NEW dq, Len(cq) \in Nat, Len(dq) \in Nat, NEW seen \in 0 .. Len(cq), NEW id,
         \A k \in 1 .. Len(cq) : dq[k].id = cq[k].id,
         NEW m \in Len(cq) + 1 .. Len(dq), dq[m].id = id,
         \A k \in Len(cq) + 1 .. Len(dq) : dq[k].id = id => k = m
  PROVE  Waiting(dq, seen, id) = Waiting(cq, seen, id) + 1 /\ Comes(dq, seen, id)
<1> DEFINE K == {k \in seen + 1 .. Len(cq) : cq[k].id = id}
           L == {k \in seen + 1 .. Len(dq) : dq[k].id = id}
<1>1. L = K \cup {m}
  <2>1. ASSUME NEW k \in L
        PROVE  k \in K \cup {m}
    <3>1. k \in 1 .. Len(cq) \/ k \in Len(cq) + 1 .. Len(dq)
      OBVIOUS
    <3> QED  BY <2>1, <3>1
  <2>2. ASSUME NEW k \in K
        PROVE  k \in L
    BY <2>2
  <2>3. m \in L
    OBVIOUS
  <2> QED  BY <2>1, <2>2, <2>3
<1>2. m \notin K
  OBVIOUS
<1>3. IsFiniteSet(K)
  <2>1. IsFiniteSet(seen + 1 .. Len(cq))
    BY FS_Interval
  <2> QED  BY <2>1, FS_Subset
<1> HIDE DEF K, L
<1>4. Cardinality(K \cup {m}) = Cardinality(K) + 1
  BY <1>2, <1>3, FS_AddElement
<1> QED  BY <1>1, <1>4 DEF Waiting, Comes, K, L

LEMMA WaitingNext ==
  ASSUME NEW cq, Len(cq) \in Nat, NEW seen \in Nat, seen < Len(cq), NEW id
  PROVE  Waiting(cq, seen, id) = Waiting(cq, seen + 1, id) + (IF cq[seen + 1].id = id THEN 1 ELSE 0)
<1> DEFINE K == {k \in seen + 1 .. Len(cq) : cq[k].id = id}
           L == {k \in (seen + 1) + 1 .. Len(cq) : cq[k].id = id}
<1>1. IsFiniteSet(L) /\ Cardinality(L) \in Nat
  <2>1. IsFiniteSet((seen + 1) + 1 .. Len(cq))
    BY FS_Interval
  <2>2. IsFiniteSet(L)
    BY <2>1, FS_Subset
  <2> QED  BY <2>2, FS_CardinalityType
<1>2. CASE cq[seen + 1].id = id
  <2>1. K = L \cup {seen + 1} /\ seen + 1 \notin L
    BY <1>2
  <2> HIDE DEF K, L
  <2>2. Cardinality(L \cup {seen + 1}) = Cardinality(L) + 1
    BY <1>1, <2>1, FS_AddElement
  <2> QED  BY <1>2, <2>1, <2>2 DEF Waiting, K, L
<1>3. CASE cq[seen + 1].id # id
  <2>1. K = L
    BY <1>3
  <2> HIDE DEF K, L
  <2>2. Cardinality(K) = Cardinality(L) + 0
    BY <1>1, <2>1
  <2> QED  BY <1>3, <2>2 DEF Waiting, K, L
<1> QED  BY <1>2, <1>3

\* Taking the completions that have been seen off the queue.
LEMMA WaitingShift ==
  ASSUME NEW cq, NEW dq, NEW seen \in Nat, Len(cq) \in Nat, seen <= Len(cq), Len(dq) = Len(cq) - seen,
         \A k \in 1 .. Len(dq) : dq[k] = cq[k + seen], NEW id
  PROVE  Waiting(dq, 0, id) = Waiting(cq, seen, id) /\ (Comes(dq, 0, id) <=> Comes(cq, seen, id))
<1> DEFINE K == {k \in 0 + 1 .. Len(dq) : dq[k].id = id}
           L == {k \in seen + 1 .. Len(cq) : cq[k].id = id}
           f == [k \in K |-> k + seen]
<1>1. \A k \in K : k \in Int /\ k + seen \in L
  OBVIOUS
<1>2. \A k \in L : k - seen \in K /\ k \in Int
  <2> SUFFICES ASSUME NEW k \in L
               PROVE  k - seen \in K /\ k \in Int
    OBVIOUS
  <2>1. k - seen \in 1 .. Len(dq) /\ (k - seen) + seen = k /\ k \in Int
    OBVIOUS
  <2>2. dq[k - seen] = cq[k]
    BY <2>1
  <2> QED  BY <2>1, <2>2
<1>3. f \in [K -> L] /\ \A j, k \in K : f[j] = f[k] => j = k
  BY <1>1, SMTT(60)
<1>4. \A k \in L : \E j \in K : f[j] = k
  <2> SUFFICES ASSUME NEW k \in L
               PROVE  \E j \in K : f[j] = k
    OBVIOUS
  <2>1. k - seen \in K /\ f[k - seen] = (k - seen) + seen /\ k \in Int
    BY <1>2
  <2> QED  BY <2>1
<1>5. IsFiniteSet(K)
  <2>1. IsFiniteSet(0 + 1 .. Len(dq))
    <3>1. 0 + 1 \in Int /\ Len(dq) \in Int
      OBVIOUS
    <3> QED  BY <3>1, FS_Interval
  <2> QED  BY <2>1, FS_Subset
<1> HIDE DEF K, L, f
<1>6. f \in Bijection(K, L)
  <2>1. DOMAIN f = K
    BY <1>3
  <2>2. f \in Injection(K, L)
    BY <1>3, <2>1 DEF Injection, IsInjective
  <2>3. f \in Surjection(K, L)
    BY <1>3, <1>4 DEF Surjection
  <2> QED  BY <2>2, <2>3 DEF Bijection
<1>7. Cardinality(L) = Cardinality(K)
  BY <1>5, <1>6, FS_Bijection DEF ExistsBijection
<1>8. K = {} <=> L = {}
  BY <1>1, <1>2
<1> QED  BY <1>7, <1>8 DEF Waiting, Comes, K, L

\* ioUringFileOpAllocate: one slot is filled that was free or is new; the others
\* stay as they were, and the new ones are free.
LEMMA AllocateOK ==
  ASSUME NEW next \in Nat \ {0}, NEW ops, UoTable(ops, next), NEW id \in UoIds, id >= next,
         NEW kind \in UoKinds, NEW slot, slot = [id |-> id, active |-> TRUE, kind |-> kind]
  PROVE  LET new == Allocate(ops, id, kind) IN
         /\ new \in Seq(UoSlot) /\ Len(new) \in Nat /\ Len(ops) \in Nat /\ Len(new) >= Len(ops)
         /\ \E p \in 1 .. Len(new) :
              /\ new[p] = slot
              /\ \A i \in 1 .. Len(new) : i # p => \/ i \in 1 .. Len(ops) /\ new[i] = ops[i]
                                                   \/ i \notin 1 .. Len(ops) /\ new[i] = NoOperation
              /\ \A i \in 1 .. Len(ops) : ops[i].active => i # p
<1> DEFINE new == Allocate(ops, id, kind)
           free == {i \in DOMAIN ops : ~ops[i].active}
           N == Len(ops)
           none == [i \in 1 .. N - 1 |-> NoOperation]
<1>1. ops \in Seq(UoSlot) /\ N \in Nat \ {0} /\ DOMAIN ops = 1 .. N
  BY DEF UoTable
<1>2. slot \in UoSlot /\ NoOperation \in UoSlot
  <2>1. id \in Nat
    BY UoAssumption DEF UoIds
  <2> QED  BY <2>1 DEF UoSlot, NoOperation, UoKinds
<1>3. new = IF free # {} THEN [ops EXCEPT ![Min(free)] = slot] ELSE ops \o <<slot>> \o none
  BY DEF Allocate
<1>4. CASE free # {}
  <2>1. Min(free) \in free
    <3>1. free \in SUBSET Nat
      BY <1>1
    <3>2. \E x \in free : \A y \in free : x <= y
      BY <1>4, <3>1, LeastNatural
    <3> QED  BY <3>2, Zenon DEF Min
  <2> DEFINE p == Min(free)
  <2>2. p \in 1 .. N /\ ~ops[p].active
    BY <1>1, <2>1
  <2>3. new = [ops EXCEPT ![p] = slot]
    BY <1>3, <1>4
  <2> HIDE DEF p, new
  <2>4. /\ new \in Seq(UoSlot) /\ Len(new) = N /\ new[p] = slot
        /\ \A i \in 1 .. N : i # p => new[i] = ops[i]
    BY <1>1, <1>2, <2>2, <2>3
  <2>5. \A i \in 1 .. N : ops[i].active => i # p
    BY <2>2
  <2>6. /\ new[p] = slot
        /\ \A i \in 1 .. Len(new) : i # p => \/ i \in 1 .. N /\ new[i] = ops[i]
                                             \/ i \notin 1 .. N /\ new[i] = NoOperation
        /\ \A i \in 1 .. N : ops[i].active => i # p
        /\ p \in 1 .. Len(new)
    BY <2>2, <2>4, <2>5
  <2>7. Len(new) \in Nat /\ N \in Nat /\ Len(new) >= N
    BY <1>1, <2>4
  <2> QED  BY <2>4, <2>6, <2>7 DEF new
<1>5. CASE free = {}
  <2>1. new = ops \o <<slot>> \o none
    BY <1>3, <1>5
  <2>2. none \in Seq(UoSlot) /\ Len(none) = N - 1 /\ \A i \in 1 .. N - 1 : none[i] = NoOperation
    BY <1>1, <1>2
  <2> HIDE DEF new, none
  <2> DEFINE one == ops \o <<slot>>
             p == N + 1
  <2>3. one \in Seq(UoSlot) /\ Len(one) = N + 1 /\ one[p] = slot /\ \A i \in 1 .. N : one[i] = ops[i]
    BY <1>1, <1>2
  <2>4. new = one \o none
    BY <2>1
  <2> HIDE DEF one
  <2>5. /\ new \in Seq(UoSlot) /\ Len(new) = (N + 1) + (N - 1)
        /\ \A i \in 1 .. N + 1 : new[i] = one[i]
        /\ \A i \in 1 .. N - 1 : new[(N + 1) + i] = none[i]
    <3>0. ASSUME NEW S, NEW a \in Seq(S), NEW b \in Seq(S)
          PROVE  a \o b \in Seq(S) /\ Len(a \o b) = Len(a) + Len(b)
      OBVIOUS
    <3>1. new \in Seq(UoSlot) /\ Len(new) = Len(one) + Len(none)
      <4>1. one \in Seq(UoSlot) /\ none \in Seq(UoSlot)
        BY <2>2, <2>3
      <4> QED  BY <2>4, <3>0, <4>1
    <3>2. \A i \in 1 .. Len(one) : new[i] = one[i]
      BY <2>2, <2>3, <2>4
    <3>3. \A i \in 1 .. Len(none) : new[Len(one) + i] = none[i]
      <4> SUFFICES ASSUME NEW i \in 1 .. Len(none)
                   PROVE  new[Len(one) + i] = none[i]
        OBVIOUS
      <4>1. Len(one) \in Nat /\ Len(none) \in Nat
        BY <1>1, <2>2, <2>3
      <4>2. Len(one) + i \in 1 .. Len(one) + Len(none) /\ ~(Len(one) + i <= Len(one)) /\ (Len(one) + i) - Len(one) = i
        BY <4>1
      <4> QED  BY <2>2, <2>3, <2>4, <4>1, <4>2
    <3> QED  BY <2>2, <2>3, <3>1, <3>2, <3>3
  <2> HIDE DEF N
  <2>6. Len(new) = 2 * N /\ p \in 1 .. Len(new) /\ p \in 1 .. N + 1
    BY <1>1, <2>5
  <2>7. new[p] = slot /\ \A i \in 1 .. N : new[i] = ops[i] /\ i # p
    BY <1>1, <2>3, <2>5
  <2>8. ASSUME NEW i \in 1 .. Len(new), i # p, i \notin 1 .. N
        PROVE  new[i] = NoOperation
    <3>1. i - (N + 1) \in 1 .. N - 1 /\ (N + 1) + (i - (N + 1)) = i
      BY <1>1, <2>6, <2>8
    <3> QED  BY <2>2, <2>5, <3>1
  <2>9. /\ new[p] = slot
        /\ \A i \in 1 .. Len(new) : i # p => \/ i \in 1 .. N /\ new[i] = ops[i]
                                             \/ i \notin 1 .. N /\ new[i] = NoOperation
        /\ \A i \in 1 .. N : ops[i].active => i # p
        /\ p \in 1 .. Len(new)
    BY <2>6, <2>7, <2>8
  <2>10. Len(new) \in Nat /\ N \in Nat /\ Len(new) >= N
    BY <1>1, <2>6
  <2> QED  BY <2>5, <2>9, <2>10 DEF new, N
<1> QED  BY <1>4, <1>5

\* What that means for the table.
UoAllocated(ops, new, id, kind) ==
  /\ Len(new) >= Len(ops)
  /\ ActiveSlot(new, id)
  /\ \A j \in UoIds : j # id => (ActiveSlot(new, j) <=> ActiveSlot(ops, j))
  /\ \A i \in 1 .. Len(ops) : ops[i].active => i \in 1 .. Len(new) /\ new[i] = ops[i]
  /\ \A i \in 1 .. Len(new) : \/ new[i].id = id /\ new[i].kind = kind
                              \/ new[i].id = 0 /\ new[i].kind = "single"
                              \/ i \in 1 .. Len(ops) /\ new[i] = ops[i]

LEMMA AllocateTable ==
  ASSUME NEW next \in Nat \ {0}, NEW ops, UoTable(ops, next), NEW id \in UoIds, id >= next,
         NEW kind \in UoKinds
  PROVE  UoTable(Allocate(ops, id, kind), id + 1) /\ UoAllocated(ops, Allocate(ops, id, kind), id, kind)
<1> DEFINE new == Allocate(ops, id, kind)
           slot == [id |-> id, active |-> TRUE, kind |-> kind]
           N == Len(ops)
<1>1. /\ new \in Seq(UoSlot) /\ Len(new) \in Nat /\ N \in Nat /\ Len(new) >= N
      /\ \E p \in 1 .. Len(new) :
              /\ new[p] = slot
              /\ \A i \in 1 .. Len(new) : i # p => \/ i \in 1 .. N /\ new[i] = ops[i]
                                                   \/ i \notin 1 .. N /\ new[i] = NoOperation
              /\ \A i \in 1 .. N : ops[i].active => i # p
  BY AllocateOK
<1> HIDE DEF new
<1>2. PICK p \in 1 .. Len(new) :
              /\ new[p] = slot
              /\ \A i \in 1 .. Len(new) : i # p => \/ i \in 1 .. N /\ new[i] = ops[i]
                                                   \/ i \notin 1 .. N /\ new[i] = NoOperation
              /\ \A i \in 1 .. N : ops[i].active => i # p
  BY <1>1
<1>3. slot.id = id /\ slot.active /\ slot.kind = kind
      /\ NoOperation.id = 0 /\ ~NoOperation.active /\ NoOperation.kind = "single"
  BY DEF NoOperation
<1>4. id \in Nat /\ id # 0
  BY UoAssumption DEF UoIds
<1>5. /\ \A i \in 1 .. N : ops[i] \in UoSlot /\ ops[i].id \in Nat /\ ops[i].id < next /\ (ops[i].active => ops[i].id \in UoIds)
      /\ \A i, j \in 1 .. N : ops[i].id = ops[j].id /\ ops[i].id # 0 => i = j
      /\ N # 0
  <2>1. ops \in Seq(UoSlot)
    BY DEF UoTable
  <2>2. \A i \in 1 .. N : ops[i] \in UoSlot
    BY <1>1, <2>1
  <2> QED  BY <2>2 DEF UoTable, UoSlot
<1> HIDE DEF slot, N
<1>6. \A i \in 1 .. Len(new) : new[i].id < id + 1 /\ (new[i].active => new[i].id \in UoIds)
  BY <1>2, <1>3, <1>4, <1>5
<1>7. ASSUME NEW i \in 1 .. Len(new), NEW j \in 1 .. Len(new), new[i].id = new[j].id, new[i].id # 0
      PROVE  i = j
  <2>1. ASSUME NEW k \in 1 .. Len(new), k # p
        PROVE  new[k].id # id /\ (new[k].id # 0 => k \in 1 .. N /\ new[k] = ops[k])
    BY <1>2, <1>3, <1>4, <1>5, <2>1
  <2>2. CASE i = p \/ j = p
    BY <1>2, <1>3, <1>7, <2>1, <2>2
  <2>3. CASE i # p /\ j # p
    BY <1>5, <1>7, <2>1, <2>3
  <2> QED  BY <2>2, <2>3
<1>8. UoTable(new, id + 1)
  <2>1. Len(new) # 0
    BY <1>1, <1>5
  <2> QED  BY <1>1, <1>6, <1>7, <2>1 DEF UoTable
<1>9. \A i \in 1 .. N : ops[i].active => i \in 1 .. Len(new) /\ new[i] = ops[i]
  <2> SUFFICES ASSUME NEW i \in 1 .. N, ops[i].active
               PROVE  i \in 1 .. Len(new) /\ new[i] = ops[i]
    OBVIOUS
  <2>1. i \in 1 .. Len(new)
    BY <1>1
  <2> QED  BY <1>2, <2>1
<1>10. ActiveSlot(new, id)
  BY <1>2, <1>3 DEF ActiveSlot
<1>11. ASSUME NEW j \in UoIds, j # id
       PROVE  ActiveSlot(new, j) <=> ActiveSlot(ops, j)
  <2>1. ASSUME NEW i \in 1 .. Len(new), new[i].active, new[i].id = j
        PROVE  ActiveSlot(ops, j)
    <3>1. i # p
      BY <1>2, <1>3, <1>11, <2>1
    <3>2. i \in 1 .. N /\ new[i] = ops[i]
      BY <1>2, <1>3, <2>1, <3>1
    <3> QED  BY <2>1, <3>2 DEF ActiveSlot, N
  <2>2. ASSUME NEW i \in 1 .. N, ops[i].active, ops[i].id = j
        PROVE  ActiveSlot(new, j)
    BY <1>9, <2>2 DEF ActiveSlot
  <2> QED  BY <2>1, <2>2 DEF ActiveSlot, N
<1>12. \A i \in 1 .. Len(new) : \/ new[i].id = id /\ new[i].kind = kind
                                \/ new[i].id = 0 /\ new[i].kind = "single"
                                \/ i \in 1 .. N /\ new[i] = ops[i]
  BY <1>2, <1>3
<1>13. UoAllocated(ops, new, id, kind)
  BY <1>1, <1>9, <1>10, <1>11, <1>12 DEF UoAllocated, N
<1> QED  BY <1>8, <1>13 DEF new

\* io_uring_enter with a queue sq: what is on its way stays so or has its last
\* completion (X).
UoEntered(next, sq, X) ==
  /\ UoQueues(next, uoSq', uoKernel', uoCq')
  /\ X \subseteq UoIds
  /\ \A id \in X : OnWay(sq, uoKernel, id) /\ ~OnWay(uoSq', uoKernel', id)
  /\ \A id \in UoIds \ X : OnWay(uoSq', uoKernel', id) <=> OnWay(sq, uoKernel, id)
  /\ Len(uoCq) <= Len(uoCq')
  /\ \A k \in 1 .. Len(uoCq) : uoCq'[k] = uoCq[k]
  /\ \A k \in Len(uoCq) + 1 .. Len(uoCq') : ~uoCq'[k].more /\ uoCq'[k].id \in X
  /\ \A id \in X : \E m \in Len(uoCq) + 1 .. Len(uoCq') :
       uoCq'[m].id = id /\ \A k \in Len(uoCq) + 1 .. Len(uoCq') : uoCq'[k].id = id => k = m

LEMMA EnterOK ==
  ASSUME NEW next, NEW sq, UoQueues(next, sq, uoKernel, uoCq), NEW n \in 0 .. Len(sq), EnterKernel(sq, n)
  PROVE  \E X \in SUBSET UoIds : UoEntered(next, sq, X)
<1> DEFINE K == uoKernel
           cq == uoCq
           M == Len(cq)
           L == Len(sq)
           taken == SubSeq(sq, 1, n)
           B == {taken[i].id : i \in 1 .. n} \ {0}
           X == ({taken[i].target : i \in 1 .. n} \ {0}) \cap (K \cup B)
           T == {[id |-> i, more |-> FALSE] : i \in X}
           s == SetToSeq(T)
           R == Len(s)
<1>1. /\ uoSq' = SubSeq(sq, n + 1, L)
      /\ uoKernel' = (K \cup B) \ X
      /\ uoCq' = cq \o s
  BY DEF EnterKernel
<1>q. /\ next \in Nat \ {0}
      /\ sq \in Seq(UoEntry) /\ cq \in Seq(UoCompletion) /\ K \subseteq UoIds
      /\ \A i \in 1 .. L : sq[i].id < next
      /\ \A k \in 1 .. M : cq[k].id < next
      /\ \A id \in K : id < next
      /\ \A i, j \in 1 .. L : sq[i].id = sq[j].id /\ sq[i].id # 0 => i = j
      /\ \A i \in 1 .. L : sq[i].id # 0 => sq[i].id \notin K /\ \A k \in 1 .. M : cq[k].id # sq[i].id
      /\ \A k \in 1 .. M : ~cq[k].more => cq[k].id \notin K /\ \A m \in k + 1 .. M : cq[m].id # cq[k].id
      /\ \A k \in 1 .. M : cq[k].more => cq[k].id \in K \/ \E m \in k + 1 .. M : cq[m].id = cq[k].id
  BY DEF UoQueues
<1>2. /\ L \in Nat /\ M \in Nat /\ n \in Nat /\ n <= L
      /\ \A i \in 1 .. L : sq[i] \in UoEntry /\ sq[i].id \in 0 .. UoMaxId
      /\ \A k \in 1 .. M : cq[k] \in UoCompletion /\ cq[k].id \in UoIds
  <2>1. L \in Nat /\ M \in Nat /\ n \in Nat /\ n <= L
    BY <1>q
  <2>2. (\A i \in 1 .. L : sq[i] \in UoEntry) /\ \A k \in 1 .. M : cq[k] \in UoCompletion
    BY <1>q, <2>1
  <2> QED  BY <2>1, <2>2 DEF UoEntry, UoCompletion
<1>3. \A i \in 1 .. n : taken[i] = sq[i] /\ i \in 1 .. L
  BY <1>q, <1>2
<1>4. B = {sq[i].id : i \in 1 .. n} \ {0}
  BY <1>3
<1>5. B \subseteq UoIds /\ \A b \in B : b # 0 /\ \E i \in 1 .. n : sq[i].id = b
  <2>1. \A b \in 0 .. UoMaxId : b # 0 => b \in UoIds
    BY UoAssumption DEF UoIds
  <2> QED  BY <1>2, <1>3, <1>4, <2>1
<1>6. X \subseteq K \cup B /\ X \subseteq UoIds
  BY <1>5, <1>q
<1> HIDE DEF B, X, taken
<1>7. IsFiniteSet(T) /\ \A y \in T : y \in UoCompletion /\ ~y.more /\ y.id \in X
  <2>1. IsFiniteSet(X)
    <3>1. IsFiniteSet(UoIds)
      BY FS_Interval, UoAssumption DEF UoIds
    <3> QED  BY <1>6, <3>1, FS_Subset
  <2> DEFINE f == [i \in X |-> [id |-> i, more |-> FALSE]]
  <2>2. f \in Surjection(X, T)
    BY DEF Surjection
  <2>3. IsFiniteSet(T)
    BY <2>1, <2>2, FS_Surjection
  <2>4. ASSUME NEW y \in T
        PROVE  y \in UoCompletion /\ ~y.more /\ y.id \in X
    <3>1. PICK i \in X : y = [id |-> i, more |-> FALSE]
      OBVIOUS
    <3>2. i \in UoIds
      BY <1>6
    <3>3. y \in UoCompletion
      BY <3>1, <3>2 DEF UoCompletion
    <3>4. y.id = i /\ y.more = FALSE
      BY <3>1
    <3> QED  BY <3>3, <3>4, Zenon
  <2> QED  BY <2>3, <2>4
<1>8. /\ s \in Seq(T) /\ R \in Nat
      /\ \A i, j \in 1 .. R : s[i] = s[j] => i = j
      /\ \A y \in T : \E i \in 1 .. R : s[i] = y
  BY <1>7, SetAsSequence
<1>9. /\ \A i \in 1 .. R : s[i] \in UoCompletion /\ ~s[i].more /\ s[i].id \in X
      /\ \A i, j \in 1 .. R : s[i].id = s[j].id => i = j
      /\ \A x \in X : \E i \in 1 .. R : s[i].id = x
  <2>0. \A i \in 1 .. R : s[i] \in T
    <3> HIDE DEF s, T
    <3> QED  BY <1>8
  <2>1. \A i \in 1 .. R : s[i] \in UoCompletion /\ ~s[i].more /\ s[i].id \in X
    BY <1>7, <2>0
  <2>2. ASSUME NEW y \in T, NEW z \in T, y.id = z.id
        PROVE  y = z
    <3>1. PICK i \in X : y = [id |-> i, more |-> FALSE]
      OBVIOUS
    <3>2. PICK j \in X : z = [id |-> j, more |-> FALSE]
      OBVIOUS
    <3>3. y.id = i /\ z.id = j
      BY <3>1, <3>2
    <3>4. i = j
      BY <2>2, <3>3
    <3> QED  BY <3>1, <3>2, <3>4, Zenon
  <2>3. \A i, j \in 1 .. R : s[i].id = s[j].id => i = j
    BY <1>8, <2>0, <2>2
  <2>4. \A x \in X : \E i \in 1 .. R : s[i].id = x
    <3> SUFFICES ASSUME NEW x \in X
                 PROVE  \E i \in 1 .. R : s[i].id = x
      OBVIOUS
    <3>1. [id |-> x, more |-> FALSE] \in T
      OBVIOUS
    <3>2. PICK i \in 1 .. R : s[i] = [id |-> x, more |-> FALSE]
      BY <1>8, <3>1
    <3>3. [id |-> x, more |-> FALSE].id = x
      OBVIOUS
    <3> HIDE DEF s, R
    <3> QED  BY <3>2, <3>3, Zenon
  <2> QED  BY <2>1, <2>3, <2>4
<1> HIDE DEF T
<1>10. s \in Seq(UoCompletion)
  <2>1. \A i \in 1 .. R : s[i] \in UoCompletion
    BY <1>9
  <2>2. s = [i \in 1 .. R |-> s[i]]
    BY <1>8
  <2> HIDE DEF s
  <2> QED  BY <1>8, <2>1, <2>2
<1> HIDE DEF s
<1>11. /\ uoCq' \in Seq(UoCompletion) /\ Len(uoCq') = M + R
       /\ \A k \in 1 .. M : uoCq'[k] = cq[k]
       /\ \A j \in 1 .. R : uoCq'[M + j] = s[j]
  <2>1. ASSUME NEW S, NEW a \in Seq(S), NEW b \in Seq(S)
        PROVE  /\ a \o b \in Seq(S) /\ Len(a \o b) = Len(a) + Len(b)
               /\ \A i \in 1 .. Len(a) : (a \o b)[i] = a[i]
    OBVIOUS
  <2>2. ASSUME NEW S, NEW a \in Seq(S), NEW b \in Seq(S), NEW i \in 1 .. Len(b)
        PROVE  (a \o b)[Len(a) + i] = b[i]
    <3>1. Len(a) + i \in 1 .. Len(a) + Len(b) /\ ~(Len(a) + i <= Len(a)) /\ (Len(a) + i) - Len(a) = i
      OBVIOUS
    <3> QED  BY <3>1
  <2> QED  BY <1>1, <1>10, <1>q, <2>1, <2>2
<1>12. /\ uoSq' \in Seq(UoEntry) /\ Len(uoSq') = L - n
       /\ \A i \in 1 .. L - n : uoSq'[i] = sq[n + i] /\ n + i \in 1 .. L /\ n + i \notin 1 .. n
  <2>1. uoSq' \in Seq(UoEntry) /\ Len(uoSq') = L - n
    BY <1>1, <1>2, <1>q
  <2>2. \A i \in 1 .. L - n : uoSq'[i] = sq[n + i]
    BY <1>1, <1>2, <1>q
  <2>3. \A i \in 1 .. L - n : n + i \in 1 .. L /\ n + i \notin 1 .. n
    BY <1>2
  <2> QED  BY <2>1, <2>2, <2>3
<1>13. \A i \in 1 .. L : i \in 1 .. n \/ (i - n \in 1 .. L - n /\ n + (i - n) = i)
  BY <1>2
<1> HIDE DEF L, M, R, K, cq
\* What is left in the queue has not begun.
<1>14. ASSUME NEW i \in 1 .. L - n, uoSq'[i].id # 0
       PROVE  uoSq'[i].id \notin K \cup B /\ \A k \in 1 .. M : cq[k].id # uoSq'[i].id
  <2>1. uoSq'[i] = sq[n + i] /\ n + i \in 1 .. L /\ n + i \notin 1 .. n
    BY <1>12
  <2>2. ASSUME sq[n + i].id \in B
        PROVE  FALSE
    <3>1. PICK j \in 1 .. n : sq[j].id = sq[n + i].id
      BY <1>5, <2>2
    <3>2. j \in 1 .. L
      BY <1>3
    <3>3. \A a, b \in 1 .. L : sq[a].id = sq[b].id /\ sq[a].id # 0 => a = b
      BY <1>q
    <3>4. j = n + i
      BY <1>14, <2>1, <3>1, <3>2, <3>3
    <3> QED  BY <2>1, <3>4
  <2> QED  BY <1>14, <1>q, <2>1, <2>2
<1>15. \A b \in B : b < next /\ \A k \in 1 .. M : cq[k].id # b
  BY <1>3, <1>5, <1>q
\* The new completions.
<1>16. \A k \in M + 1 .. M + R : k - M \in 1 .. R /\ M + (k - M) = k
  BY <1>2, <1>8, SMTT(30) DEF M, R
<1>17. \A k \in M + 1 .. M + R : uoCq'[k] = s[k - M] /\ ~uoCq'[k].more /\ uoCq'[k].id \in X
  <2> SUFFICES ASSUME NEW k \in M + 1 .. M + R
               PROVE  uoCq'[k] = s[k - M] /\ ~uoCq'[k].more /\ uoCq'[k].id \in X
    OBVIOUS
  <2>1. k - M \in 1 .. R /\ M + (k - M) = k
    BY <1>16
  <2>2. uoCq'[k] = s[k - M]
    BY <1>11, <2>1
  <2> QED  BY <1>9, <2>1, <2>2
<1>18. \A j, k \in M + 1 .. M + R : uoCq'[j].id = uoCq'[k].id => j = k
  <2> SUFFICES ASSUME NEW j \in M + 1 .. M + R, NEW k \in M + 1 .. M + R, uoCq'[j].id = uoCq'[k].id
               PROVE  j = k
    OBVIOUS
  <2>1. j - M = k - M
    BY <1>9, <1>16, <1>17
  <2>2. M + (j - M) = j /\ M + (k - M) = k
    BY <1>16
  <2> QED  BY <2>1, <2>2
<1>19. \A x \in X : \E m \in M + 1 .. M + R : uoCq'[m].id = x
  <2> SUFFICES ASSUME NEW x \in X
               PROVE  \E m \in M + 1 .. M + R : uoCq'[m].id = x
    OBVIOUS
  <2>1. PICK i \in 1 .. R : s[i].id = x
    BY <1>9
  <2>2. M + i \in M + 1 .. M + R
    BY <1>2, <1>8 DEF M, R
  <2> QED  BY <1>11, <2>1, <2>2
<1>20. \A k \in 1 .. M + R : k \in 1 .. M \/ k \in M + 1 .. M + R
  BY <1>2, <1>8 DEF M, R
<1>21. UoQueues(next, uoSq', uoKernel', uoCq')
  <2>1. uoKernel' \subseteq UoIds /\ \A id \in uoKernel' : id < next
    BY <1>1, <1>5, <1>15, <1>q
  <2>2. \A i \in 1 .. L - n : uoSq'[i].id < next
    BY <1>12, <1>q
  <2>3. \A k \in 1 .. M + R : uoCq'[k].id < next
    BY <1>6, <1>11, <1>15, <1>17, <1>20, <1>q
  <2>4. \A i, j \in 1 .. L - n : uoSq'[i].id = uoSq'[j].id /\ uoSq'[i].id # 0 => i = j
    <3> SUFFICES ASSUME NEW i \in 1 .. L - n, NEW j \in 1 .. L - n, uoSq'[i].id = uoSq'[j].id, uoSq'[i].id # 0
                 PROVE  i = j
      OBVIOUS
    <3>1. n + i = n + j
      BY <1>12, <1>q
    <3> QED  BY <1>2, <3>1
  <2>5. \A i \in 1 .. L - n : uoSq'[i].id # 0 =>
          uoSq'[i].id \notin uoKernel' /\ \A k \in 1 .. M + R : uoCq'[k].id # uoSq'[i].id
    <3> SUFFICES ASSUME NEW i \in 1 .. L - n, uoSq'[i].id # 0
                 PROVE  uoSq'[i].id \notin uoKernel' /\ \A k \in 1 .. M + R : uoCq'[k].id # uoSq'[i].id
      OBVIOUS
    <3>1. uoSq'[i].id \notin K \cup B /\ \A k \in 1 .. M : cq[k].id # uoSq'[i].id
      BY <1>14
    <3>2. \A k \in 1 .. M + R : uoCq'[k].id # uoSq'[i].id
      BY <1>6, <1>11, <1>17, <1>20, <3>1
    <3> QED  BY <1>1, <3>1, <3>2 DEF K
  <2>6. \A k \in 1 .. M + R : ~uoCq'[k].more =>
          uoCq'[k].id \notin uoKernel' /\ \A m \in k + 1 .. M + R : uoCq'[m].id # uoCq'[k].id
    <3> SUFFICES ASSUME NEW k \in 1 .. M + R, ~uoCq'[k].more
                 PROVE  uoCq'[k].id \notin uoKernel' /\ \A m \in k + 1 .. M + R : uoCq'[m].id # uoCq'[k].id
      OBVIOUS
    <3>1. CASE k \in 1 .. M
      <4>1. uoCq'[k] = cq[k] /\ cq[k].id \notin K /\ cq[k].id \notin B
            /\ \A m \in k + 1 .. M : cq[m].id # cq[k].id
        BY <1>11, <1>15, <1>q, <3>1
      <4>2. \A m \in k + 1 .. M + R : m \in M + 1 .. M + R \/ (m \in k + 1 .. M /\ m \in 1 .. M)
        BY <1>2, <1>8, <3>1 DEF M, R
      <4>3. \A m \in k + 1 .. M + R : uoCq'[m].id # cq[k].id
        BY <1>6, <1>11, <1>17, <4>1, <4>2
      <4> QED  BY <1>1, <4>1, <4>3 DEF K
    <3>2. CASE k \in M + 1 .. M + R
      <4>1. \A m \in k + 1 .. M + R : m \in M + 1 .. M + R /\ m # k
        BY <1>2, <1>8, <3>2 DEF M, R
      <4>2. \A m \in k + 1 .. M + R : uoCq'[m].id # uoCq'[k].id
        BY <1>18, <3>2, <4>1
      <4>3. uoCq'[k].id \in X
        BY <1>17, <3>2
      <4> QED  BY <1>1, <4>2, <4>3
    <3> QED  BY <1>20, <3>1, <3>2
  <2>7. \A k \in 1 .. M + R : uoCq'[k].more =>
          uoCq'[k].id \in uoKernel' \/ \E m \in k + 1 .. M + R : uoCq'[m].id = uoCq'[k].id
    <3> SUFFICES ASSUME NEW k \in 1 .. M + R, uoCq'[k].more, uoCq'[k].id \notin uoKernel'
                 PROVE  \E m \in k + 1 .. M + R : uoCq'[m].id = uoCq'[k].id
      OBVIOUS
    <3>1. k \in 1 .. M /\ uoCq'[k] = cq[k]
      BY <1>11, <1>17, <1>20
    <3>2. cq[k].id \in X \/ cq[k].id \notin K
      BY <1>1, <3>1 DEF K
    <3>3. CASE cq[k].id \in X
      <4>1. PICK m \in M + 1 .. M + R : uoCq'[m].id = cq[k].id
        BY <1>19, <3>3
      <4>2. m \in k + 1 .. M + R
        BY <1>2, <1>8, <3>1 DEF M, R
      <4> QED  BY <3>1, <4>1, <4>2
    <3>4. CASE cq[k].id \notin K
      <4>1. PICK m \in k + 1 .. M : cq[m].id = cq[k].id
        BY <1>q, <3>1, <3>4
      <4>2. m \in k + 1 .. M + R /\ m \in 1 .. M
        BY <1>2, <1>8, <3>1 DEF M, R
      <4> QED  BY <1>11, <3>1, <4>1, <4>2
    <3> QED  BY <3>2, <3>3, <3>4
  <2>8. next \in Nat \ {0}
    BY <1>q
  <2> QED  BY <1>11, <1>12, <2>1, <2>2, <2>3, <2>4, <2>5, <2>6, <2>7, <2>8 DEF UoQueues
<1>22. ASSUME NEW id \in UoIds
       PROVE  /\ id # 0
              /\ (\E i \in 1 .. L : sq[i].id = id) <=> id \in B \/ \E i \in 1 .. L - n : uoSq'[i].id = id
  <2>1. id # 0
    BY UoAssumption DEF UoIds
  <2>2. ASSUME NEW i \in 1 .. L, sq[i].id = id
        PROVE  id \in B \/ \E j \in 1 .. L - n : uoSq'[j].id = id
    <3>1. CASE i \in 1 .. n
      BY <1>4, <2>1, <2>2, <3>1
    <3>2. CASE i - n \in 1 .. L - n /\ n + (i - n) = i
      BY <1>12, <2>2, <3>2
    <3> QED  BY <1>13, <3>1, <3>2
  <2>3. ASSUME NEW j \in 1 .. L - n, uoSq'[j].id = id
        PROVE  \E i \in 1 .. L : sq[i].id = id
    BY <1>12, <2>3
  <2>4. id \in B => \E i \in 1 .. L : sq[i].id = id
    BY <1>3, <1>5
  <2> QED  BY <2>1, <2>2, <2>3, <2>4
<1>23. \A id \in X : OnWay(sq, K, id) /\ ~OnWay(uoSq', uoKernel', id)
  <2> SUFFICES ASSUME NEW id \in X
               PROVE  OnWay(sq, K, id) /\ ~OnWay(uoSq', uoKernel', id)
    OBVIOUS
  <2>1. id \in UoIds /\ id \in K \cup B
    BY <1>6
  <2>2. OnWay(sq, K, id)
    BY <1>22, <2>1 DEF OnWay, L
  <2>3. ~\E i \in 1 .. L - n : uoSq'[i].id = id
    BY <1>14, <1>22, <2>1
  <2> QED  BY <1>1, <1>12, <2>2, <2>3 DEF OnWay
<1>24. \A id \in UoIds \ X : OnWay(uoSq', uoKernel', id) <=> OnWay(sq, K, id)
  <2> SUFFICES ASSUME NEW id \in UoIds \ X
               PROVE  OnWay(uoSq', uoKernel', id) <=> OnWay(sq, K, id)
    OBVIOUS
  <2>1. OnWay(sq, K, id) <=> id \in K \/ id \in B \/ \E i \in 1 .. L - n : uoSq'[i].id = id
    BY <1>22 DEF OnWay, L
  <2>2. OnWay(uoSq', uoKernel', id) <=> id \in (K \cup B) \ X \/ \E i \in 1 .. L - n : uoSq'[i].id = id
    BY <1>1, <1>12 DEF OnWay
  <2> QED  BY <2>1, <2>2
<1>25. Len(uoCq) <= Len(uoCq')
  BY <1>2, <1>8, <1>11 DEF M, R, cq
<1>26. UoEntered(next, sq, X)
  <2>1. \A id \in X : \E m \in M + 1 .. M + R :
          uoCq'[m].id = id /\ \A k \in M + 1 .. M + R : uoCq'[k].id = id => k = m
    BY <1>18, <1>19
  <2> QED  BY <1>6, <1>11, <1>17, <1>21, <1>23, <1>24, <1>25, <2>1 DEF UoEntered, K, M, cq
<1> QED  BY <1>6, <1>26

\* A queue with one more entry, of a new operation or of none.
LEMMA UoAppended ==
  ASSUME NEW next, NEW sq, NEW kernel, NEW cq, UoQueues(next, sq, kernel, cq),
         NEW e \in UoEntry, NEW more \in Nat, next <= more, e.id < more, e.id = 0 \/ e.id >= next
  PROVE  /\ UoQueues(more, Append(sq, e), kernel, cq) /\ Len(Append(sq, e)) = Len(sq) + 1 /\ Len(sq) \in Nat
         /\ \A id \in UoIds : OnWay(Append(sq, e), kernel, id) <=> OnWay(sq, kernel, id) \/ id = e.id
<1> DEFINE q == Append(sq, e)
           L == Len(sq)
           M == Len(cq)
<1>1. /\ next \in Nat \ {0}
      /\ sq \in Seq(UoEntry) /\ cq \in Seq(UoCompletion) /\ kernel \subseteq UoIds
      /\ \A i \in 1 .. L : sq[i].id < next
      /\ \A k \in 1 .. M : cq[k].id < next
      /\ \A id \in kernel : id < next
      /\ \A i, j \in 1 .. L : sq[i].id = sq[j].id /\ sq[i].id # 0 => i = j
      /\ \A i \in 1 .. L : sq[i].id # 0 => sq[i].id \notin kernel /\ \A k \in 1 .. M : cq[k].id # sq[i].id
      /\ \A k \in 1 .. M : ~cq[k].more => cq[k].id \notin kernel /\ \A m \in k + 1 .. M : cq[m].id # cq[k].id
      /\ \A k \in 1 .. M : cq[k].more => cq[k].id \in kernel \/ \E m \in k + 1 .. M : cq[m].id = cq[k].id
  BY DEF UoQueues
<1>2. /\ L \in Nat /\ M \in Nat /\ q \in Seq(UoEntry) /\ Len(q) = L + 1 /\ q[L + 1] = e
      /\ \A i \in 1 .. L : q[i] = sq[i]
  BY <1>1
<1>3. /\ \A i \in 1 .. L : sq[i].id \in Nat
      /\ \A k \in 1 .. M : cq[k].id \in Nat /\ cq[k].id # 0
      /\ \A id \in kernel : id \in Nat /\ id # 0
      /\ e.id \in Nat
  <2>0. UoIds \subseteq Nat /\ 0 \notin UoIds /\ 0 .. UoMaxId \subseteq Nat
    BY UoAssumption DEF UoIds
  <2>1. \A i \in 1 .. L : sq[i] \in UoEntry
    BY <1>1
  <2>2. \A k \in 1 .. M : cq[k] \in UoCompletion
    BY <1>1
  <2> QED  BY <1>1, <2>0, <2>1, <2>2 DEF UoEntry, UoCompletion
<1> HIDE DEF q, L, M
<1>4. \A i \in 1 .. L + 1 : i \in 1 .. L \/ i = L + 1
  BY <1>2
<1>5. /\ \A i \in 1 .. L : sq[i].id < more
      /\ \A k \in 1 .. M : cq[k].id < more
      /\ \A id \in kernel : id < more
  BY <1>1, <1>3
<1>6. e.id # 0 => /\ e.id \notin kernel
                  /\ \A k \in 1 .. M : cq[k].id # e.id
                  /\ \A i \in 1 .. L : sq[i].id # e.id
  BY <1>1, <1>3
<1>7. \A i \in 1 .. L + 1 : q[i].id < more
  BY <1>2, <1>4, <1>5
<1>8. ASSUME NEW i \in 1 .. L + 1, NEW j \in 1 .. L + 1, q[i].id = q[j].id, q[i].id # 0
      PROVE  i = j
  <2>1. CASE i \in 1 .. L /\ j \in 1 .. L
    BY <1>1, <1>2, <1>8, <2>1
  <2>2. CASE i \in 1 .. L /\ j = L + 1
    BY <1>2, <1>6, <1>8, <2>2
  <2>3. CASE i = L + 1 /\ j \in 1 .. L
    BY <1>2, <1>6, <1>8, <2>3
  <2> QED  BY <1>4, <2>1, <2>2, <2>3
<1>9. \A i \in 1 .. L + 1 : q[i].id # 0 => q[i].id \notin kernel /\ \A k \in 1 .. M : cq[k].id # q[i].id
  <2> SUFFICES ASSUME NEW i \in 1 .. L + 1, q[i].id # 0
               PROVE  q[i].id \notin kernel /\ \A k \in 1 .. M : cq[k].id # q[i].id
    OBVIOUS
  <2>1. CASE i \in 1 .. L
    BY <1>1, <1>2, <2>1
  <2>2. CASE i = L + 1
    BY <1>2, <1>6, <2>2
  <2> QED  BY <1>4, <2>1, <2>2
<1>10. more \in Nat \ {0}
  BY <1>1
<1>11. UoQueues(more, q, kernel, cq)
  BY <1>1, <1>2, <1>5, <1>7, <1>8, <1>9, <1>10 DEF UoQueues, M
<1>12. ASSUME NEW id \in UoIds
       PROVE  OnWay(q, kernel, id) <=> OnWay(sq, kernel, id) \/ id = e.id
  <2>1. (\E i \in 1 .. L + 1 : q[i].id = id) <=> (\E i \in 1 .. L : sq[i].id = id) \/ id = e.id
    <3>1. L + 1 \in 1 .. L + 1 /\ \A i \in 1 .. L : i \in 1 .. L + 1
      BY <1>2
    <3> QED  BY <1>2, <1>4, <3>1
  <2> QED  BY <1>2, <2>1 DEF OnWay, L
<1> QED  BY <1>2, <1>11, <1>12 DEF q, L

\* A queue that io_uring_enter does not take from.
LEMMA UoNotEntered ==
  ASSUME NEW next, NEW sq, UoQueues(next, sq, uoKernel, uoCq),
         uoSq' = sq, uoKernel' = uoKernel, uoCq' = uoCq
  PROVE  UoEntered(next, sq, {})
<1>1. Len(uoCq) \in Nat
  BY DEF UoQueues
<1>2. \A k \in Len(uoCq) + 1 .. Len(uoCq) : FALSE
  BY <1>1
<1> QED  BY <1>1, <1>2 DEF UoEntered

\* What an action may do to the table, the queues and what the client is told
\* when it submits the operations N and nothing is called back.
UoSubmits(N, next, sq) ==
  /\ uoNextId' = next
  /\ \A id \in UoIds : id \in N <=> (id >= uoNextId /\ id < next)
  /\ \A id \in UoIds : OnWay(sq, uoKernel, id) <=> OnWay(uoSq, uoKernel, id) \/ id \in N
  /\ UoTable(uoOps', next)
  /\ \A j \in UoIds \ N : ActiveSlot(uoOps', j) <=> ActiveSlot(uoOps, j)
  /\ \A i \in 1 .. Len(uoOps) : uoOps[i].active => i \in 1 .. Len(uoOps') /\ uoOps'[i] = uoOps[i]
  /\ \A i \in 1 .. Len(uoOps') :
       \/ uoOps'[i].id \in N /\ (uoOps'[i].kind = "zero copy" => uoOps'[i].id \in uoZero')
       \/ uoOps'[i].id = 0 /\ uoOps'[i].kind = "single"
       \/ i \in 1 .. Len(uoOps) /\ uoOps'[i] = uoOps[i]
  /\ uoZero \subseteq uoZero' /\ uoZero' \subseteq uoZero \cup N
  /\ DOMAIN uoTold' = UoIds /\ \A j \in UoIds \ N : uoTold'[j] = uoTold[j]
  /\ \A j \in N : uoTold'[j] = "submitted" => ActiveSlot(uoOps', j)
  /\ \A j \in N : uoTold'[j] = "failed" => ~ActiveSlot(uoOps', j)
  /\ uoPoll' = uoPoll \/ (uoPoll = -1 /\ uoPoll' = 0)
  /\ uoCalls' = uoCalls /\ uoFinal' = uoFinal /\ uoShots' = uoShots
  /\ uoRun' \in [slot : Nat, moved : BOOLEAN, goesOn : BOOLEAN]
  /\ uoRun'.slot = uoRun.slot /\ uoRun'.goesOn = uoRun.goesOn
  /\ uoRun = NoRun => uoRun' = NoRun

LEMMA UoSubmitsOK ==
  ASSUME UoInv, NEW N \in SUBSET UoIds, NEW next \in Nat, uoNextId <= next, NEW sq, UoSubmits(N, next, sq),
         NEW X \in SUBSET UoIds, UoEntered(next, sq, X)
  PROVE  UoInv'
<1> DEFINE cq == uoCq
           M == Len(cq)
           seen == Seen
<1>1. /\ uoNextId \in Nat \ {0} /\ cq \in Seq(UoCompletion) /\ M \in Nat
      /\ \A k \in 1 .. M : cq[k].id < uoNextId
  BY DEF UoInv, UoQueues
<1>2. /\ uoPoll \in -1 .. M /\ uoCalls \in [UoIds -> Nat] /\ uoShots \in [UoIds -> Nat]
      /\ uoFinal \subseteq UoIds
      /\ \A id \in UoIds : id >= uoNextId => uoTold[id] = "none" /\ uoCalls[id] = 0 /\ id \notin uoFinal
  BY DEF UoInv, UoTypeOK
<1>3. UoIds \subseteq Nat \ {0}
  BY UoAssumption DEF UoIds
<1>s. /\ uoNextId' = next
      /\ \A id \in UoIds : id \in N <=> (id >= uoNextId /\ id < next)
      /\ \A id \in UoIds : OnWay(sq, uoKernel, id) <=> OnWay(uoSq, uoKernel, id) \/ id \in N
      /\ UoTable(uoOps', next)
      /\ \A j \in UoIds \ N : ActiveSlot(uoOps', j) <=> ActiveSlot(uoOps, j)
      /\ \A i \in 1 .. Len(uoOps) : uoOps[i].active => i \in 1 .. Len(uoOps') /\ uoOps'[i] = uoOps[i]
      /\ \A i \in 1 .. Len(uoOps') :
           \/ uoOps'[i].id \in N /\ (uoOps'[i].kind = "zero copy" => uoOps'[i].id \in uoZero')
           \/ uoOps'[i].id = 0 /\ uoOps'[i].kind = "single"
           \/ i \in 1 .. Len(uoOps) /\ uoOps'[i] = uoOps[i]
      /\ uoZero \subseteq uoZero' /\ uoZero' \subseteq uoZero \cup N
      /\ DOMAIN uoTold' = UoIds /\ \A j \in UoIds \ N : uoTold'[j] = uoTold[j]
      /\ \A j \in N : uoTold'[j] = "submitted" => ActiveSlot(uoOps', j)
      /\ \A j \in N : uoTold'[j] = "failed" => ~ActiveSlot(uoOps', j)
      /\ uoPoll' = uoPoll \/ (uoPoll = -1 /\ uoPoll' = 0)
      /\ uoCalls' = uoCalls /\ uoFinal' = uoFinal /\ uoShots' = uoShots
  BY DEF UoSubmits
<1>r. /\ uoRun' \in [slot : Nat, moved : BOOLEAN, goesOn : BOOLEAN]
      /\ uoRun'.slot = uoRun.slot /\ uoRun'.goesOn = uoRun.goesOn
      /\ uoRun = NoRun => uoRun' = NoRun
  BY DEF UoSubmits
<1>e. /\ UoQueues(next, uoSq', uoKernel', uoCq')
      /\ \A id \in X : OnWay(sq, uoKernel, id) /\ ~OnWay(uoSq', uoKernel', id)
      /\ \A id \in UoIds \ X : OnWay(uoSq', uoKernel', id) <=> OnWay(sq, uoKernel, id)
      /\ M <= Len(uoCq')
      /\ \A k \in 1 .. M : uoCq'[k] = cq[k]
      /\ \A k \in M + 1 .. Len(uoCq') : ~uoCq'[k].more /\ uoCq'[k].id \in X
      /\ \A id \in X : \E m \in M + 1 .. Len(uoCq') :
           uoCq'[m].id = id /\ \A k \in M + 1 .. Len(uoCq') : uoCq'[k].id = id => k = m
  BY DEF UoEntered
<1>4. Len(uoCq') \in Nat /\ uoCq' \in Seq(UoCompletion)
  BY <1>e DEF UoQueues
<1>5. seen \in 0 .. M /\ Seen' = seen /\ uoPoll' \in -1 .. Len(uoCq')
  <2>1. uoPoll' = uoPoll \/ (uoPoll = -1 /\ uoPoll' = 0)
    BY <1>s
  <2>2. uoPoll \in -1 .. M /\ M <= Len(uoCq')
    BY <1>2, <1>e
  <2> HIDE DEF M, cq
  <2>3. M \in Nat /\ Len(uoCq') \in Nat
    BY <1>1, <1>4
  <2>4. CASE uoPoll = -1
    BY <2>1, <2>2, <2>3, <2>4 DEF Seen
  <2>5. CASE uoPoll # -1
    BY <2>1, <2>2, <2>3, <2>5 DEF Seen
  <2> QED  BY <2>4, <2>5
<1>n. \A id \in UoIds : id \in N <=> (id >= uoNextId /\ id < next)
  BY <1>s
<1>6. \A k \in 1 .. M : cq[k].id \in UoIds
  <2>1. \A k \in 1 .. M : cq[k] \in UoCompletion
    BY <1>1
  <2> QED  BY <2>1 DEF UoCompletion
<1> HIDE DEF M, seen, cq
<1>7. \A k \in 1 .. Len(uoCq') : k \in 1 .. M \/ k \in M + 1 .. Len(uoCq')
  BY <1>1, <1>4
<1>8. \A id \in UoIds \ X : Waiting(uoCq', seen, id) = Waiting(cq, seen, id)
                            /\ (Comes(uoCq', seen, id) <=> Comes(cq, seen, id))
  <2> SUFFICES ASSUME NEW id \in UoIds \ X
               PROVE  Waiting(uoCq', seen, id) = Waiting(cq, seen, id)
                      /\ (Comes(uoCq', seen, id) <=> Comes(cq, seen, id))
    OBVIOUS
  <2>1. Len(cq) \in Nat /\ Len(uoCq') \in Nat /\ Len(cq) <= Len(uoCq') /\ seen \in Nat
    BY <1>1, <1>4, <1>5, <1>e DEF M
  <2>2. (\A k \in 1 .. Len(cq) : uoCq'[k].id = cq[k].id) /\ \A k \in Len(cq) + 1 .. Len(uoCq') : uoCq'[k].id # id
    BY <1>e DEF M
  <2> QED  BY <2>1, <2>2, WaitingSame
<1>9. \A id \in X : Waiting(uoCq', seen, id) = Waiting(cq, seen, id) + 1 /\ Comes(uoCq', seen, id)
  <2> SUFFICES ASSUME NEW id \in X
               PROVE  Waiting(uoCq', seen, id) = Waiting(cq, seen, id) + 1 /\ Comes(uoCq', seen, id)
    OBVIOUS
  <2>1. Len(cq) \in Nat /\ Len(uoCq') \in Nat /\ seen \in 0 .. Len(cq)
    BY <1>1, <1>4, <1>5 DEF M
  <2>2. \A k \in 1 .. Len(cq) : uoCq'[k].id = cq[k].id
    BY <1>e DEF M
  <2>3. PICK m \in Len(cq) + 1 .. Len(uoCq') :
          uoCq'[m].id = id /\ \A k \in Len(cq) + 1 .. Len(uoCq') : uoCq'[k].id = id => k = m
    BY <1>e DEF M
  <2> QED  BY <2>1, <2>2, <2>3, WaitingOneMore, ZenonT(60)
<1>10. \A id \in UoIds : Waiting(cq, seen, id) \in Nat /\ Waiting(uoCq', seen, id) \in Nat
  <2>1. Len(cq) \in Nat /\ Len(uoCq') \in Nat /\ seen \in Nat
    BY <1>1, <1>4, <1>5 DEF M
  <2> QED  BY <2>1, WaitingType
<1>t. /\ \A id \in UoIds : uoTold[id] = "submitted" /\ id \notin uoFinal =>
           ActiveSlot(uoOps, id) /\ (OnWay(uoSq, uoKernel, id) \/ Comes(cq, seen, id))
      /\ \A id \in UoIds : uoTold[id] = "failed" => uoCalls[id] = 0 /\ ~ActiveSlot(uoOps, id)
      /\ \A id \in uoFinal \ uoZero : ~OnWay(uoSq, uoKernel, id) /\ ~Comes(cq, seen, id)
      /\ \A id \in UoIds : uoCalls[id] + Waiting(cq, seen, id)
                             <= uoShots[id] + (IF OnWay(uoSq, uoKernel, id) THEN 0 ELSE 1)
  BY DEF UoInv, UoToldInv, cq, seen
<1>11. UoTypeOK'
  <2>1. \A id \in UoIds : id >= next => id \notin N /\ id >= uoNextId
    BY <1>1, <1>3, <1>n
  <2>2. \A id \in UoIds : id >= next => uoTold'[id] = "none" /\ uoCalls[id] = 0 /\ id \notin uoFinal
    BY <1>2, <1>s, <2>1
  <2> QED  BY <1>2, <1>5, <1>s, <2>2 DEF UoTypeOK
<1>12. ASSUME NEW k \in 1 .. Len(uoCq'), uoCq'[k].more, NEW i \in 1 .. Len(uoOps'), uoOps'[i].id = uoCq'[k].id
       PROVE  uoOps'[i].kind # "single"
  <2>1. k \in 1 .. M /\ uoCq'[k] = cq[k]
    BY <1>7, <1>12, <1>e
  <2>2. uoOps'[i].id # 0 /\ uoOps'[i].id \notin N
    <3>1. uoOps'[i].id \in UoIds /\ uoOps'[i].id < uoNextId
      BY <1>1, <1>6, <1>12, <2>1 DEF M
    <3> DEFINE y == uoOps'[i].id
    <3>2. y \in N => y >= uoNextId
      BY <1>n, <3>1, Zenon
    <3>3. y \in Nat \ {0}
      BY <1>3, <3>1
    <3>4. y < uoNextId
      BY <3>1
    <3> HIDE DEF y
    <3>5. y # 0 /\ y \notin N
      BY <1>1, <3>2, <3>3, <3>4
    <3> QED  BY <3>5 DEF y
  <2>3. i \in 1 .. Len(uoOps) /\ uoOps'[i] = uoOps[i]
    BY <1>s, <2>2
  <2> QED  BY <1>12, <2>1, <2>3 DEF UoInv, UoKindInv, cq, M
<1>13. ASSUME NEW i \in 1 .. Len(uoOps'), uoOps'[i].kind = "zero copy"
       PROVE  uoOps'[i].id \in uoZero'
  <2>1. \A j \in 1 .. Len(uoOps) : uoOps[j].kind = "zero copy" => uoOps[j].id \in uoZero
    BY DEF UoInv, UoKindInv
  <2> QED  BY <1>13, <1>s, <2>1
<1>14. UoKindInv'
  BY <1>12, <1>13 DEF UoKindInv
<1>15. ASSUME NEW id \in UoIds, uoTold'[id] = "submitted", id \notin uoFinal
       PROVE  ActiveSlot(uoOps', id) /\ (OnWay(uoSq', uoKernel', id) \/ Comes(uoCq', seen, id))
  <2>1. ActiveSlot(uoOps', id) /\ (OnWay(sq, uoKernel, id) \/ Comes(cq, seen, id))
    BY <1>15, <1>s, <1>t
  <2>2. CASE id \in X
    BY <1>9, <2>1, <2>2
  <2>3. CASE id \notin X
    BY <1>8, <1>e, <2>1, <2>3
  <2> QED  BY <2>2, <2>3
<1>16. ASSUME NEW id \in UoIds, uoTold'[id] = "failed"
       PROVE  uoCalls[id] = 0 /\ ~ActiveSlot(uoOps', id)
  BY <1>2, <1>16, <1>s, <1>t
<1>17. ASSUME NEW id \in uoFinal \ uoZero'
       PROVE  ~OnWay(uoSq', uoKernel', id) /\ ~Comes(uoCq', seen, id)
  <2>1. id \in UoIds /\ id \notin N /\ id \in uoFinal \ uoZero
    BY <1>2, <1>17, <1>s
  <2>2. ~OnWay(sq, uoKernel, id) /\ ~Comes(cq, seen, id)
    BY <1>s, <1>t, <2>1
  <2>3. id \notin X
    BY <1>e, <2>2
  <2> QED  BY <1>8, <1>e, <2>1, <2>2, <2>3
<1>18. ASSUME NEW id \in UoIds
       PROVE  uoCalls[id] + Waiting(uoCq', seen, id)
                <= uoShots[id] + (IF OnWay(uoSq', uoKernel', id) THEN 0 ELSE 1)
  <2> DEFINE c == uoCalls[id]
             h == uoShots[id]
             w == Waiting(cq, seen, id)
             v == Waiting(uoCq', seen, id)
  <2>0. c \in Nat /\ h \in Nat /\ w \in Nat /\ v \in Nat
    BY <1>2, <1>10
  <2>1. c + w <= h + (IF OnWay(uoSq, uoKernel, id) THEN 0 ELSE 1)
    BY <1>t
  <2>2. CASE id \in N
    <3>1. c = 0 /\ id >= uoNextId
      BY <1>2, <1>s, <2>2
    <3>2. w = 0
      <4>1. \A k \in seen + 1 .. M : k \in 1 .. M
        BY <1>1, <1>5
      <4>2. \A k \in seen + 1 .. M : cq[k].id # id
        BY <1>1, <1>3, <1>6, <3>1, <4>1
      <4>3. {k \in seen + 1 .. M : cq[k].id = id} = {}
        BY <4>2
      <4> QED  BY <4>3, FS_EmptySet DEF Waiting, M
    <3>3. CASE id \in X
      <4>1. v = w + 1 /\ ~OnWay(uoSq', uoKernel', id)
        BY <1>9, <1>e, <3>3
      <4> HIDE DEF c, h, w, v
      <4>2. c + v <= h + 1
        BY <2>0, <3>1, <3>2, <4>1
      <4> QED  BY <4>1, <4>2 DEF c, h, w, v
    <3>4. CASE id \notin X
      <4>1. v = w
        BY <1>8, <3>4
      <4> HIDE DEF c, h, w, v
      <4>2. c + v <= h + 0 /\ c + v <= h + 1
        BY <2>0, <3>1, <3>2, <4>1
      <4> QED  BY <4>2 DEF c, h, w, v
    <3> QED  BY <3>3, <3>4
  <2>3. CASE id \notin N
    <3>1. OnWay(sq, uoKernel, id) <=> OnWay(uoSq, uoKernel, id)
      BY <1>s, <2>3
    <3>2. CASE id \in X
      <4>1. v = w + 1 /\ ~OnWay(uoSq', uoKernel', id) /\ OnWay(uoSq, uoKernel, id)
        BY <1>9, <1>e, <3>1, <3>2
      <4> HIDE DEF c, h, w, v
      <4>2. c + w <= h + 0
        BY <2>1, <4>1
      <4>3. c + v <= h + 1
        BY <2>0, <4>1, <4>2
      <4> QED  BY <4>1, <4>3 DEF c, h, w, v
    <3>3. CASE id \notin X
      <4>1. v = w /\ (OnWay(uoSq', uoKernel', id) <=> OnWay(uoSq, uoKernel, id))
        BY <1>8, <1>e, <3>1, <3>3
      <4> HIDE DEF c, h, w, v
      <4>2. CASE OnWay(uoSq, uoKernel, id)
        <5>1. c + v <= h + 0
          BY <2>1, <4>1, <4>2
        <5> QED  BY <4>1, <4>2, <5>1 DEF c, h, v
      <4>3. CASE ~OnWay(uoSq, uoKernel, id)
        <5>1. c + v <= h + 1
          BY <2>1, <4>1, <4>3
        <5> QED  BY <4>1, <4>3, <5>1 DEF c, h, v
      <4> QED  BY <4>2, <4>3
    <3> QED  BY <3>2, <3>3
  <2> QED  BY <2>2, <2>3
<1>19. UoToldInv'
  <2>1. uoCalls' = uoCalls /\ uoFinal' = uoFinal /\ uoShots' = uoShots
    BY <1>s
  <2> QED  BY <1>5, <1>15, <1>16, <1>17, <1>18, <2>1, Zenon DEF UoToldInv
<1>20. UoRunInv'
  <2>1. ASSUME uoRun' # NoRun, ~uoRun'.goesOn
        PROVE  uoRun'.slot \in 1 .. Len(uoOps') /\ uoOps'[uoRun'.slot].active /\ uoOps'[uoRun'.slot].id \in uoFinal'
    <3>1. uoRun # NoRun /\ ~uoRun.goesOn /\ uoRun'.slot = uoRun.slot
      BY <1>r, <2>1
    <3>2. uoRun.slot \in 1 .. Len(uoOps) /\ uoOps[uoRun.slot].active /\ uoOps[uoRun.slot].id \in uoFinal
      BY <3>1 DEF UoInv, UoRunInv
    <3>3. uoRun.slot \in 1 .. Len(uoOps') /\ uoOps'[uoRun.slot] = uoOps[uoRun.slot] /\ uoFinal' = uoFinal
      BY <1>s, <3>2
    <3> QED  BY <3>1, <3>2, <3>3
  <2> QED  BY <1>r, <2>1 DEF UoRunInv
<1> QED  BY <1>11, <1>14, <1>19, <1>20, <1>e, <1>s DEF UoInv

LEMMA UoQueueStep ==
  ASSUME UoInv, NEW N \in SUBSET UoIds, NEW next \in Nat, uoNextId <= next, NEW sq, UoSubmits(N, next, sq),
         UoQueues(next, sq, uoKernel, uoCq), NEW n \in 0 .. Len(sq),
         EnterKernel(sq, n) \/ (uoSq' = sq /\ UNCHANGED <<uoKernel, uoCq>>)
  PROVE  UoInv'
<1>1. CASE EnterKernel(sq, n)
  <2>1. PICK X \in SUBSET UoIds : UoEntered(next, sq, X)
    BY <1>1, EnterOK
  <2> QED  BY <2>1, UoSubmitsOK
<1>2. CASE uoSq' = sq /\ UNCHANGED <<uoKernel, uoCq>>
  <2>1. UoEntered(next, sq, {})
    BY <1>2, UoNotEntered
  <2> QED  BY <2>1, UoSubmitsOK
<1> QED  BY <1>1, <1>2

\* A callback that runs goes on running; the table may have moved.
LEMMA MovedOK ==
  ASSUME UoRunInv, uoRun' = Moved
  PROVE  /\ uoRun' \in [slot : Nat, moved : BOOLEAN, goesOn : BOOLEAN]
         /\ uoRun'.slot = uoRun.slot /\ uoRun'.goesOn = uoRun.goesOn
         /\ uoRun = NoRun => uoRun' = NoRun
<1> DEFINE b == uoRun.moved \/ (uoRun # NoRun /\ Len(uoOps') > Len(uoOps))
<1>1. uoRun \in [slot : Nat, moved : BOOLEAN, goesOn : BOOLEAN]
  BY DEF UoRunInv
<1>2. uoRun' = [uoRun EXCEPT !.moved = b]
  BY DEF Moved
<1>3. b \in BOOLEAN /\ (uoRun = NoRun => b = FALSE)
  BY DEF NoRun
<1> HIDE DEF b
<1>4. uoRun' \in [slot : Nat, moved : BOOLEAN, goesOn : BOOLEAN] /\ uoRun'.slot = uoRun.slot /\ uoRun'.goesOn = uoRun.goesOn
  BY <1>1, <1>2, <1>3
<1>5. ASSUME uoRun = NoRun
      PROVE  uoRun' = NoRun
  <2>1. uoRun' = [NoRun EXCEPT !.moved = FALSE]
    BY <1>2, <1>3, <1>5
  <2> QED  BY <2>1 DEF NoRun
<1> QED  BY <1>4, <1>5

\* The slot of a submission that failed is given up.
GiveUp(ops, id) ==
  [i \in DOMAIN ops |-> IF ops[i].id = id THEN [ops[i] EXCEPT !.active = FALSE] ELSE ops[i]]

LEMMA GivenUp ==
  ASSUME NEW next, NEW ops, UoTable(ops, next), NEW id \in UoIds, NEW gone, gone = GiveUp(ops, id)
  PROVE  /\ UoTable(gone, next) /\ Len(gone) = Len(ops) /\ ~ActiveSlot(gone, id)
         /\ \A j \in UoIds : j # id => (ActiveSlot(gone, j) <=> ActiveSlot(ops, j))
         /\ \A i \in 1 .. Len(ops) : gone[i].id = ops[i].id /\ gone[i].kind = ops[i].kind /\ (ops[i].id # id => gone[i] = ops[i])
<1> DEFINE L == Len(ops)
<1>1. ops \in Seq(UoSlot) /\ L \in Nat /\ L # 0 /\ DOMAIN ops = 1 .. L
  BY DEF UoTable
<1>2. \A i \in 1 .. L : ops[i] \in UoSlot
  BY <1>1
<1>3. \A i \in 1 .. L : /\ gone[i] \in UoSlot /\ gone[i].id = ops[i].id /\ gone[i].kind = ops[i].kind
                        /\ (ops[i].id # id => gone[i] = ops[i])
                        /\ (ops[i].id = id => gone[i].active = FALSE)
  <2> SUFFICES ASSUME NEW i \in 1 .. L
               PROVE  /\ gone[i] \in UoSlot /\ gone[i].id = ops[i].id /\ gone[i].kind = ops[i].kind
                      /\ (ops[i].id # id => gone[i] = ops[i])
                      /\ (ops[i].id = id => gone[i].active = FALSE)
    OBVIOUS
  <2>1. gone[i] = IF ops[i].id = id THEN [ops[i] EXCEPT !.active = FALSE] ELSE ops[i]
    BY <1>1 DEF GiveUp
  <2>2. ops[i] \in UoSlot
    BY <1>2
  <2>3. CASE ops[i].id = id
    <3>1. gone[i] = [ops[i] EXCEPT !.active = FALSE]
      BY <2>1, <2>3
    <3>2. gone[i] \in UoSlot /\ gone[i].id = ops[i].id /\ gone[i].kind = ops[i].kind /\ gone[i].active = FALSE
      BY <2>2, <3>1 DEF UoSlot
    <3> QED  BY <2>3, <3>2
  <2>4. CASE ops[i].id # id
    <3>1. gone[i] = ops[i]
      BY <2>1, <2>4
    <3> QED  BY <2>2, <2>4, <3>1
  <2> QED  BY <2>3, <2>4
<1>4. gone = [i \in 1 .. L |-> gone[i]]
  BY <1>1 DEF GiveUp
<1>5. gone \in Seq(UoSlot) /\ Len(gone) = L
  BY <1>1, <1>3, <1>4
<1> HIDE DEF L
<1>6. UoTable(gone, next)
  <2>1. /\ \A i \in 1 .. L : ops[i].id < next /\ (ops[i].active => ops[i].id \in UoIds)
        /\ \A i, j \in 1 .. L : ops[i].id = ops[j].id /\ ops[i].id # 0 => i = j
    BY DEF UoTable, L
  <2>2. /\ \A i \in 1 .. L : gone[i].id < next /\ (gone[i].active => gone[i].id \in UoIds)
        /\ \A i, j \in 1 .. L : gone[i].id = gone[j].id /\ gone[i].id # 0 => i = j
    <3>1. ASSUME NEW i \in 1 .. L
          PROVE  gone[i].id < next /\ (gone[i].active => gone[i].id \in UoIds)
      <4>1. CASE ops[i].id = id
        BY <1>3, <2>1, <4>1
      <4>2. CASE ops[i].id # id
        BY <1>3, <2>1, <4>2
      <4> QED  BY <4>1, <4>2
    <3>2. \A i, j \in 1 .. L : gone[i].id = gone[j].id /\ gone[i].id # 0 => i = j
      BY <1>3, <2>1
    <3> QED  BY <3>1, <3>2
  <2> QED  BY <1>1, <1>5, <2>2 DEF UoTable
<1>7. ~ActiveSlot(gone, id)
  BY <1>3, <1>5 DEF ActiveSlot
<1>8. \A j \in UoIds : j # id => (ActiveSlot(gone, j) <=> ActiveSlot(ops, j))
  <2> SUFFICES ASSUME NEW j \in UoIds, j # id
               PROVE  ActiveSlot(gone, j) <=> ActiveSlot(ops, j)
    OBVIOUS
  <2>1. ASSUME NEW i \in 1 .. L, gone[i].active, gone[i].id = j
        PROVE  ActiveSlot(ops, j)
    BY <1>3, <2>1 DEF ActiveSlot, L
  <2>2. ASSUME NEW i \in 1 .. L, ops[i].active, ops[i].id = j
        PROVE  ActiveSlot(gone, j)
    BY <1>3, <1>5, <2>2 DEF ActiveSlot
  <2> QED  BY <1>5, <2>1, <2>2 DEF ActiveSlot, L
<1> QED  BY <1>3, <1>5, <1>6, <1>7, <1>8 DEF L

LEMMA UoSubmitOK ==
  ASSUME UoInv, NEW kind \in UoKinds, NEW entered \in BOOLEAN, Submit(kind, entered)
  PROVE  UoInv'
<1> DEFINE id == uoNextId
           next == uoNextId + 1
           new == Allocate(uoOps, id, kind)
           e == [id |-> id, target |-> 0]
           sq == Append(uoSq, e)
           N == {id}
<1>1. id \in UoIds /\ id \in Nat \ {0} /\ next \in Nat /\ id < next /\ id <= next
  <2>1. id \in UoIds
    BY DEF Submit
  <2>2. id \in Nat \ {0}
    BY <2>1, UoAssumption DEF UoIds
  <2> QED  BY <2>1, <2>2
<1>2. UoTable(uoOps, id) /\ UoQueues(id, uoSq, uoKernel, uoCq) /\ UoTypeOK /\ UoRunInv
  BY DEF UoInv
<1>3. UoTable(new, next) /\ UoAllocated(uoOps, new, id, kind)
  <2>1. id >= id
    BY <1>1
  <2> QED  BY <1>1, <1>2, <2>1, AllocateTable
<1>4. e \in UoEntry /\ e.id = id
  <2>1. 0 \in 0 .. UoMaxId /\ id \in 0 .. UoMaxId
    BY <1>1, UoAssumption DEF UoIds
  <2> QED  BY <2>1 DEF UoEntry
<1>5. /\ UoQueues(next, sq, uoKernel, uoCq) /\ Len(sq) = Len(uoSq) + 1 /\ Len(uoSq) \in Nat
      /\ \A j \in UoIds : OnWay(sq, uoKernel, j) <=> OnWay(uoSq, uoKernel, j) \/ j = id
  <2>1. id <= next /\ e.id < next /\ e.id >= id
    BY <1>1, <1>4
  <2> HIDE DEF e, next
  <2> QED  BY <1>1, <1>2, <1>4, <2>1, UoAppended
<1>6. /\ uoTold' = [uoTold EXCEPT ![id] = IF entered THEN "submitted" ELSE "failed"]
      /\ uoZero' = IF kind = "zero copy" THEN uoZero \cup {id} ELSE uoZero
      /\ uoNextId' = next /\ uoRun' = Moved
      /\ uoPoll' = uoPoll /\ uoCalls' = uoCalls /\ uoFinal' = uoFinal /\ uoShots' = uoShots
  BY DEF Submit, uoHist
<1>7. IF entered THEN uoOps' = new /\ EnterKernel(sq, 1)
      ELSE /\ uoOps' = [i \in DOMAIN new |-> IF new[i].id = id THEN [new[i] EXCEPT !.active = FALSE] ELSE new[i]]
           /\ uoSq' = sq /\ UNCHANGED <<uoKernel, uoCq>>
  BY DEF Submit
<1> HIDE DEF new, e, sq
<1>a. /\ Len(new) >= Len(uoOps)
      /\ ActiveSlot(new, id)
      /\ \A j \in UoIds : j # id => (ActiveSlot(new, j) <=> ActiveSlot(uoOps, j))
      /\ \A i \in 1 .. Len(uoOps) : uoOps[i].active => i \in 1 .. Len(new) /\ new[i] = uoOps[i]
      /\ \A i \in 1 .. Len(new) : \/ new[i].id = id /\ new[i].kind = kind
                                  \/ new[i].id = 0 /\ new[i].kind = "single"
                                  \/ i \in 1 .. Len(uoOps) /\ new[i] = uoOps[i]
  BY <1>3 DEF UoAllocated
<1>8. DOMAIN uoTold = UoIds
  BY <1>2 DEF UoTypeOK
<1>9. DOMAIN uoTold' = UoIds /\ \A j \in UoIds \ N : uoTold'[j] = uoTold[j]
  BY <1>1, <1>6, <1>8
<1>10. uoTold'[id] = IF entered THEN "submitted" ELSE "failed"
  BY <1>1, <1>6, <1>8
<1>11. (kind = "zero copy" => id \in uoZero') /\ uoZero \subseteq uoZero' /\ uoZero' \subseteq uoZero \cup N
  BY <1>6
<1>12. \A j \in UoIds : j \in N <=> (j >= id /\ j < next)
  <2>1. UoIds \subseteq Nat
    BY UoAssumption DEF UoIds
  <2>2. \A j \in Nat : j = id <=> (j >= id /\ j < next)
    BY <1>1
  <2> QED  BY <2>1, <2>2
\* The table.
<1>t. /\ UoTable(uoOps', next)
      /\ \A j \in UoIds \ N : ActiveSlot(uoOps', j) <=> ActiveSlot(uoOps, j)
      /\ \A i \in 1 .. Len(uoOps) : uoOps[i].active => i \in 1 .. Len(uoOps') /\ uoOps'[i] = uoOps[i]
      /\ \A i \in 1 .. Len(uoOps') : \/ uoOps'[i].id = id /\ uoOps'[i].kind = kind
                                     \/ uoOps'[i].id = 0 /\ uoOps'[i].kind = "single"
                                     \/ i \in 1 .. Len(uoOps) /\ uoOps'[i] = uoOps[i]
      /\ entered => ActiveSlot(uoOps', id)
      /\ ~entered => ~ActiveSlot(uoOps', id)
  <2>1. CASE entered
    <3>1. uoOps' = new
      BY <1>7, <2>1
    <3> QED  BY <1>3, <1>a, <2>1, <3>1
  <2>2. CASE ~entered
    <3>0. uoOps' = [i \in DOMAIN new |-> IF new[i].id = id THEN [new[i] EXCEPT !.active = FALSE] ELSE new[i]]
      BY <1>7, <2>2
    <3>1. /\ UoTable(uoOps', next) /\ Len(uoOps') = Len(new) /\ ~ActiveSlot(uoOps', id)
          /\ \A j \in UoIds : j # id => (ActiveSlot(uoOps', j) <=> ActiveSlot(new, j))
          /\ \A i \in 1 .. Len(new) : uoOps'[i].id = new[i].id /\ uoOps'[i].kind = new[i].kind /\ (new[i].id # id => uoOps'[i] = new[i])
      <4>1. uoOps' = GiveUp(new, id)
        BY <3>0 DEF GiveUp
      <4>2. id \in UoIds /\ UoTable(new, next)
        BY <1>1, <1>3
      <4> HIDE DEF id, next
      <4> QED  BY <4>1, <4>2, GivenUp
    <3>2. \A j \in UoIds \ N : ActiveSlot(uoOps', j) <=> ActiveSlot(uoOps, j)
      BY <1>a, <3>1
    <3>3. \A i \in 1 .. Len(uoOps) : uoOps[i].id # id
      <4>1. \A i \in 1 .. Len(uoOps) : uoOps[i] \in UoSlot /\ uoOps[i].id < id
        BY <1>2 DEF UoTable
      <4>2. \A i \in 1 .. Len(uoOps) : uoOps[i].id \in Nat
        BY <4>1 DEF UoSlot
      <4> QED  BY <1>1, <4>1, <4>2
    <3>4. \A i \in 1 .. Len(uoOps) : uoOps[i].active => i \in 1 .. Len(uoOps') /\ uoOps'[i] = uoOps[i]
      BY <1>a, <3>1, <3>3
    <3>5. ASSUME NEW i \in 1 .. Len(new)
          PROVE  \/ uoOps'[i].id = id /\ uoOps'[i].kind = kind
                 \/ uoOps'[i].id = 0 /\ uoOps'[i].kind = "single"
                 \/ i \in 1 .. Len(uoOps) /\ uoOps'[i] = uoOps[i]
      BY <1>a, <3>1, <3>3
    <3> QED  BY <2>2, <3>1, <3>2, <3>4, <3>5
  <2> QED  BY <2>1, <2>2
<1>13. \A j \in N : (uoTold'[j] = "submitted" => ActiveSlot(uoOps', j)) /\ (uoTold'[j] = "failed" => ~ActiveSlot(uoOps', j))
  BY <1>10, <1>t
<1>14. /\ uoRun' \in [slot : Nat, moved : BOOLEAN, goesOn : BOOLEAN]
       /\ uoRun'.slot = uoRun.slot /\ uoRun'.goesOn = uoRun.goesOn
       /\ uoRun = NoRun => uoRun' = NoRun
  BY <1>2, <1>6, MovedOK
<1> HIDE DEF id, next
<1>15. UoSubmits(N, next, sq)
  <2>1. \A i \in 1 .. Len(uoOps') :
          \/ uoOps'[i].id \in N /\ (uoOps'[i].kind = "zero copy" => uoOps'[i].id \in uoZero')
          \/ uoOps'[i].id = 0 /\ uoOps'[i].kind = "single"
          \/ i \in 1 .. Len(uoOps) /\ uoOps'[i] = uoOps[i]
    BY <1>11, <1>t
  <2>2. \A j \in UoIds : OnWay(sq, uoKernel, j) <=> OnWay(uoSq, uoKernel, j) \/ j \in N
    BY <1>5
  <2> QED  BY <1>6, <1>9, <1>11, <1>12, <1>13, <1>14, <1>t, <2>1, <2>2, Zenon DEF UoSubmits, id
<1>16. N \in SUBSET UoIds /\ 1 \in 0 .. Len(sq) /\ uoNextId <= next
  BY <1>1, <1>5 DEF id
<1>17. EnterKernel(sq, 1) \/ (uoSq' = sq /\ UNCHANGED <<uoKernel, uoCq>>)
  BY <1>7
<1> QED  BY <1>1, <1>5, <1>15, <1>16, <1>17, UoQueueStep

LEMMA UoNetCancelOK ==
  ASSUME UoInv, NEW id \in UoIds, NEW entered \in BOOLEAN, NetCancel(id, entered)
  PROVE  UoInv'
<1> DEFINE e == [id |-> 0, target |-> id]
           sq == Append(uoSq, e)
<1>1. /\ UoTable(uoOps, uoNextId) /\ UoQueues(uoNextId, uoSq, uoKernel, uoCq) /\ UoTypeOK /\ UoRunInv
      /\ uoNextId \in Nat \ {0} /\ UoKindInv
  BY DEF UoInv, UoQueues
<1>2. e \in UoEntry /\ e.id = 0
  <2>1. 0 \in 0 .. UoMaxId /\ id \in 0 .. UoMaxId
    BY UoAssumption DEF UoIds
  <2> QED  BY <2>1 DEF UoEntry
<1> HIDE DEF e
<1>3. /\ UoQueues(uoNextId, sq, uoKernel, uoCq) /\ Len(sq) = Len(uoSq) + 1 /\ Len(uoSq) \in Nat
      /\ \A j \in UoIds : OnWay(sq, uoKernel, j) <=> OnWay(uoSq, uoKernel, j) \/ j = e.id
  <2>1. uoNextId <= uoNextId /\ e.id < uoNextId
    BY <1>1, <1>2
  <2> QED  BY <1>1, <1>2, <2>1, UoAppended
<1>4. EnterKernel(sq, 1) \/ (uoSq' = sq /\ UNCHANGED <<uoKernel, uoCq>>)
  BY DEF NetCancel, e
<1>5. UNCHANGED <<uoOps, uoNextId, uoPoll, uoRun, uoTold, uoCalls, uoFinal, uoZero, uoShots>>
  BY DEF NetCancel
<1> HIDE DEF sq
<1>6. \A j \in UoIds : OnWay(sq, uoKernel, j) <=> OnWay(uoSq, uoKernel, j) \/ j \in {}
  <2>1. \A j \in UoIds : j # 0
    BY UoAssumption DEF UoIds
  <2> QED  BY <1>2, <1>3, <2>1
<1>7. UoSubmits({}, uoNextId, sq)
  <2>1. \A j \in UoIds : j \in {} <=> (j >= uoNextId /\ j < uoNextId)
    BY <1>1, UoAssumption DEF UoIds
  <2>2. uoRun \in [slot : Nat, moved : BOOLEAN, goesOn : BOOLEAN] /\ DOMAIN uoTold = UoIds
    BY <1>1 DEF UoRunInv, UoTypeOK
  <2> QED  BY <1>1, <1>5, <1>6, <2>1, <2>2, Zenon DEF UoSubmits
<1>8. 1 \in 0 .. Len(sq) /\ uoNextId <= uoNextId /\ uoNextId \in Nat
  BY <1>1, <1>3
<1> QED  BY <1>3, <1>4, <1>7, <1>8, UoQueueStep

LEMMA UoPollSubmitsOK ==
  ASSUME UoInv, NEW entered \in BOOLEAN, PollSubmits(entered)
  PROVE  UoInv'
<1>1. /\ UoTable(uoOps, uoNextId) /\ UoQueues(uoNextId, uoSq, uoKernel, uoCq) /\ UoTypeOK /\ UoRunInv
      /\ uoNextId \in Nat \ {0} /\ Len(uoSq) \in Nat
  BY DEF UoInv, UoQueues
<1>4. EnterKernel(uoSq, Len(uoSq)) \/ (uoSq' = uoSq /\ UNCHANGED <<uoKernel, uoCq>>)
  BY DEF PollSubmits
<1>5. uoPoll = -1 /\ uoPoll' = 0 /\ UNCHANGED <<uoOps, uoNextId, uoRun, uoTold, uoCalls, uoFinal, uoZero, uoShots>>
  BY DEF PollSubmits, uoHist
<1>7. UoSubmits({}, uoNextId, uoSq)
  <2>1. \A j \in UoIds : j \in {} <=> (j >= uoNextId /\ j < uoNextId)
    BY <1>1, UoAssumption DEF UoIds
  <2>2. uoRun \in [slot : Nat, moved : BOOLEAN, goesOn : BOOLEAN] /\ DOMAIN uoTold = UoIds
    BY <1>1 DEF UoRunInv, UoTypeOK
  <2> QED  BY <1>1, <1>5, <2>1, <2>2, Zenon DEF UoSubmits
<1>8. Len(uoSq) \in 0 .. Len(uoSq) /\ uoNextId <= uoNextId /\ uoNextId \in Nat
  BY <1>1
<1> QED  BY <1>1, <1>4, <1>7, <1>8, UoQueueStep

LEMMA ConcatOneOrTwo ==
  ASSUME NEW S, NEW a \in Seq(S), NEW n \in {1, 2}, NEW f \in [1 .. n -> S]
  PROVE  (n = 1 => a \o f = Append(a, f[1])) /\ (n = 2 => a \o f = Append(Append(a, f[1]), f[2]))
<1>1. f \in Seq(S) /\ Len(f) = n
  OBVIOUS
<1>2. /\ a \o f \in Seq(S) /\ Len(a \o f) = Len(a) + n /\ Len(a) \in Nat
      /\ \A i \in 1 .. Len(a) + n : (a \o f)[i] = IF i <= Len(a) THEN a[i] ELSE f[i - Len(a)]
  BY <1>1, ConcatProperties
<1>3. f[1] \in S
  OBVIOUS
<1>4. ASSUME n = 1
      PROVE  a \o f = Append(a, f[1])
  <2> DEFINE b == Append(a, f[1])
  <2>1. b \in Seq(S) /\ Len(b) = Len(a) + 1 /\ b[Len(a) + 1] = f[1] /\ \A i \in 1 .. Len(a) : b[i] = a[i]
    BY <1>3
  <2> HIDE DEF b
  <2>2. \A i \in 1 .. Len(a) + 1 : (a \o f)[i] = b[i]
    BY <1>2, <1>4, <2>1
  <2>3. a \o f = b
    BY <1>2, <1>4, <2>1, <2>2, SeqEqual
  <2> QED  BY <2>3 DEF b
<1>5. ASSUME n = 2
      PROVE  a \o f = Append(Append(a, f[1]), f[2])
  <2> DEFINE b == Append(a, f[1])
             c == Append(b, f[2])
  <2>0. f[2] \in S
    BY <1>5
  <2>1. b \in Seq(S) /\ Len(b) = Len(a) + 1 /\ b[Len(a) + 1] = f[1] /\ \A i \in 1 .. Len(a) : b[i] = a[i]
    BY <1>3
  <2> HIDE DEF b
  <2>2. c \in Seq(S) /\ Len(c) = Len(a) + 2 /\ c[Len(a) + 2] = f[2] /\ \A i \in 1 .. Len(a) + 1 : c[i] = b[i]
    BY <1>2, <2>0, <2>1
  <2> HIDE DEF c
  <2>3. ASSUME NEW i \in 1 .. Len(a) + 2
        PROVE  (a \o f)[i] = c[i]
    <3>1. i \in 1 .. Len(a) \/ i = Len(a) + 1 \/ i = Len(a) + 2
      BY <1>2
    <3>2. CASE i \in 1 .. Len(a)
      BY <1>2, <1>5, <2>1, <2>2, <3>2
    <3>3. CASE i = Len(a) + 1
      BY <1>2, <1>5, <2>1, <2>2, <3>3
    <3>4. CASE i = Len(a) + 2
      BY <1>2, <1>5, <2>1, <2>2, <3>4
    <3> QED  BY <3>1, <3>2, <3>3, <3>4
  <2>4. a \o f = c
    BY <1>2, <1>5, <2>2, <2>3, SeqEqual
  <2> QED  BY <2>4 DEF b, c
<1> QED  BY <1>4, <1>5

LEMMA UoSubmitChainOK ==
  ASSUME UoInv, NEW entered \in BOOLEAN, SubmitChain(entered)
  PROVE  UoInv'
<1> DEFINE id == uoNextId
           id2 == uoNextId + 1
           n == IF Len(uoSq) + 1 < UoQueueSize THEN 2 ELSE 1
           one == Allocate(uoOps, id, "single")
           two == Allocate(one, id2, "single")
           e1 == [id |-> id, target |-> 0]
           e2 == [id |-> id2, target |-> 0]
           q1 == Append(uoSq, e1)
           q2 == Append(q1, e2)
           f == [i \in 1 .. n |-> [id |-> uoNextId + i - 1, target |-> 0]]
           sq == uoSq \o f
<1>1. id \in UoIds /\ id2 \in UoIds
  BY DEF SubmitChain
<1>2. id \in Nat \ {0} /\ id2 \in Nat \ {0} /\ "single" \in UoKinds /\ UoIds \subseteq Nat
  BY <1>1, UoAssumption DEF UoIds, UoKinds
<1>3. UoTable(uoOps, id) /\ UoQueues(id, uoSq, uoKernel, uoCq) /\ UoTypeOK /\ UoRunInv
  BY DEF UoInv
<1>4. /\ uoOps' = (IF n = 2 THEN two ELSE one)
      /\ IF entered /\ n = 2 THEN EnterKernel(sq, 2) ELSE uoSq' = sq /\ UNCHANGED <<uoKernel, uoCq>>
      /\ uoTold' = [i \in UoIds |-> IF i \in id .. (id + n - 1)
                                    THEN IF entered /\ n = 2 THEN "submitted" ELSE "chainFailed"
                                    ELSE uoTold[i]]
      /\ uoNextId' = id + n
      /\ uoRun' = Moved
      /\ uoPoll' = uoPoll /\ uoCalls' = uoCalls /\ uoFinal' = uoFinal /\ uoShots' = uoShots /\ uoZero' = uoZero
  BY DEF SubmitChain, uoHist
<1>5. n = 1 \/ n = 2
  OBVIOUS
<1>6. UoTable(one, id2) /\ UoAllocated(uoOps, one, id, "single")
  <2>1. id >= id
    BY <1>2
  <2> QED  BY <1>1, <1>2, <1>3, <2>1, AllocateTable
<1>7. UoTable(two, id2 + 1) /\ UoAllocated(one, two, id2, "single")
  <2>1. id2 >= id2
    BY <1>2
  <2> HIDE DEF one, id2
  <2> QED  BY <1>1, <1>2, <1>6, <2>1, AllocateTable
<1>8. e1 \in UoEntry /\ e1.id = id /\ e2 \in UoEntry /\ e2.id = id2
  <2>1. 0 \in 0 .. UoMaxId /\ id \in 0 .. UoMaxId /\ id2 \in 0 .. UoMaxId
    BY <1>1, UoAssumption DEF UoIds
  <2> QED  BY <2>1 DEF UoEntry
<1>9. /\ UoQueues(id2, q1, uoKernel, uoCq) /\ Len(q1) = Len(uoSq) + 1 /\ Len(uoSq) \in Nat
      /\ \A j \in UoIds : OnWay(q1, uoKernel, j) <=> OnWay(uoSq, uoKernel, j) \/ j = id
  <2>1. id <= id2 /\ e1.id < id2 /\ e1.id >= id /\ id2 \in Nat
    BY <1>2, <1>8
  <2> HIDE DEF e1, id2
  <2> QED  BY <1>2, <1>3, <1>8, <2>1, UoAppended
<1>10. /\ UoQueues(id2 + 1, q2, uoKernel, uoCq) /\ Len(q2) = Len(q1) + 1
       /\ \A j \in UoIds : OnWay(q2, uoKernel, j) <=> OnWay(q1, uoKernel, j) \/ j = id2
  <2>1. id2 <= id2 + 1 /\ e2.id < id2 + 1 /\ e2.id >= id2 /\ id2 + 1 \in Nat
    BY <1>2, <1>8
  <2> HIDE DEF e2, id2, q1
  <2> QED  BY <1>2, <1>8, <1>9, <2>1, UoAppended
<1>11. (n = 1 => sq = q1) /\ (n = 2 => sq = q2)
  <2>1. uoSq \in Seq(UoEntry) /\ n \in {1, 2}
    BY <1>3 DEF UoQueues
  <2>2. uoNextId + 1 - 1 = id /\ uoNextId + 2 - 1 = id2
    BY <1>2
  <2>3. f[1] = e1 /\ (n = 2 => f[2] = e2)
    <3>1. 1 \in 1 .. n /\ (n = 2 => 2 \in 1 .. n)
      OBVIOUS
    <3> HIDE DEF n
    <3>2. f[1] = [id |-> uoNextId + 1 - 1, target |-> 0] /\ (n = 2 => f[2] = [id |-> uoNextId + 2 - 1, target |-> 0])
      BY <3>1
    <3> QED  BY <2>2, <3>2
  <2>4. f \in [1 .. n -> UoEntry]
    <3>1. DOMAIN f = 1 .. n /\ f = [i \in 1 .. n |-> f[i]]
      OBVIOUS
    <3>2. \A i \in 1 .. n : i = 1 \/ (n = 2 /\ i = 2)
      OBVIOUS
    <3> HIDE DEF f, n, e1, e2
    <3>3. \A i \in 1 .. n : f[i] \in UoEntry
      BY <1>8, <2>3, <3>2
    <3> QED  BY <3>1, <3>3
  <2> HIDE DEF f, e1, e2, n
  <2> QED  BY <2>1, <2>3, <2>4, ConcatOneOrTwo
<1> DEFINE next == id + n
           N == {j \in UoIds : j >= id /\ j < next}
           ops == IF n = 2 THEN two ELSE one
<1>12. next \in Nat /\ id <= next /\ (n = 1 => next = id2) /\ (n = 2 => next = id2 + 1)
  BY <1>2, <1>5
<1>13. (n = 1 => N = {id}) /\ (n = 2 => N = {id, id2})
  <2>1. \A j \in Nat : (j >= id /\ j < id2 <=> j = id) /\ (j >= id /\ j < id2 + 1 <=> j = id \/ j = id2)
    BY <1>2
  <2> HIDE DEF n, id, id2
  <2>2. ASSUME n = 1
        PROVE  N = {id}
    BY <1>1, <1>2, <1>12, <2>1, <2>2
  <2>3. ASSUME n = 2
        PROVE  N = {id, id2}
    BY <1>1, <1>2, <1>12, <2>1, <2>3
  <2> QED  BY <2>2, <2>3
<1>14. UoQueues(next, sq, uoKernel, uoCq) /\ n \in 0 .. Len(sq)
       /\ \A j \in UoIds : OnWay(sq, uoKernel, j) <=> OnWay(uoSq, uoKernel, j) \/ j \in N
  <2> HIDE DEF n, id, id2, N, next, q1, q2, sq
  <2>1. CASE n = 1
    <3>1. next = id2 /\ sq = q1 /\ N = {id}
      BY <1>11, <1>12, <1>13, <2>1
    <3>2. 1 \in 0 .. Len(q1)
      BY <1>9
    <3> QED  BY <1>9, <2>1, <3>1, <3>2
  <2>2. CASE n = 2
    <3>1. next = id2 + 1 /\ sq = q2 /\ N = {id, id2}
      BY <1>11, <1>12, <1>13, <2>2
    <3>2. 2 \in 0 .. Len(q2)
      BY <1>9, <1>10
    <3> QED  BY <1>9, <1>10, <2>2, <3>1, <3>2
  <2> QED  BY <1>5, <2>1, <2>2
<1>a. /\ ActiveSlot(one, id)
      /\ \A j \in UoIds : j # id => (ActiveSlot(one, j) <=> ActiveSlot(uoOps, j))
      /\ \A i \in 1 .. Len(uoOps) : uoOps[i].active => i \in 1 .. Len(one) /\ one[i] = uoOps[i]
      /\ \A i \in 1 .. Len(one) : \/ one[i].id = id /\ one[i].kind = "single"
                                  \/ one[i].id = 0 /\ one[i].kind = "single"
                                  \/ i \in 1 .. Len(uoOps) /\ one[i] = uoOps[i]
  BY <1>6 DEF UoAllocated
<1>b. /\ ActiveSlot(two, id2)
      /\ \A j \in UoIds : j # id2 => (ActiveSlot(two, j) <=> ActiveSlot(one, j))
      /\ \A i \in 1 .. Len(one) : one[i].active => i \in 1 .. Len(two) /\ two[i] = one[i]
      /\ \A i \in 1 .. Len(two) : \/ two[i].id = id2 /\ two[i].kind = "single"
                                  \/ two[i].id = 0 /\ two[i].kind = "single"
                                  \/ i \in 1 .. Len(one) /\ two[i] = one[i]
  BY <1>7 DEF UoAllocated
<1>15. id # id2
  BY <1>2
<1>c. /\ UoTable(ops, next)
      /\ \A j \in UoIds \ N : ActiveSlot(ops, j) <=> ActiveSlot(uoOps, j)
      /\ \A j \in N : ActiveSlot(ops, j)
      /\ \A i \in 1 .. Len(uoOps) : uoOps[i].active => i \in 1 .. Len(ops) /\ ops[i] = uoOps[i]
      /\ \A i \in 1 .. Len(ops) : \/ ops[i].id \in N /\ ops[i].kind = "single"
                                  \/ ops[i].id = 0 /\ ops[i].kind = "single"
                                  \/ i \in 1 .. Len(uoOps) /\ ops[i] = uoOps[i]
  <2> HIDE DEF n, id, id2, N, next, one, two
  <2>1. CASE n = 1
    <3>1. next = id2 /\ ops = one /\ N = {id}
      BY <1>12, <1>13, <2>1
    <3> HIDE DEF ops
    <3> QED  BY <1>6, <1>a, <3>1
  <2>2. CASE n = 2
    <3>1. next = id2 + 1 /\ ops = two /\ N = {id, id2}
      BY <1>12, <1>13, <2>2
    <3> HIDE DEF ops
    <3>2. UoTable(ops, next) /\ \A j \in N : ActiveSlot(ops, j)
      BY <1>1, <1>7, <1>a, <1>b, <1>15, <3>1
    <3>3. \A j \in UoIds \ N : ActiveSlot(ops, j) <=> ActiveSlot(uoOps, j)
      BY <1>a, <1>b, <3>1
    <3>4. \A i \in 1 .. Len(uoOps) : uoOps[i].active => i \in 1 .. Len(ops) /\ ops[i] = uoOps[i]
      BY <1>a, <1>b, <3>1
    <3>5. \A i \in 1 .. Len(ops) : \/ ops[i].id \in N /\ ops[i].kind = "single"
                                   \/ ops[i].id = 0 /\ ops[i].kind = "single"
                                   \/ i \in 1 .. Len(uoOps) /\ ops[i] = uoOps[i]
      BY <1>a, <1>b, <3>1
    <3> QED  BY <3>2, <3>3, <3>4, <3>5
  <2> QED  BY <1>5, <2>1, <2>2
<1>16. uoOps' = ops /\ uoNextId' = next
  BY <1>4
<1>17. /\ DOMAIN uoTold' = UoIds /\ \A j \in UoIds \ N : uoTold'[j] = uoTold[j]
       /\ \A j \in N : uoTold'[j] \in {"submitted", "chainFailed"}
  <2>1. \A j \in UoIds : j \in id .. (id + n - 1) <=> j \in N
    <3>1. \A j \in Nat : j \in id .. (id + n - 1) <=> j >= id /\ j < next
      BY <1>2, <1>5
    <3> QED  BY <1>2, <3>1
  <2> HIDE DEF N, n, id
  <2>2. uoTold' = [i \in UoIds |-> IF i \in id .. (id + n - 1)
                                    THEN IF entered /\ n = 2 THEN "submitted" ELSE "chainFailed"
                                    ELSE uoTold[i]]
    BY <1>4
  <2>3. N \subseteq UoIds
    BY DEF N
  <2> QED  BY <2>1, <2>2, <2>3
<1>18. /\ uoRun' \in [slot : Nat, moved : BOOLEAN, goesOn : BOOLEAN]
       /\ uoRun'.slot = uoRun.slot /\ uoRun'.goesOn = uoRun.goesOn
       /\ uoRun = NoRun => uoRun' = NoRun
  BY <1>3, <1>4, MovedOK
<1>19. \A j \in UoIds : j \in N <=> (j >= uoNextId /\ j < next)
  OBVIOUS
<1>20. N \in SUBSET UoIds /\ uoNextId <= next
  BY <1>12
<1>21. EnterKernel(sq, n) \/ (uoSq' = sq /\ UNCHANGED <<uoKernel, uoCq>>)
  BY <1>4
<1> HIDE DEF N, n, next, ops, sq, id
<1>22. UoSubmits(N, next, sq)
  <2>1. \A j \in N : (uoTold'[j] = "submitted" => ActiveSlot(uoOps', j)) /\ (uoTold'[j] = "failed" => ~ActiveSlot(uoOps', j))
    BY <1>16, <1>17, <1>c
  <2>2. \A i \in 1 .. Len(uoOps') :
          \/ uoOps'[i].id \in N /\ (uoOps'[i].kind = "zero copy" => uoOps'[i].id \in uoZero')
          \/ uoOps'[i].id = 0 /\ uoOps'[i].kind = "single"
          \/ i \in 1 .. Len(uoOps) /\ uoOps'[i] = uoOps[i]
    BY <1>16, <1>c
  <2>3. /\ UoTable(uoOps', next)
        /\ \A j \in UoIds \ N : ActiveSlot(uoOps', j) <=> ActiveSlot(uoOps, j)
        /\ \A i \in 1 .. Len(uoOps) : uoOps[i].active => i \in 1 .. Len(uoOps') /\ uoOps'[i] = uoOps[i]
    BY <1>16, <1>c
  <2>4. uoZero \subseteq uoZero' /\ uoZero' \subseteq uoZero \cup N
        /\ uoPoll' = uoPoll /\ uoCalls' = uoCalls /\ uoFinal' = uoFinal /\ uoShots' = uoShots
    BY <1>4
  <2>5. \A j \in UoIds : OnWay(sq, uoKernel, j) <=> OnWay(uoSq, uoKernel, j) \/ j \in N
    BY <1>14
  <2> QED  BY <1>16, <1>17, <1>18, <1>19, <2>1, <2>2, <2>3, <2>4, <2>5, Zenon DEF UoSubmits
<1> QED  BY <1>12, <1>14, <1>20, <1>21, <1>22, UoQueueStep

LEMMA UoKernelCompletesOK ==
  ASSUME UoInv, NEW id \in UoIds, NEW more \in BOOLEAN, KernelCompletes(id, more)
  PROVE  UoInv'
<1> DEFINE cq == uoCq
           M == Len(cq)
           sq == uoSq
           L == Len(sq)
           K == uoKernel
           c == [id |-> id, more |-> more]
           seen == Seen
<1>q. /\ uoNextId \in Nat \ {0}
      /\ sq \in Seq(UoEntry) /\ cq \in Seq(UoCompletion) /\ K \subseteq UoIds
      /\ \A i \in 1 .. L : sq[i].id < uoNextId
      /\ \A k \in 1 .. M : cq[k].id < uoNextId
      /\ \A j \in K : j < uoNextId
      /\ \A i, j \in 1 .. L : sq[i].id = sq[j].id /\ sq[i].id # 0 => i = j
      /\ \A i \in 1 .. L : sq[i].id # 0 => sq[i].id \notin K /\ \A k \in 1 .. M : cq[k].id # sq[i].id
      /\ \A k \in 1 .. M : ~cq[k].more => cq[k].id \notin K /\ \A m \in k + 1 .. M : cq[m].id # cq[k].id
      /\ \A k \in 1 .. M : cq[k].more => cq[k].id \in K \/ \E m \in k + 1 .. M : cq[m].id = cq[k].id
  BY DEF UoInv, UoQueues
<1>1. /\ id \in K
      /\ uoCq' = Append(cq, c)
      /\ uoKernel' = IF more THEN K ELSE K \ {id}
      /\ uoShots' = IF more THEN [uoShots EXCEPT ![id] = @ + 1] ELSE uoShots
      /\ UNCHANGED <<uoOps, uoNextId, uoSq, uoPoll, uoRun, uoTold, uoCalls, uoFinal, uoZero, uoCancels>>
  BY DEF KernelCompletes
<1>2. c \in UoCompletion /\ c.id = id /\ c.more = more
  BY DEF UoCompletion
<1> HIDE DEF c
<1>3. /\ L \in Nat /\ M \in Nat /\ uoCq' \in Seq(UoCompletion) /\ Len(uoCq') = M + 1 /\ uoCq'[M + 1] = c
      /\ \A k \in 1 .. M : uoCq'[k] = cq[k]
  BY <1>q, <1>1, <1>2
<1>s. seen \in 0 .. M /\ Seen' = seen /\ uoPoll \in -1 .. M + 1
  <2>1. uoPoll \in -1 .. M /\ uoPoll' = uoPoll
    BY <1>1 DEF UoInv, UoTypeOK
  <2> HIDE DEF M
  <2> QED  BY <1>3, <2>1 DEF Seen
<1> HIDE DEF L, M, seen
<1>4. \A k \in 1 .. M + 1 : k \in 1 .. M \/ k = M + 1
  BY <1>3
<1>5. id # 0 /\ \A i \in 1 .. L : sq[i].id # id
  <2>1. id # 0
    BY UoAssumption DEF UoIds
  <2> QED  BY <1>q, <1>1, <2>1
<1>6. uoKernel' \subseteq K /\ \A j \in K : j # id => j \in uoKernel'
  BY <1>1
<1>7. (more => id \in uoKernel') /\ (~more => id \notin uoKernel')
  BY <1>1
<1>8. UoQueues(uoNextId', uoSq', uoKernel', uoCq')
  <2>1. \A k \in 1 .. M + 1 : uoCq'[k].id < uoNextId
    BY <1>1, <1>2, <1>3, <1>4, <1>q
  <2>2. \A i \in 1 .. L : sq[i].id # 0 => sq[i].id \notin uoKernel' /\ \A k \in 1 .. M + 1 : uoCq'[k].id # sq[i].id
    BY <1>2, <1>3, <1>4, <1>5, <1>6, <1>q
  <2>3. ASSUME NEW k \in 1 .. M + 1, ~uoCq'[k].more
        PROVE  uoCq'[k].id \notin uoKernel' /\ \A m \in k + 1 .. M + 1 : uoCq'[m].id # uoCq'[k].id
    <3>1. CASE k \in 1 .. M
      <4>1. uoCq'[k] = cq[k] /\ cq[k].id \notin K /\ \A m \in k + 1 .. M : cq[m].id # cq[k].id
        BY <1>3, <1>q, <2>3, <3>1
      <4>2. \A m \in k + 1 .. M + 1 : m = M + 1 \/ (m \in k + 1 .. M /\ m \in 1 .. M)
        BY <1>3, <3>1
      <4>3. cq[k].id # id
        BY <1>1, <4>1
      <4> QED  BY <1>2, <1>3, <1>6, <4>1, <4>2, <4>3
    <3>2. CASE k = M + 1
      <4>1. \A m \in k + 1 .. M + 1 : FALSE
        BY <1>3, <3>2
      <4>2. uoCq'[k] = c /\ ~more
        BY <1>2, <1>3, <2>3, <3>2
      <4> QED  BY <1>2, <1>7, <4>1, <4>2
    <3> QED  BY <1>4, <3>1, <3>2
  <2>4. ASSUME NEW k \in 1 .. M + 1, uoCq'[k].more, uoCq'[k].id \notin uoKernel'
        PROVE  \E m \in k + 1 .. M + 1 : uoCq'[m].id = uoCq'[k].id
    <3>1. CASE k \in 1 .. M
      <4>1. uoCq'[k] = cq[k]
        BY <1>3, <3>1
      <4>2. CASE cq[k].id = id
        <5>1. M + 1 \in k + 1 .. M + 1
          BY <1>3, <3>1
        <5> QED  BY <1>2, <1>3, <4>1, <4>2, <5>1
      <4>3. CASE cq[k].id # id
        <5>1. cq[k].id \notin K
          BY <1>6, <2>4, <4>1, <4>3
        <5>2. PICK m \in k + 1 .. M : cq[m].id = cq[k].id
          BY <1>q, <2>4, <3>1, <4>1, <5>1
        <5>3. m \in k + 1 .. M + 1 /\ m \in 1 .. M
          BY <1>3, <3>1
        <5> QED  BY <1>3, <4>1, <5>2, <5>3
      <4> QED  BY <4>2, <4>3
    <3>2. CASE k = M + 1
      BY <1>2, <1>3, <1>7, <2>4, <3>2
    <3> QED  BY <1>4, <3>1, <3>2
  <2>5. uoSq' = sq /\ uoNextId' = uoNextId /\ uoKernel' \subseteq UoIds /\ \A j \in uoKernel' : j < uoNextId
    BY <1>1, <1>6, <1>q
  <2> QED  BY <1>3, <1>q, <2>1, <2>2, <2>3, <2>4, <2>5 DEF UoQueues, L
<1>9. ASSUME NEW j \in UoIds, j # id
      PROVE  /\ Waiting(uoCq', seen, j) = Waiting(cq, seen, j)
             /\ Comes(uoCq', seen, j) <=> Comes(cq, seen, j)
             /\ OnWay(uoSq', uoKernel', j) <=> OnWay(sq, K, j)
  <2>1. Len(cq) \in Nat /\ Len(uoCq') \in Nat /\ Len(cq) <= Len(uoCq') /\ seen \in Nat
    BY <1>3, <1>s DEF M
  <2>2. \A k \in 1 .. Len(cq) : uoCq'[k].id = cq[k].id
    BY <1>3 DEF M
  <2>3. \A k \in Len(cq) + 1 .. Len(uoCq') : uoCq'[k].id # j
    <3>1. \A k \in M + 1 .. M + 1 : k = M + 1
      BY <1>3
    <3> QED  BY <1>2, <1>3, <1>9, <3>1 DEF M
  <2>4. Waiting(uoCq', seen, j) = Waiting(cq, seen, j) /\ (Comes(uoCq', seen, j) <=> Comes(cq, seen, j))
    BY <2>1, <2>2, <2>3, WaitingSame
  <2>5. j \in uoKernel' <=> j \in K
    BY <1>6, <1>9
  <2> QED  BY <1>1, <2>4, <2>5 DEF OnWay
<1>10. Waiting(uoCq', seen, id) = Waiting(cq, seen, id) + 1 /\ Comes(uoCq', seen, id)
  <2>1. Len(cq) \in Nat /\ Len(uoCq') \in Nat /\ seen \in 0 .. Len(cq)
    BY <1>3, <1>s DEF M
  <2>2. \A k \in 1 .. Len(cq) : uoCq'[k].id = cq[k].id
    BY <1>3 DEF M
  <2>3. M + 1 \in Len(cq) + 1 .. Len(uoCq') /\ uoCq'[M + 1].id = id
    BY <1>2, <1>3 DEF M
  <2>4. \A k \in Len(cq) + 1 .. Len(uoCq') : uoCq'[k].id = id => k = M + 1
    BY <1>3 DEF M
  <2> QED  BY <2>1, <2>2, <2>3, <2>4, WaitingOneMore
<1>11. OnWay(sq, K, id) /\ (OnWay(uoSq', uoKernel', id) <=> more)
  <2>1. ~\E i \in 1 .. Len(uoSq') : uoSq'[i].id = id
    BY <1>1, <1>5 DEF L
  <2> QED  BY <1>1, <1>7, <2>1 DEF OnWay
<1>t. /\ \A j \in UoIds : uoTold[j] = "submitted" /\ j \notin uoFinal =>
           ActiveSlot(uoOps, j) /\ (OnWay(sq, K, j) \/ Comes(cq, seen, j))
      /\ \A j \in UoIds : uoTold[j] = "failed" => uoCalls[j] = 0 /\ ~ActiveSlot(uoOps, j)
      /\ \A j \in uoFinal \ uoZero : ~OnWay(sq, K, j) /\ ~Comes(cq, seen, j)
      /\ \A j \in UoIds : uoCalls[j] + Waiting(cq, seen, j) <= uoShots[j] + (IF OnWay(sq, K, j) THEN 0 ELSE 1)
  BY DEF UoInv, UoToldInv, seen
<1>y. /\ uoCalls \in [UoIds -> Nat] /\ uoShots \in [UoIds -> Nat] /\ uoFinal \subseteq UoIds /\ DOMAIN uoTold = UoIds
      /\ \A j \in UoIds : j >= uoNextId => uoTold[j] = "none" /\ uoCalls[j] = 0 /\ j \notin uoFinal
  BY DEF UoInv, UoTypeOK
<1>12. uoShots' \in [UoIds -> Nat] /\ uoShots'[id] = uoShots[id] + (IF more THEN 1 ELSE 0)
       /\ \A j \in UoIds : j # id => uoShots'[j] = uoShots[j]
  <2>1. CASE more
    BY <1>1, <1>y, <2>1
  <2>2. CASE ~more
    <3>1. uoShots' = uoShots /\ uoShots[id] \in Nat
      BY <1>1, <1>y, <2>2
    <3> QED  BY <1>y, <2>2, <3>1
  <2> QED  BY <2>1, <2>2
<1>13. UoTypeOK'
  BY <1>1, <1>3, <1>12, <1>s, <1>y DEF UoTypeOK
<1>14. UoKindInv'
  <2>1. ASSUME NEW k \in 1 .. M + 1, uoCq'[k].more, NEW i \in 1 .. Len(uoOps), uoOps[i].id = uoCq'[k].id
        PROVE  uoOps[i].kind # "single"
    <3>1. CASE k \in 1 .. M
      <4>1. cq[k].more /\ uoOps[i].id = cq[k].id
        BY <1>3, <2>1, <3>1
      <4> QED  BY <3>1, <4>1 DEF UoInv, UoKindInv, M
    <3>2. CASE k = M + 1
      <4>1. more /\ uoOps[i].id = id
        BY <1>2, <1>3, <2>1, <3>2
      <4>2. uoOps \in Seq(UoSlot)
        BY DEF UoInv, UoTable
      <4>3. PICK j \in 1 .. Len(uoOps) : uoOps[j].id = id /\ uoOps[j].kind # "single"
        BY <4>1, <4>2 DEF KernelCompletes
      <4>4. i = j
        BY <1>5, <4>1, <4>3 DEF UoInv, UoTable
      <4> QED  BY <4>3, <4>4
    <3> QED  BY <1>4, <3>1, <3>2
  <2> QED  BY <1>1, <1>3, <2>1 DEF UoInv, UoKindInv
<1>15. ASSUME NEW j \in UoIds
       PROVE  uoCalls[j] + Waiting(uoCq', seen, j) <= uoShots'[j] + (IF OnWay(uoSq', uoKernel', j) THEN 0 ELSE 1)
  <2>1. CASE j # id
    <3>1. uoCalls[j] + Waiting(cq, seen, j) <= uoShots[j] + (IF OnWay(sq, K, j) THEN 0 ELSE 1)
      BY <1>t
    <3>2. uoShots'[j] = uoShots[j] /\ Waiting(uoCq', seen, j) = Waiting(cq, seen, j)
          /\ (OnWay(uoSq', uoKernel', j) <=> OnWay(sq, K, j))
      BY <1>9, <1>12, <2>1
    <3> QED  BY <3>1, <3>2, Zenon
  <2>2. CASE j = id
    <3> DEFINE a == uoCalls[id]
               h == uoShots[id]
               w == Waiting(cq, seen, id)
    <3>1. a \in Nat /\ h \in Nat /\ w \in Nat
      <4>1. Len(cq) \in Nat /\ seen \in Nat
        BY <1>3, <1>s DEF M
      <4> QED  BY <1>y, <4>1, WaitingType
    <3>2. a + w <= h + 0
      BY <1>11, <1>t
    <3>3. Waiting(uoCq', seen, id) = w + 1 /\ uoShots'[id] = h + (IF more THEN 1 ELSE 0)
      BY <1>10, <1>12
    <3> HIDE DEF a, h, w
    <3>4. CASE more
      <4>1. OnWay(uoSq', uoKernel', id) /\ uoShots'[id] = h + 1
        BY <1>11, <3>3, <3>4
      <4>2. a + (w + 1) <= (h + 1) + 0
        BY <3>1, <3>2
      <4> QED  BY <2>2, <3>3, <4>1, <4>2 DEF a
    <3>5. CASE ~more
      <4>1. ~OnWay(uoSq', uoKernel', id) /\ uoShots'[id] = h + 0
        BY <1>11, <3>3, <3>5
      <4>2. a + (w + 1) <= (h + 0) + 1
        BY <3>1, <3>2
      <4> QED  BY <2>2, <3>3, <4>1, <4>2 DEF a
    <3> QED  BY <3>4, <3>5
  <2> QED  BY <2>1, <2>2
<1>16. UoToldInv'
  <2>1. \A j \in UoIds : uoTold[j] = "submitted" /\ j \notin uoFinal =>
           ActiveSlot(uoOps, j) /\ (OnWay(uoSq', uoKernel', j) \/ Comes(uoCq', seen, j))
    BY <1>9, <1>10, <1>t
  <2>2. \A j \in uoFinal \ uoZero : ~OnWay(uoSq', uoKernel', j) /\ ~Comes(uoCq', seen, j)
    <3> SUFFICES ASSUME NEW j \in uoFinal \ uoZero
                 PROVE  ~OnWay(uoSq', uoKernel', j) /\ ~Comes(uoCq', seen, j)
      OBVIOUS
    <3>1. j # id /\ j \in UoIds
      BY <1>11, <1>t, <1>y
    <3> QED  BY <1>9, <1>t, <3>1
  <2>3. uoTold' = uoTold /\ uoFinal' = uoFinal /\ uoOps' = uoOps /\ uoCalls' = uoCalls /\ uoZero' = uoZero
    BY <1>1
  <2> QED  BY <1>15, <1>s, <1>t, <2>1, <2>2, <2>3, Zenon DEF UoToldInv
<1>17. UoTable(uoOps', uoNextId') /\ UoRunInv'
  BY <1>1 DEF UoInv, UoRunInv
<1> QED  BY <1>8, <1>13, <1>14, <1>16, <1>17 DEF UoInv

LEMMA UoPollEndOK ==
  ASSUME UoInv, PollEnd
  PROVE  UoInv'
<1> DEFINE cq == uoCq
           M == Len(cq)
           sq == uoSq
           L == Len(sq)
           K == uoKernel
           p == uoPoll
<1>q. /\ uoNextId \in Nat \ {0}
      /\ sq \in Seq(UoEntry) /\ cq \in Seq(UoCompletion) /\ K \subseteq UoIds
      /\ \A i \in 1 .. L : sq[i].id < uoNextId
      /\ \A k \in 1 .. M : cq[k].id < uoNextId
      /\ \A j \in K : j < uoNextId
      /\ \A i, j \in 1 .. L : sq[i].id = sq[j].id /\ sq[i].id # 0 => i = j
      /\ \A i \in 1 .. L : sq[i].id # 0 => sq[i].id \notin K /\ \A k \in 1 .. M : cq[k].id # sq[i].id
      /\ \A k \in 1 .. M : ~cq[k].more => cq[k].id \notin K /\ \A m \in k + 1 .. M : cq[m].id # cq[k].id
      /\ \A k \in 1 .. M : cq[k].more => cq[k].id \in K \/ \E m \in k + 1 .. M : cq[m].id = cq[k].id
  BY DEF UoInv, UoQueues
<1>1. /\ p >= 0 /\ uoCq' = SubSeq(cq, p + 1, M) /\ uoPoll' = -1
      /\ UNCHANGED <<uoOps, uoNextId, uoSq, uoKernel, uoRun, uoTold, uoCalls, uoFinal, uoShots, uoZero>>
  BY DEF PollEnd, uoHist
<1>2. M \in Nat /\ p \in Nat /\ p <= M
  <2>1. p \in -1 .. M
    BY DEF UoInv, UoTypeOK
  <2>2. M \in Nat
    BY <1>q
  <2> HIDE DEF M
  <2> QED  BY <1>1, <2>1, <2>2
<1>3. /\ uoCq' \in Seq(UoCompletion) /\ Len(uoCq') = M - p
      /\ \A k \in 1 .. M - p : uoCq'[k] = cq[k + p] /\ k + p \in 1 .. M
  <2>1. uoCq' \in Seq(UoCompletion) /\ Len(uoCq') = M - p
    BY <1>1, <1>2, <1>q
  <2>2. \A k \in 1 .. M - p : uoCq'[k] = cq[k + p]
    BY <1>1, <1>2, <1>q
  <2>3. \A k \in 1 .. M - p : k + p \in 1 .. M
    BY <1>2
  <2> QED  BY <2>1, <2>2, <2>3
<1>s. Seen = p /\ Seen' = 0
  BY <1>1, <1>2 DEF Seen
<1>4. \A j : /\ Waiting(uoCq', 0, j) = Waiting(cq, p, j)
             /\ Comes(uoCq', 0, j) <=> Comes(cq, p, j)
  <2>1. Len(cq) \in Nat /\ p \in Nat /\ p <= Len(cq) /\ Len(uoCq') = Len(cq) - p
    BY <1>2, <1>3
  <2>2. \A k \in 1 .. Len(uoCq') : uoCq'[k] = cq[k + p]
    BY <1>3
  <2> HIDE DEF p, cq
  <2> QED  BY <2>1, <2>2, WaitingShift
<1> HIDE DEF M, L, p
<1>5. UoQueues(uoNextId', uoSq', uoKernel', uoCq')
  <2> DEFINE R == M - p
  <2>1. /\ \A k \in 1 .. R : uoCq'[k].id < uoNextId
        /\ \A i \in 1 .. L : sq[i].id # 0 => sq[i].id \notin K /\ \A k \in 1 .. R : uoCq'[k].id # sq[i].id
    <3>1. \A k \in 1 .. R : uoCq'[k].id = cq[k + p].id /\ k + p \in 1 .. M
      BY <1>3
    <3>2. \A k \in 1 .. R : uoCq'[k].id < uoNextId
      BY <1>q, <3>1
    <3> HIDE DEF R
    <3>3. \A i \in 1 .. L : sq[i].id # 0 => sq[i].id \notin K /\ \A k \in 1 .. R : uoCq'[k].id # sq[i].id
      <4> SUFFICES ASSUME NEW i \in 1 .. L, sq[i].id # 0, NEW k \in 1 .. R
                   PROVE  sq[i].id \notin K /\ uoCq'[k].id # sq[i].id
        BY <1>q
      <4>1. uoCq'[k].id = cq[k + p].id /\ k + p \in 1 .. M
        BY <3>1
      <4>2. sq[i].id \notin K /\ \A m \in 1 .. M : cq[m].id # sq[i].id
        BY <1>q
      <4> QED  BY <4>1, <4>2
    <3> QED  BY <3>2, <3>3
  <2>2. ASSUME NEW k \in 1 .. R, ~uoCq'[k].more
        PROVE  uoCq'[k].id \notin K /\ \A m \in k + 1 .. R : uoCq'[m].id # uoCq'[k].id
    <3>1. uoCq'[k] = cq[k + p] /\ k + p \in 1 .. M
      BY <1>3
    <3>2. \A m \in k + 1 .. R : m \in 1 .. R /\ m + p \in (k + p) + 1 .. M
      BY <1>2
    <3> QED  BY <1>3, <1>q, <2>2, <3>1, <3>2
  <2>3. ASSUME NEW k \in 1 .. R, uoCq'[k].more, uoCq'[k].id \notin K
        PROVE  \E m \in k + 1 .. R : uoCq'[m].id = uoCq'[k].id
    <3>1. uoCq'[k] = cq[k + p] /\ k + p \in 1 .. M
      BY <1>3
    <3>2. PICK m \in (k + p) + 1 .. M : cq[m].id = cq[k + p].id
      BY <1>q, <2>3, <3>1
    <3>3. m - p \in k + 1 .. R /\ m - p \in 1 .. R /\ (m - p) + p = m
      BY <1>2
    <3>4. uoCq'[m - p] = cq[m]
      BY <1>3, <3>3
    <3> QED  BY <3>1, <3>2, <3>3, <3>4
  <2>4. uoSq' = sq /\ uoNextId' = uoNextId /\ uoKernel' = K
    BY <1>1
  <2> QED  BY <1>3, <1>q, <2>1, <2>2, <2>3, <2>4 DEF UoQueues, L
<1>6. UoTypeOK'
  <2>1. -1 \in -1 .. Len(uoCq')
    BY <1>2, <1>3
  <2> QED  BY <1>1, <2>1 DEF UoInv, UoTypeOK
<1>7. UoKindInv'
  <2>1. ASSUME NEW k \in 1 .. Len(uoCq'), uoCq'[k].more, NEW i \in 1 .. Len(uoOps), uoOps[i].id = uoCq'[k].id
        PROVE  uoOps[i].kind # "single"
    <3>1. uoCq'[k] = cq[k + p] /\ k + p \in 1 .. Len(cq)
      BY <1>3 DEF M
    <3> QED  BY <2>1, <3>1 DEF UoInv, UoKindInv
  <2> QED  BY <1>1, <2>1 DEF UoInv, UoKindInv
<1>8. UoToldInv'
  <2>1. /\ \A j \in UoIds : uoTold[j] = "submitted" /\ j \notin uoFinal =>
             ActiveSlot(uoOps, j) /\ (OnWay(sq, K, j) \/ Comes(cq, p, j))
        /\ \A j \in UoIds : uoTold[j] = "failed" => uoCalls[j] = 0 /\ ~ActiveSlot(uoOps, j)
        /\ \A j \in uoFinal \ uoZero : ~OnWay(sq, K, j) /\ ~Comes(cq, p, j)
        /\ \A j \in UoIds : uoCalls[j] + Waiting(cq, p, j) <= uoShots[j] + (IF OnWay(sq, K, j) THEN 0 ELSE 1)
    BY <1>s DEF UoInv, UoToldInv
  <2>2. /\ \A j \in UoIds : uoTold[j] = "submitted" /\ j \notin uoFinal =>
             ActiveSlot(uoOps, j) /\ (OnWay(sq, K, j) \/ Comes(uoCq', 0, j))
        /\ \A j \in uoFinal \ uoZero : ~OnWay(sq, K, j) /\ ~Comes(uoCq', 0, j)
    BY <1>4, <2>1
  <2>3. \A j \in UoIds : uoCalls[j] + Waiting(uoCq', 0, j) <= uoShots[j] + (IF OnWay(sq, K, j) THEN 0 ELSE 1)
    BY <1>4, <2>1, Zenon
  <2>4. uoTold' = uoTold /\ uoFinal' = uoFinal /\ uoOps' = uoOps /\ uoCalls' = uoCalls /\ uoZero' = uoZero
        /\ uoShots' = uoShots /\ uoSq' = sq /\ uoKernel' = K
    BY <1>1
  <2> QED  BY <1>s, <2>1, <2>2, <2>3, <2>4, Zenon DEF UoToldInv
<1>9. UoTable(uoOps', uoNextId') /\ UoRunInv'
  BY <1>1 DEF UoInv, UoRunInv
<1> QED  BY <1>5, <1>6, <1>7, <1>8, <1>9 DEF UoInv

LEMMA UoCompletionReturnsOK ==
  ASSUME UoInv, CompletionReturns
  PROVE  UoInv'
<1>1. /\ uoRun # NoRun /\ uoRun' = NoRun
      /\ uoOps' = IF uoRun.goesOn \/ uoRun.moved THEN uoOps ELSE [uoOps EXCEPT ![uoRun.slot].active = FALSE]
      /\ UNCHANGED <<uoNextId, uoSq, uoCq, uoKernel, uoPoll, uoTold, uoCalls, uoFinal, uoShots, uoZero>>
  BY DEF CompletionReturns, uoHist
<1>2. UoRunInv'
  <2>1. NoRun \in [slot : Nat, moved : BOOLEAN, goesOn : BOOLEAN]
    BY DEF NoRun
  <2> QED  BY <1>1, <2>1 DEF UoRunInv
<1>3. CASE uoOps' = uoOps
  <2>1. UoQueues(uoNextId', uoSq', uoKernel', uoCq') /\ UoTable(uoOps', uoNextId')
    BY <1>1, <1>3 DEF UoInv
  <2>2. UoTypeOK' /\ UoKindInv' /\ UoToldInv'
    <3>1. UNCHANGED <<uoNextId, uoSq, uoCq, uoKernel, uoPoll, uoTold, uoCalls, uoFinal, uoShots, uoZero, uoOps>>
      BY <1>1, <1>3
    <3>2. UoTypeOK'
      BY <3>1 DEF UoInv, UoTypeOK
    <3>3. UoKindInv'
      BY <3>1 DEF UoInv, UoKindInv
    <3>4. Seen' = Seen
      BY <3>1 DEF Seen
    <3>5. UoToldInv'
      BY <3>1, <3>4, Zenon DEF UoInv, UoToldInv
    <3> QED  BY <3>2, <3>3, <3>5
  <2> QED  BY <1>2, <2>1, <2>2 DEF UoInv
<1>4. CASE uoOps' # uoOps
  <2> DEFINE s == uoRun.slot
             L == Len(uoOps)
  <2>1. ~uoRun.goesOn /\ uoOps' = [uoOps EXCEPT ![s].active = FALSE]
    BY <1>1, <1>4
  <2>2. s \in 1 .. L /\ uoOps[s].active /\ uoOps[s].id \in uoFinal
    BY <1>1, <2>1 DEF UoInv, UoRunInv
  <2>3. /\ uoOps \in Seq(UoSlot) /\ L # 0 /\ L \in Nat
        /\ \A i \in 1 .. L : uoOps[i].id < uoNextId /\ (uoOps[i].active => uoOps[i].id \in UoIds)
        /\ \A i, j \in 1 .. L : uoOps[i].id = uoOps[j].id /\ uoOps[i].id # 0 => i = j
    BY DEF UoInv, UoTable
  <2>4. \A i \in 1 .. L : uoOps[i] \in UoSlot
    BY <2>3
  <2> HIDE DEF s
  <2>5. /\ uoOps' = [i \in 1 .. L |-> uoOps'[i]]
        /\ uoOps'[s] = [uoOps[s] EXCEPT !.active = FALSE]
        /\ \A i \in 1 .. L : i # s => uoOps'[i] = uoOps[i]
    <3>1. uoOps = [i \in 1 .. L |-> uoOps[i]] /\ DOMAIN uoOps = 1 .. L
      BY <2>3
    <3>2. uoOps' = [i \in DOMAIN uoOps |-> IF i = s THEN [uoOps[s] EXCEPT !.active = FALSE] ELSE uoOps[i]]
      BY <2>1, <2>2, <3>1
    <3> HIDE DEF L
    <3> QED  BY <2>2, <3>1, <3>2
  <2>6. uoOps'[s] \in UoSlot /\ uoOps'[s].id = uoOps[s].id /\ uoOps'[s].kind = uoOps[s].kind /\ uoOps'[s].active = FALSE
    <3>1. uoOps[s] \in UoSlot
      BY <2>2, <2>4
    <3> HIDE DEF s
    <3> QED  BY <2>5, <3>1 DEF UoSlot
  <2>7. \A i \in 1 .. L : /\ uoOps'[i] \in UoSlot /\ uoOps'[i].id = uoOps[i].id /\ uoOps'[i].kind = uoOps[i].kind
                          /\ (uoOps'[i].active => uoOps[i].active)
    BY <2>4, <2>5, <2>6
  <2>8. uoOps' \in Seq(UoSlot) /\ Len(uoOps') = L
    BY <2>3, <2>5, <2>7
  <2> HIDE DEF L
  <2>9. UoTable(uoOps', uoNextId')
    <3>1. /\ \A i \in 1 .. L : uoOps'[i].id < uoNextId /\ (uoOps'[i].active => uoOps'[i].id \in UoIds)
          /\ \A i, j \in 1 .. L : uoOps'[i].id = uoOps'[j].id /\ uoOps'[i].id # 0 => i = j
      BY <2>3, <2>7
    <3>2. uoNextId' = uoNextId
      BY <1>1
    <3> QED  BY <2>3, <2>8, <3>1, <3>2 DEF UoTable
  <2>10. UoQueues(uoNextId', uoSq', uoKernel', uoCq') /\ UoTypeOK'
    BY <1>1 DEF UoInv, UoTypeOK
  <2>11. UoKindInv'
    <3>1. /\ \A k \in 1 .. Len(uoCq) : uoCq[k].more =>
               \A i \in 1 .. L : uoOps[i].id = uoCq[k].id => uoOps[i].kind # "single"
          /\ \A i \in 1 .. L : uoOps[i].kind = "zero copy" => uoOps[i].id \in uoZero
      BY DEF UoInv, UoKindInv, L
    <3>2. /\ \A k \in 1 .. Len(uoCq) : uoCq[k].more =>
               \A i \in 1 .. L : uoOps'[i].id = uoCq[k].id => uoOps'[i].kind # "single"
          /\ \A i \in 1 .. L : uoOps'[i].kind = "zero copy" => uoOps'[i].id \in uoZero
      BY <2>7, <3>1
    <3> QED  BY <1>1, <2>8, <3>2, ZenonT(60) DEF UoKindInv
  <2>12. \A id \in UoIds : ActiveSlot(uoOps', id) => ActiveSlot(uoOps, id)
    BY <2>7, <2>8 DEF ActiveSlot, L
  <2>13. \A id \in UoIds \ uoFinal : ActiveSlot(uoOps, id) => ActiveSlot(uoOps', id)
    <3> SUFFICES ASSUME NEW id \in UoIds \ uoFinal, NEW i \in 1 .. L, uoOps[i].active, uoOps[i].id = id
                 PROVE  ActiveSlot(uoOps', id)
      BY DEF ActiveSlot, L
    <3>1. i # s
      BY <2>2
    <3>2. uoOps'[i] = uoOps[i]
      BY <2>5, <3>1
    <3> QED  BY <2>8, <3>2 DEF ActiveSlot
  <2>14. UoToldInv'
    <3>1. /\ \A id \in UoIds : uoTold[id] = "submitted" /\ id \notin uoFinal =>
               ActiveSlot(uoOps', id) /\ (OnWay(uoSq, uoKernel, id) \/ Comes(uoCq, Seen, id))
          /\ \A id \in UoIds : uoTold[id] = "failed" => uoCalls[id] = 0 /\ ~ActiveSlot(uoOps', id)
      BY <2>12, <2>13 DEF UoInv, UoToldInv
    <3>2. /\ \A id \in uoFinal \ uoZero : ~OnWay(uoSq, uoKernel, id) /\ ~Comes(uoCq, Seen, id)
          /\ \A id \in UoIds : uoCalls[id] + Waiting(uoCq, Seen, id)
                                 <= uoShots[id] + (IF OnWay(uoSq, uoKernel, id) THEN 0 ELSE 1)
      BY DEF UoInv, UoToldInv
    <3>3. Seen' = Seen /\ UNCHANGED <<uoNextId, uoSq, uoCq, uoKernel, uoPoll, uoTold, uoCalls, uoFinal, uoShots, uoZero>>
      BY <1>1 DEF Seen
    <3> QED  BY <3>1, <3>2, <3>3, Zenon DEF UoToldInv
  <2> QED  BY <1>2, <2>9, <2>10, <2>11, <2>14 DEF UoInv
<1> QED  BY <1>3, <1>4

LEMMA UoPollCompletionOK ==
  ASSUME UoInv, PollCompletion
  PROVE  UoInv'
<1> DEFINE cq == uoCq
           M == Len(cq)
           p == uoPoll
           q == p + 1
           c == cq[q]
           id == c.id
           found == FindSlots(uoOps, id)
<1>1. M \in Nat /\ p \in Nat /\ p < M /\ q \in 1 .. M /\ q <= M /\ q \in Nat
  <2>1. p \in -1 .. M /\ M \in Nat
    BY DEF UoInv, UoTypeOK, UoQueues
  <2>2. p >= 0 /\ p < M
    BY DEF PollCompletion
  <2> HIDE DEF M, p
  <2> QED  BY <2>1, <2>2
<1>2. /\ uoPoll' = q
      /\ UNCHANGED <<uoOps, uoNextId, uoSq, uoCq, uoKernel, uoTold, uoZero, uoShots>>
      /\ uoRun = NoRun
  BY DEF PollCompletion
<1>3. Seen = p /\ Seen' = q
  BY <1>1, <1>2 DEF Seen
<1>4. id \in UoIds /\ id < uoNextId /\ id # 0
  <2>1. cq \in Seq(UoCompletion) /\ \A k \in 1 .. M : cq[k].id < uoNextId
    BY DEF UoInv, UoQueues
  <2>2. c \in UoCompletion
    BY <1>1, <2>1
  <2>3. id \in UoIds
    BY <2>2 DEF UoCompletion
  <2>4. id # 0
    BY <2>3, UoAssumption DEF UoIds
  <2> QED  BY <1>1, <2>1, <2>3, <2>4
<1>5. found = {i \in 1 .. Len(uoOps) : uoOps[i].active /\ uoOps[i].id = id}
  BY DEF UoInv, UoTable, FindSlots
<1>6. \A j : (Comes(cq, p, j) <=> Comes(cq, q, j) \/ j = id)
  <2> SUFFICES ASSUME NEW j
               PROVE  Comes(cq, p, j) <=> Comes(cq, q, j) \/ j = id
    OBVIOUS
  <2>1. \A k \in p + 1 .. M : k = q \/ k \in q + 1 .. M
    BY <1>1
  <2>2. (\A k \in q + 1 .. M : k \in p + 1 .. M) /\ q \in p + 1 .. M
    BY <1>1
  <2> QED  BY <2>1, <2>2 DEF Comes
<1>7. \A j : Waiting(cq, p, j) \in Nat /\ Waiting(cq, q, j) \in Nat
             /\ Waiting(cq, p, j) = Waiting(cq, q, j) + (IF id = j THEN 1 ELSE 0)
  BY <1>1, WaitingNext, WaitingType, ZenonT(30)
<1>t. /\ \A j \in UoIds : uoTold[j] = "submitted" /\ j \notin uoFinal =>
           ActiveSlot(uoOps, j) /\ (OnWay(uoSq, uoKernel, j) \/ Comes(cq, p, j))
      /\ \A j \in UoIds : uoTold[j] = "failed" => uoCalls[j] = 0 /\ ~ActiveSlot(uoOps, j)
      /\ \A j \in uoFinal \ uoZero : ~OnWay(uoSq, uoKernel, j) /\ ~Comes(cq, p, j)
      /\ \A j \in UoIds : uoCalls[j] + Waiting(cq, p, j) <= uoShots[j] + (IF OnWay(uoSq, uoKernel, j) THEN 0 ELSE 1)
  BY <1>3 DEF UoInv, UoToldInv
<1>y. /\ uoCalls \in [UoIds -> Nat] /\ uoShots \in [UoIds -> Nat] /\ uoFinal \subseteq UoIds /\ DOMAIN uoTold = UoIds
      /\ \A j \in UoIds : j >= uoNextId => uoTold[j] = "none" /\ uoCalls[j] = 0 /\ j \notin uoFinal
  BY DEF UoInv, UoTypeOK
<1>8. UoQueues(uoNextId', uoSq', uoKernel', uoCq') /\ UoTable(uoOps', uoNextId') /\ UoKindInv'
  BY <1>2 DEF UoInv, UoKindInv
<1>9. uoPoll' \in -1 .. Len(uoCq')
  <2>1. uoPoll' \in -1 .. M
    BY <1>1, <1>2
  <2> QED  BY <1>2, <2>1
<1>10. ActiveSlot(uoOps, id) <=> found # {}
  BY <1>5 DEF ActiveSlot
<1>11. CASE found = {}
  <2>1. UNCHANGED <<uoRun, uoCalls, uoFinal>>
    BY <1>11 DEF PollCompletion
  <2>2. UoRunInv' /\ UoTypeOK'
    BY <1>2, <1>9, <1>y, <2>1 DEF UoInv, UoRunInv, UoTypeOK
  <2>3. \A j \in UoIds : uoTold[j] = "submitted" /\ j \notin uoFinal =>
           ActiveSlot(uoOps, j) /\ (OnWay(uoSq, uoKernel, j) \/ Comes(cq, q, j))
    BY <1>6, <1>10, <1>11, <1>t
  <2>4. \A j \in uoFinal \ uoZero : ~OnWay(uoSq, uoKernel, j) /\ ~Comes(cq, q, j)
    BY <1>6, <1>t
  <2>5. \A j \in UoIds : uoCalls[j] + Waiting(cq, q, j) <= uoShots[j] + (IF OnWay(uoSq, uoKernel, j) THEN 0 ELSE 1)
    <3> SUFFICES ASSUME NEW j \in UoIds
                 PROVE  uoCalls[j] + Waiting(cq, q, j) <= uoShots[j] + (IF OnWay(uoSq, uoKernel, j) THEN 0 ELSE 1)
      OBVIOUS
    <3> DEFINE a == uoCalls[j]
               b == uoShots[j] + (IF OnWay(uoSq, uoKernel, j) THEN 0 ELSE 1)
               w == Waiting(cq, p, j)
               v == Waiting(cq, q, j)
    <3>1. a \in Nat /\ b \in Nat
      BY <1>y
    <3>2. w \in Nat /\ v \in Nat /\ (w = v \/ w = v + 1)
      <4>1. w \in Nat /\ v \in Nat /\ w = v + (IF id = j THEN 1 ELSE 0)
        BY <1>7
      <4> HIDE DEF w, v, id
      <4> QED  BY <4>1
    <3>3. a + w <= b
      BY <1>t
    <3> HIDE DEF a, b, w, v
    <3>4. a + v <= b
      BY <3>1, <3>2, <3>3
    <3> QED  BY <3>4 DEF a, b, v
  <2>6. UoToldInv'
    BY <1>2, <1>3, <1>t, <2>1, <2>3, <2>4, <2>5, Zenon DEF UoToldInv
  <2> QED  BY <1>8, <2>2, <2>6 DEF UoInv
<1>12. CASE found # {}
  <2> DEFINE i == Min(found)
             goesOn == uoOps[i].kind = "multishot" /\ c.more
  <2>1. /\ uoRun' = [slot |-> i, moved |-> FALSE, goesOn |-> goesOn]
        /\ uoCalls' = [uoCalls EXCEPT ![id] = @ + 1]
        /\ uoFinal' = IF goesOn THEN uoFinal ELSE uoFinal \cup {id}
    BY <1>12 DEF PollCompletion
  <2>2. i \in 1 .. Len(uoOps) /\ uoOps[i].active /\ uoOps[i].id = id /\ i \in Nat
    <3>1. found \in SUBSET Nat
      BY <1>5
    <3>2. \E x \in found : \A y \in found : x <= y
      BY <1>12, <3>1, LeastNatural
    <3>3. i \in found
      BY <3>2, Zenon DEF Min
    <3> QED  BY <1>5, <3>1, <3>3
  <2> HIDE DEF i
  <2>3. goesOn \in BOOLEAN
    OBVIOUS
  <2>4. uoFinal' \subseteq UoIds /\ uoFinal \subseteq uoFinal' /\ uoFinal' \subseteq uoFinal \cup {id}
    BY <1>4, <1>y, <2>1
  <2>5. uoCalls' \in [UoIds -> Nat] /\ uoCalls'[id] = uoCalls[id] + 1 /\ \A j \in UoIds : j # id => uoCalls'[j] = uoCalls[j]
    BY <1>4, <1>y, <2>1
  <2>6. UoRunInv'
    <3>1. uoRun' \in [slot : Nat, moved : BOOLEAN, goesOn : BOOLEAN] /\ uoRun'.slot = i /\ uoRun'.goesOn = goesOn
      <4> HIDE DEF goesOn
      <4> QED  BY <2>1, <2>2, <2>3
    <3>2. ~goesOn => id \in uoFinal'
      BY <2>1
    <3> HIDE DEF goesOn
    <3> QED  BY <1>2, <2>2, <3>1, <3>2 DEF UoRunInv
  <2>7. UoTypeOK'
    <3>1. \A j \in UoIds : j >= uoNextId => uoTold[j] = "none" /\ uoCalls'[j] = 0 /\ j \notin uoFinal'
      <4>1. \A j \in UoIds : j >= uoNextId => j # id
        <5>1. UoIds \subseteq Nat /\ uoNextId \in Nat
          BY UoAssumption DEF UoIds, UoInv, UoQueues
        <5> HIDE DEF id
        <5> QED  BY <1>4, <5>1
      <4> HIDE DEF id
      <4> QED  BY <1>y, <2>4, <2>5, <4>1
    <3> QED  BY <1>2, <1>9, <1>y, <2>4, <2>5, <3>1 DEF UoTypeOK
  <2>q. /\ ~c.more => id \notin uoKernel /\ \A m \in q + 1 .. M : cq[m].id # id
        /\ c.more => id \in uoKernel \/ \E m \in q + 1 .. M : cq[m].id = id
        /\ \A k \in 1 .. Len(uoSq) : uoSq[k].id # id
    <3>1. /\ \A k \in 1 .. M : ~cq[k].more => cq[k].id \notin uoKernel /\ \A m \in k + 1 .. M : cq[m].id # cq[k].id
          /\ \A k \in 1 .. M : cq[k].more => cq[k].id \in uoKernel \/ \E m \in k + 1 .. M : cq[m].id = cq[k].id
          /\ \A k \in 1 .. Len(uoSq) : uoSq[k].id # 0 => \A m \in 1 .. M : cq[m].id # uoSq[k].id
      BY DEF UoInv, UoQueues
    <3> QED  BY <1>1, <1>4, <3>1
  <2>8. ASSUME NEW j \in UoIds, uoTold[j] = "submitted", j \notin uoFinal'
        PROVE  ActiveSlot(uoOps, j) /\ (OnWay(uoSq, uoKernel, j) \/ Comes(cq, q, j))
    <3>1. ActiveSlot(uoOps, j) /\ (OnWay(uoSq, uoKernel, j) \/ Comes(cq, p, j))
      BY <1>t, <2>4, <2>8
    <3>2. CASE j # id
      BY <1>6, <3>1, <3>2
    <3>3. CASE j = id
      <4>1. c.more
        BY <2>1, <2>8, <3>3
      <4> QED  BY <2>q, <3>1, <3>3, <4>1 DEF OnWay, Comes
    <3> QED  BY <3>2, <3>3
  <2>9. ASSUME NEW j \in UoIds, uoTold[j] = "failed"
        PROVE  uoCalls'[j] = 0 /\ ~ActiveSlot(uoOps, j)
    BY <1>10, <1>12, <1>t, <2>5, <2>9
  <2>10. ASSUME NEW j \in uoFinal' \ uoZero
         PROVE  ~OnWay(uoSq, uoKernel, j) /\ ~Comes(cq, q, j)
    <3>1. CASE j # id
      <4>1. j \in uoFinal \ uoZero
        BY <2>4, <2>10, <3>1
      <4> QED  BY <1>6, <1>t, <4>1
    <3>2. CASE j = id /\ j \in uoFinal
      <4>1. j \in uoFinal \ uoZero
        BY <2>10, <3>2
      <4> QED  BY <1>6, <1>t, <4>1
    <3>3. CASE j = id /\ j \notin uoFinal
      <4>1. ~goesOn
        BY <2>1, <2>10, <3>3
      <4>2. uoOps[i].kind # "zero copy"
        BY <2>2, <2>10, <3>3 DEF UoInv, UoKindInv
      <4>3. uoOps[i].kind \in {"single", "multishot", "zero copy"}
        <5>1. uoOps[i] \in UoSlot
          BY <2>2 DEF UoInv, UoTable
        <5> QED  BY <5>1 DEF UoSlot, UoKinds
      <4>4. c.more => uoOps[i].kind # "single"
        BY <1>1, <2>2 DEF UoInv, UoKindInv
      <4>5. ~c.more
        BY <4>1, <4>2, <4>3, <4>4
      <4> QED  BY <2>q, <3>3, <4>5 DEF OnWay, Comes
    <3> QED  BY <3>1, <3>2, <3>3
  <2>11. ASSUME NEW j \in UoIds
         PROVE  uoCalls'[j] + Waiting(cq, q, j) <= uoShots[j] + (IF OnWay(uoSq, uoKernel, j) THEN 0 ELSE 1)
    <3> DEFINE a == uoCalls[j]
               b == uoShots[j] + (IF OnWay(uoSq, uoKernel, j) THEN 0 ELSE 1)
               w == Waiting(cq, p, j)
               v == Waiting(cq, q, j)
    <3>1. a \in Nat /\ b \in Nat
      BY <1>y
    <3>2. w \in Nat /\ v \in Nat /\ w = v + (IF id = j THEN 1 ELSE 0)
      BY <1>7
    <3>3. a + w <= b
      BY <1>t
    <3>4. uoCalls'[j] = a + (IF id = j THEN 1 ELSE 0)
      <4>1. CASE id = j
        BY <2>5, <4>1
      <4>2. CASE id # j
        <5>1. uoCalls'[j] = a /\ a + 0 = a
          BY <2>5, <3>1, <4>2
        <5> QED  BY <4>2, <5>1
      <4> QED  BY <4>1, <4>2
    <3> HIDE DEF a, b, w, v, id
    <3>5. uoCalls'[j] + v <= b
      BY <3>1, <3>2, <3>3, <3>4
    <3> QED  BY <3>5 DEF b, v
  <2>12. UoToldInv'
    BY <1>2, <1>3, <2>8, <2>9, <2>10, <2>11, Zenon DEF UoToldInv
  <2> QED  BY <1>8, <2>6, <2>7, <2>12 DEF UoInv
<1> QED  BY <1>11, <1>12

LEMMA UoInitOK == UoInit => UoInv
<1> SUFFICES ASSUME UoInit
             PROVE  UoInv
  OBVIOUS
<1>1. /\ uoOps = [i \in 1 .. UoInitialSlots |-> NoOperation] /\ uoNextId = 1
      /\ uoSq = << >> /\ uoCq = << >> /\ uoKernel = {}
      /\ uoPoll = -1 /\ uoRun = NoRun
      /\ uoTold = [i \in UoIds |-> "none"] /\ uoCalls = [i \in UoIds |-> 0]
      /\ uoFinal = {} /\ uoZero = {} /\ uoShots = [i \in UoIds |-> 0]
  BY DEF UoInit
<1>2. Len(uoCq) = 0 /\ Len(uoSq) = 0
  BY <1>1
<1>3. UoQueues(uoNextId, uoSq, uoKernel, uoCq)
  BY <1>1, <1>2 DEF UoQueues
<1>4. NoOperation \in UoSlot /\ NoOperation.id = 0 /\ NoOperation.active = FALSE /\ NoOperation.kind = "single"
  BY DEF NoOperation, UoSlot, UoKinds
<1>5. UoTable(uoOps, uoNextId) /\ \A i \in 1 .. Len(uoOps) : uoOps[i] = NoOperation
  <2>1. uoOps \in Seq(UoSlot) /\ Len(uoOps) # 0 /\ \A i \in 1 .. Len(uoOps) : uoOps[i] = NoOperation
    BY <1>1, <1>4, UoAssumption
  <2> HIDE DEF NoOperation
  <2>2. \A i \in 1 .. Len(uoOps) : uoOps[i].id < 1
    BY <1>4, <2>1
  <2> QED  BY <1>1, <1>4, <2>1, <2>2 DEF UoTable
<1>6. UoTypeOK
  <2>1. -1 \in -1 .. Len(uoCq)
    BY <1>2
  <2> QED  BY <1>1, <2>1 DEF UoTypeOK
<1>7. UoKindInv
  <2>1. \A k \in 1 .. Len(uoCq) : FALSE
    BY <1>2
  <2>2. \A i \in 1 .. Len(uoOps) : uoOps[i].kind = "single"
    BY <1>4, <1>5
  <2> QED  BY <2>1, <2>2 DEF UoKindInv
<1>8. UoToldInv
  <2>1. Seen = 0
    BY <1>1 DEF Seen
  <2>2. \A id : Waiting(uoCq, 0, id) = 0
    <3> SUFFICES ASSUME NEW id
                 PROVE  Waiting(uoCq, 0, id) = 0
      OBVIOUS
    <3>1. {k \in 0 + 1 .. Len(uoCq) : uoCq[k].id = id} = {}
      BY <1>2
    <3> QED  BY <3>1, FS_EmptySet DEF Waiting
  <2>3. \A id \in UoIds : ~OnWay(uoSq, uoKernel, id)
    BY <1>1, <1>2 DEF OnWay
  <2>4. \A id \in UoIds : uoCalls[id] + Waiting(uoCq, Seen, id)
                            <= uoShots[id] + (IF OnWay(uoSq, uoKernel, id) THEN 0 ELSE 1)
    <3> SUFFICES ASSUME NEW id \in UoIds
                 PROVE  uoCalls[id] + Waiting(uoCq, Seen, id)
                            <= uoShots[id] + (IF OnWay(uoSq, uoKernel, id) THEN 0 ELSE 1)
      OBVIOUS
    <3>1. uoCalls[id] = 0 /\ uoShots[id] = 0 /\ Waiting(uoCq, Seen, id) = 0
      BY <1>1, <2>1, <2>2
    <3> QED  BY <2>3, <3>1
  <2>5. \A id \in UoIds : uoTold[id] = "none"
    BY <1>1
  <2> QED  BY <1>1, <2>4, <2>5 DEF UoToldInv
<1>9. UoRunInv
  BY <1>1 DEF UoRunInv, NoRun
<1> QED  BY <1>3, <1>5, <1>6, <1>7, <1>8, <1>9 DEF UoInv

LEMMA UoStep == UoInv /\ [UoNext]_uoVars => UoInv'
<1> SUFFICES ASSUME UoInv, [UoNext]_uoVars
             PROVE  UoInv'
  OBVIOUS
<1>1. ASSUME NEW ok \in BOOLEAN, NEW kind \in UoKinds, Submit(kind, ok)
      PROVE  UoInv'
  BY <1>1, UoSubmitOK
<1>2. ASSUME NEW ok \in BOOLEAN, \/ Submit("single", ok) \/ SubmitMultishot(ok)
                                 \/ SubmitZeroCopy(ok) \/ SubmitPooled(ok)
      PROVE  UoInv'
  <2>1. {"single", "multishot", "zero copy"} = UoKinds
    BY DEF UoKinds
  <2>2. \E kind \in UoKinds : Submit(kind, ok)
    BY <1>2, <2>1, Zenon DEF SubmitMultishot, SubmitZeroCopy, SubmitPooled
  <2> QED  BY <1>1, <2>2
<1>3. ASSUME NEW ok \in BOOLEAN, SubmitChain(ok)
      PROVE  UoInv'
  BY <1>3, UoSubmitChainOK
<1>4. ASSUME NEW ok \in BOOLEAN, NEW id \in UoIds, NetCancel(id, ok)
      PROVE  UoInv'
  BY <1>4, UoNetCancelOK
<1>5. ASSUME NEW ok \in BOOLEAN, PollSubmits(ok)
      PROVE  UoInv'
  BY <1>5, UoPollSubmitsOK
<1>6. ASSUME NEW id \in UoIds, NEW more \in BOOLEAN, KernelCompletes(id, more)
      PROVE  UoInv'
  BY <1>6, UoKernelCompletesOK
<1>7. ASSUME PollCompletion
      PROVE  UoInv'
  BY <1>7, UoPollCompletionOK
<1>8. ASSUME CompletionReturns
      PROVE  UoInv'
  BY <1>8, UoCompletionReturnsOK
<1>9. ASSUME PollEnd
      PROVE  UoInv'
  BY <1>9, UoPollEndOK
<1>10. CASE UNCHANGED uoVars
  <2>1. UNCHANGED <<uoOps, uoNextId, uoSq, uoCq, uoKernel, uoPoll, uoRun, uoTold, uoCalls, uoFinal, uoZero, uoShots>>
    BY <1>10 DEF uoVars
  <2> QED  BY <2>1, ZenonT(60) DEF UoInv, UoTypeOK, UoKindInv, UoToldInv, UoRunInv, Seen
<1> QED  BY <1>2, <1>3, <1>4, <1>5, <1>6, <1>7, <1>8, <1>9, <1>10, Zenon DEF UoNext

\* The invariant says more than the property.
LEMMA UoExact == UoInv => OperationsExact
<1> SUFFICES ASSUME UoInv
             PROVE  OperationsExact
  OBVIOUS
<1>1. uoOps \in Seq(UoSlot) /\ uoSq \in Seq(UoEntry) /\ uoCq \in Seq(UoCompletion) /\ uoPoll \in -1 .. Len(uoCq)
  BY DEF UoInv, UoTable, UoQueues, UoTypeOK
<1>2. \A id \in UoIds : ActiveSlot(uoOps, id) <=> FindSlots(uoOps, id) # {}
  <2>1. DOMAIN uoOps = 1 .. Len(uoOps)
    BY <1>1
  <2> QED  BY <2>1 DEF ActiveSlot, FindSlots
<1>3. \A id : InQueue(uoSq, id) <=> \E i \in 1 .. Len(uoSq) : uoSq[i].id = id
  BY <1>1 DEF InQueue
<1>4. \A id : InQueue(Unseen, id) <=> Comes(uoCq, Seen, id)
  <2> DEFINE s == Seen
             M == Len(uoCq)
  <2>1. s \in Nat /\ s <= M /\ M \in Nat
    <3>1. M \in Nat
      BY <1>1
    <3> HIDE DEF M
    <3> QED  BY <1>1, <3>1 DEF Seen, M
  <2>2. Unseen = SubSeq(uoCq, s + 1, M)
    BY DEF Unseen, Seen
  <2> HIDE DEF s
  <2>3. DOMAIN Unseen = 1 .. M - s /\ \A k \in 1 .. M - s : Unseen[k] = uoCq[k + s]
    <3>1. Unseen \in Seq(UoCompletion) /\ Len(Unseen) = M - s
      BY <1>1, <2>1, <2>2
    <3>2. \A k \in 1 .. M - s : Unseen[k] = uoCq[k + s]
      BY <1>1, <2>1, <2>2
    <3> QED  BY <3>1, <3>2
  <2> HIDE DEF M
  <2>4. ASSUME NEW id
        PROVE  (\E k \in 1 .. M - s : Unseen[k].id = id) <=> \E k \in s + 1 .. M : uoCq[k].id = id
    <3>1. ASSUME NEW k \in 1 .. M - s, Unseen[k].id = id
          PROVE  \E m \in s + 1 .. M : uoCq[m].id = id
      <4>1. k + s \in s + 1 .. M
        BY <2>1
      <4> QED  BY <2>3, <3>1, <4>1
    <3>2. ASSUME NEW m \in s + 1 .. M, uoCq[m].id = id
          PROVE  \E k \in 1 .. M - s : Unseen[k].id = id
      <4>1. m - s \in 1 .. M - s /\ (m - s) + s = m
        BY <2>1
      <4>2. Unseen[m - s] = uoCq[m]
        BY <2>3, <4>1
      <4> QED  BY <3>2, <4>1, <4>2
    <3> QED  BY <3>1, <3>2
  <2> QED  BY <2>3, <2>4 DEF InQueue, Comes, s, M
<1>5. ASSUME NEW id \in UoIds
      PROVE  uoCalls[id] <= uoShots[id] + 1
  <2> DEFINE a == uoCalls[id]
             h == uoShots[id]
             w == Waiting(uoCq, Seen, id)
  <2>1. a + w <= h + (IF OnWay(uoSq, uoKernel, id) THEN 0 ELSE 1)
    BY DEF UoInv, UoToldInv
  <2>2. a \in Nat /\ h \in Nat
    BY DEF UoInv, UoTypeOK
  <2>3. w \in Nat
    <3>1. Len(uoCq) \in Nat /\ Seen \in Nat
      BY <1>1 DEF Seen
    <3> QED  BY <3>1, WaitingType
  <2> HIDE DEF a, h, w
  <2>4. a + w <= h + 0 \/ a + w <= h + 1
    BY <2>1
  <2>5. a <= h + 1
    BY <2>2, <2>3, <2>4
  <2> QED  BY <2>5 DEF a, h
<1>6. ASSUME NEW id \in UoIds
      PROVE  Cardinality(FindSlots(uoOps, id)) <= 1
  <2> DEFINE F == FindSlots(uoOps, id)
  <2>1. \A i, j \in F : i = j
    <3>1. \A i \in F : i \in 1 .. Len(uoOps) /\ uoOps[i].id = id
      BY <1>1 DEF FindSlots
    <3>2. id # 0
      BY UoAssumption DEF UoIds
    <3> HIDE DEF F
    <3> QED  BY <3>1, <3>2 DEF UoInv, UoTable
  <2> HIDE DEF F
  <2>2. CASE F = {}
    <3>1. Cardinality(F) = 0
      BY <2>2, FS_EmptySet
    <3> QED  BY <3>1 DEF F
  <2>3. CASE F # {}
    <3>1. PICK i \in F : TRUE
      BY <2>3
    <3>2. F = {i}
      BY <2>1, <3>1
    <3>3. Cardinality(F) = 1
      BY <3>2, FS_Singleton
    <3> QED  BY <3>3 DEF F
  <2> QED  BY <2>2, <2>3
<1>7. /\ \A id \in UoIds : uoTold[id] = "submitted" /\ id \notin uoFinal =>
           ActiveSlot(uoOps, id) /\ (OnWay(uoSq, uoKernel, id) \/ Comes(uoCq, Seen, id))
      /\ \A id \in UoIds : uoTold[id] = "failed" => uoCalls[id] = 0
      /\ \A id \in uoFinal \ uoZero : ~OnWay(uoSq, uoKernel, id) /\ ~Comes(uoCq, Seen, id)
  BY DEF UoInv, UoToldInv
<1>8. \A id \in UoIds : uoTold[id] = "submitted" /\ id \notin uoFinal =>
        FindSlots(uoOps, id) # {} /\ (InQueue(uoSq, id) \/ id \in uoKernel \/ InQueue(Unseen, id))
  BY <1>2, <1>3, <1>4, <1>7 DEF OnWay
<1>9. \A id \in uoFinal \ uoZero : id \notin uoKernel /\ ~InQueue(Unseen, id)
  BY <1>4, <1>7 DEF OnWay
<1> QED  BY <1>5, <1>6, <1>7, <1>8, <1>9 DEF OperationsExact

-----------------------------------------------------------------------------
(* Pools of buffers under io_uring                                          *)

IbOps == {"provide", "remove", "refused", "receive"}
IbCalls == {"none", "new", "new refused", "free", "free failed"}
IbEntries == [op : IbOps, id : Nat, group : IbGroups]
IbBuf == (Nat \ {0}) \X (1 .. IbBuffers)
IbCompletions == [entry : IbEntries, buffer : IbBuf \cup {NoBuffer}]

\* Pools, and the call that waits.
IbPoolInv(groups, memory, made, w, tainted) ==
  /\ made \in Nat /\ groups \in [IbGroups -> 0 .. made]
  /\ \A g \in IbGroups : groups[g] # NoPool => groups[g] \in memory
  /\ \A g, h \in IbGroups : groups[g] = groups[h] /\ groups[g] # NoPool => g = h
  /\ w.call \in IbCalls /\ w.pool \in 0 .. made
  /\ w.call = "none" => w.pool = NoPool
  /\ w.call # "none" => w.pool # NoPool /\ w.group \in IbGroups
  /\ w.call \in {"new", "new refused"} =>
       w.pool \in memory /\ groups[w.group] = NoPool /\ \A g \in IbGroups : groups[g] # w.pool
  /\ w.call \in {"free", "free failed"} => groups[w.group] = w.pool
  /\ w.call = "free failed" => w.group \in tainted

\* The entry of an operation on a pool: only of that pool's group.
IbKnown(e, groups, made, w) ==
  e.op # "receive" =>
    /\ e.id \in 1 .. made
    /\ e.id = w.pool => e.group = w.group
    /\ \A h \in IbGroups : groups[h] = e.id => h = e.group

IbQueueInv(groups, made, w, sq, cq, free, armed) ==
  /\ sq \in Seq(IbEntries) /\ cq \in Seq(IbCompletions)
  /\ free \in [IbGroups -> Seq(IbBuf)]
  /\ armed \subseteq IbEntries /\ \A e \in armed : e.op = "receive"
  /\ \A i \in 1 .. Len(sq) : IbKnown(sq[i], groups, made, w)
  /\ \A k \in 1 .. Len(cq) : IbKnown(cq[k].entry, groups, made, w)
  /\ \A k \in 1 .. Len(cq) : cq[k].entry.op # "receive" => cq[k].buffer = NoBuffer

\* An operation on a pool of the group g.
Control(e, g) == e.op # "receive" /\ e.group = g
Buffered(c, g) == c.buffer # NoBuffer /\ c.entry.group = g

\* It is the one that is waited for.
IbAwaited(e, w, answered) ==
  /\ ~answered /\ w.group = e.group /\ w.pool = e.id
  /\ e.op = "provide" => w.call = "new"
  /\ e.op = "refused" => w.call = "new refused"
  /\ e.op = "remove" => w.call = "free"

\* The pool whose buffers the kernel may have.
Current(g, groups, w) ==
  IF groups[g] # NoPool THEN groups[g]
  ELSE IF w.call = "new" /\ w.group = g THEN w.pool ELSE NoPool

IbGroupInv(g, groups, w, answered, sq, cq, list) ==
  /\ \A i \in 1 .. Len(sq) : Control(sq[i], g) => IbAwaited(sq[i], w, answered)
  /\ \A k \in 1 .. Len(cq) : Control(cq[k].entry, g) => IbAwaited(cq[k].entry, w, answered)
  /\ \A i, j \in 1 .. Len(sq) : Control(sq[i], g) /\ Control(sq[j], g) => i = j
  /\ \A k, m \in 1 .. Len(cq) : Control(cq[k].entry, g) /\ Control(cq[m].entry, g) => k = m
  /\ \A i \in 1 .. Len(sq), k \in 1 .. Len(cq) : ~(Control(sq[i], g) /\ Control(cq[k].entry, g))
  /\ Len(list) <= IbBuffers
  /\ \A i \in 1 .. Len(list) : list[i][1] = Current(g, groups, w)
  /\ \A k \in 1 .. Len(cq) : Buffered(cq[k], g) => cq[k].buffer[1] = Current(g, groups, w)
  /\ \A i \in 1 .. Len(sq) : Control(sq[i], g) /\ sq[i].op = "provide" =>
       list = << >> /\ \A k \in 1 .. Len(cq) : ~Buffered(cq[k], g)
  /\ \A k \in 1 .. Len(cq) : Control(cq[k].entry, g) /\ cq[k].entry.op = "remove" =>
       list = << >> /\ \A m \in k + 1 .. Len(cq) : ~Buffered(cq[m], g)
  /\ answered /\ w.call = "free" /\ w.group = g =>
       list = << >> /\ \A k \in 1 .. Len(cq) : ~Buffered(cq[k], g)

\* What the running callback was told.
IbToldInv ==
  /\ ~ibInCallback => ibTold = NotTold
  /\ ibTold.handed # NoBuffer =>
       /\ ibTold.handed[1] \in ibMemory
       /\ ibTold.group \notin ibTainted => ibTold.handed = ibTold.written
  /\ ibTold.handed = NoBuffer /\ ibTold.written # NoBuffer /\ ibTold.group \notin ibTainted =>
       ibWait.call = "new" /\ ibTold.written[1] = ibWait.pool

IbState(groups, memory, made, w, answered, tainted, sq, cq, free, armed) ==
  /\ IbPoolInv(groups, memory, made, w, tainted)
  /\ IbQueueInv(groups, made, w, sq, cq, free, armed)
  /\ \A g \in IbGroups \ tainted : IbGroupInv(g, groups, w, answered, sq, cq, free[g])

IbInv ==
  /\ IbState(ibGroups, ibMemory, ibMade, ibWait, ibAnswered, ibTainted, ibSq, ibCq, ibFree, ibArmed)
  /\ ibAnswered \in BOOLEAN /\ ibInCallback \in BOOLEAN
  /\ IbToldInv

\* The queues as an action changes them.
LEMMA TailOf ==
  ASSUME NEW S, NEW s \in Seq(S), s # << >>
  PROVE  /\ Tail(s) \in Seq(S) /\ Len(s) \in Nat \ {0} /\ Len(Tail(s)) = Len(s) - 1 /\ Len(Tail(s)) \in Nat
         /\ Head(s) = s[1] /\ 1 \in 1 .. Len(s) /\ Head(s) \in S
         /\ \A i \in 1 .. Len(Tail(s)) : Tail(s)[i] = s[i + 1] /\ i + 1 \in 1 .. Len(s) /\ i + 1 # 1 /\ i \in Nat
<1>1. Tail(s) \in Seq(S) /\ Len(s) \in Nat \ {0} /\ Len(Tail(s)) = Len(s) - 1 /\ Head(s) = s[1] /\ Head(s) \in S
  OBVIOUS
<1>2. 1 \in 1 .. Len(s) /\ Len(Tail(s)) \in Nat
  BY <1>1
<1>3. \A i \in 1 .. Len(Tail(s)) : Tail(s)[i] = s[i + 1]
  OBVIOUS
<1>4. \A i \in 1 .. Len(Tail(s)) : i + 1 \in 1 .. Len(s) /\ i + 1 # 1 /\ i \in Nat
  BY <1>1
<1> QED  BY <1>1, <1>2, <1>3, <1>4

LEMMA AppendOf ==
  ASSUME NEW S, NEW s \in Seq(S), NEW x \in S
  PROVE  /\ Append(s, x) \in Seq(S) /\ Len(s) \in Nat /\ Len(Append(s, x)) = Len(s) + 1
         /\ Append(s, x) # << >>
         /\ Append(s, x)[Len(s) + 1] = x /\ Len(s) + 1 \in 1 .. Len(s) + 1
         /\ \A i \in 1 .. Len(s) : Append(s, x)[i] = s[i] /\ i # Len(s) + 1 /\ i \in 1 .. Len(s) + 1
         /\ \A i \in 1 .. Len(s) + 1 : i \in 1 .. Len(s) \/ i = Len(s) + 1
<1>1. Append(s, x) \in Seq(S) /\ Len(s) \in Nat /\ Len(Append(s, x)) = Len(s) + 1 /\ Append(s, x)[Len(s) + 1] = x
  OBVIOUS
<1>2. \A i \in 1 .. Len(s) : Append(s, x)[i] = s[i]
  OBVIOUS
<1>3. Append(s, x) # << >>
  <2>1. Len(<< >>) = 0
    OBVIOUS
  <2> QED  BY <1>1, <2>1
<1>4. Len(s) + 1 \in 1 .. Len(s) + 1 /\ \A i \in 1 .. Len(s) : i # Len(s) + 1 /\ i \in 1 .. Len(s) + 1
  BY <1>1
<1>5. \A i \in 1 .. Len(s) + 1 : i \in 1 .. Len(s) \/ i = Len(s) + 1
  BY <1>1
<1> QED  BY <1>1, <1>2, <1>3, <1>4, <1>5

\* What is left when the kernel takes an entry that is none of the group's, or
\* when more are queued and completed.
LEMMA GroupShrink ==
  ASSUME NEW g, NEW groups, NEW w, NEW answered, NEW sq \in Seq(IbEntries), NEW cq, NEW list, sq # << >>,
         IbGroupInv(g, groups, w, answered, sq, cq, list)
  PROVE  IbGroupInv(g, groups, w, answered, Tail(sq), cq, list)
<1> DEFINE q == Tail(sq)
<1>1. Len(q) \in Nat /\ \A i \in 1 .. Len(q) : q[i] = sq[i + 1] /\ i + 1 \in 1 .. Len(sq) /\ i \in Nat
  BY TailOf
<1> HIDE DEF q
<1>2. \A i \in 1 .. Len(q) : Control(q[i], g) => IbAwaited(q[i], w, answered)
  BY <1>1 DEF IbGroupInv
<1>3. ASSUME NEW i \in 1 .. Len(q), NEW j \in 1 .. Len(q), Control(q[i], g), Control(q[j], g)
      PROVE  i = j
  <2>1. i + 1 = j + 1
    BY <1>1, <1>3 DEF IbGroupInv
  <2> QED  BY <2>1
<1>4. \A i \in 1 .. Len(q), k \in 1 .. Len(cq) : ~(Control(q[i], g) /\ Control(cq[k].entry, g))
  BY <1>1 DEF IbGroupInv
<1>5. \A i \in 1 .. Len(q) : Control(q[i], g) /\ q[i].op = "provide" =>
        list = << >> /\ \A k \in 1 .. Len(cq) : ~Buffered(cq[k], g)
  BY <1>1 DEF IbGroupInv
<1>6. IbGroupInv(g, groups, w, answered, q, cq, list)
  BY <1>2, <1>3, <1>4, <1>5 DEF IbGroupInv
<1> QED  BY <1>6 DEF q

LEMMA GroupCompleted ==
  ASSUME NEW g, NEW groups, NEW w, NEW answered, NEW sq, NEW cq \in Seq(IbCompletions), NEW list,
         NEW c \in IbCompletions, ~Control(c.entry, g), ~Buffered(c, g),
         IbGroupInv(g, groups, w, answered, sq, cq, list)
  PROVE  IbGroupInv(g, groups, w, answered, sq, Append(cq, c), list)
<1> DEFINE q == Append(cq, c)
           M == Len(cq)
<1>1. /\ M \in Nat /\ Len(q) = M + 1 /\ q[M + 1] = c
      /\ \A k \in 1 .. M : q[k] = cq[k]
      /\ \A k \in 1 .. M + 1 : k \in 1 .. M \/ k = M + 1
  BY AppendOf
<1> HIDE DEF q, M
<1>2. \A k \in 1 .. M + 1 : /\ Control(q[k].entry, g) => k \in 1 .. M /\ q[k] = cq[k]
                            /\ Buffered(q[k], g) => k \in 1 .. M /\ q[k] = cq[k]
  BY <1>1
<1>3. \A k \in 1 .. M + 1 : Control(q[k].entry, g) => IbAwaited(q[k].entry, w, answered)
  BY <1>2 DEF IbGroupInv, M
<1>4. \A k, m \in 1 .. M + 1 : Control(q[k].entry, g) /\ Control(q[m].entry, g) => k = m
  BY <1>2 DEF IbGroupInv, M
<1>5. \A i \in 1 .. Len(sq), k \in 1 .. M + 1 : ~(Control(sq[i], g) /\ Control(q[k].entry, g))
  BY <1>2 DEF IbGroupInv, M
<1>6. \A k \in 1 .. M + 1 : Buffered(q[k], g) => q[k].buffer[1] = Current(g, groups, w)
  BY <1>2 DEF IbGroupInv, M
<1>7. (\A k \in 1 .. M : ~Buffered(cq[k], g)) => \A k \in 1 .. M + 1 : ~Buffered(q[k], g)
  BY <1>2
<1>8. ASSUME NEW k \in 1 .. M + 1, Control(q[k].entry, g), q[k].entry.op = "remove"
      PROVE  list = << >> /\ \A m \in k + 1 .. M + 1 : ~Buffered(q[m], g)
  <2>1. k \in 1 .. M /\ q[k] = cq[k]
    BY <1>2, <1>8
  <2>2. list = << >> /\ \A m \in k + 1 .. M : ~Buffered(cq[m], g)
    BY <1>8, <2>1 DEF IbGroupInv, M
  <2>3. \A m \in k + 1 .. M + 1 : m = M + 1 \/ (m \in k + 1 .. M /\ m \in 1 .. M)
    BY <1>1, <2>1
  <2> QED  BY <1>1, <2>2, <2>3
<1>9. \A i \in 1 .. Len(sq) : Control(sq[i], g) /\ sq[i].op = "provide" =>
        list = << >> /\ \A k \in 1 .. M + 1 : ~Buffered(q[k], g)
  BY <1>7 DEF IbGroupInv, M
<1>10. answered /\ w.call = "free" /\ w.group = g => list = << >> /\ \A k \in 1 .. M + 1 : ~Buffered(q[k], g)
  BY <1>7 DEF IbGroupInv, M
<1>11. IbGroupInv(g, groups, w, answered, sq, q, list)
  BY <1>1, <1>3, <1>4, <1>5, <1>6, <1>8, <1>9, <1>10 DEF IbGroupInv
<1> QED  BY <1>11 DEF q

LEMMA GroupPush ==
  ASSUME NEW g, NEW groups, NEW w, NEW answered, NEW sq \in Seq(IbEntries), NEW cq, NEW list,
         NEW e \in IbEntries, ~Control(e, g),
         IbGroupInv(g, groups, w, answered, sq, cq, list)
  PROVE  IbGroupInv(g, groups, w, answered, Append(sq, e), cq, list)
<1> DEFINE q == Append(sq, e)
           L == Len(sq)
<1>1. /\ L \in Nat /\ Len(q) = L + 1 /\ q[L + 1] = e
      /\ \A i \in 1 .. L : q[i] = sq[i]
      /\ \A i \in 1 .. L + 1 : i \in 1 .. L \/ i = L + 1
  BY AppendOf
<1> HIDE DEF q, L
<1>2. \A i \in 1 .. L + 1 : Control(q[i], g) => i \in 1 .. L /\ q[i] = sq[i]
  BY <1>1
<1>3. \A i \in 1 .. L + 1 : Control(q[i], g) => IbAwaited(q[i], w, answered)
  BY <1>2 DEF IbGroupInv, L
<1>4. \A i, j \in 1 .. L + 1 : Control(q[i], g) /\ Control(q[j], g) => i = j
  BY <1>2 DEF IbGroupInv, L
<1>5. \A i \in 1 .. L + 1, k \in 1 .. Len(cq) : ~(Control(q[i], g) /\ Control(cq[k].entry, g))
  BY <1>2 DEF IbGroupInv, L
<1>6. \A i \in 1 .. L + 1 : Control(q[i], g) /\ q[i].op = "provide" =>
        list = << >> /\ \A k \in 1 .. Len(cq) : ~Buffered(cq[k], g)
  BY <1>2 DEF IbGroupInv, L
<1>7. IbGroupInv(g, groups, w, answered, q, cq, list)
  BY <1>1, <1>3, <1>4, <1>5, <1>6 DEF IbGroupInv
<1> QED  BY <1>7 DEF q

\* A group without operations: the pools and the call that waits may change,
\* if what the kernel has is still of its current pool.
IbQuiet(g, sq, cq) ==
  (\A i \in 1 .. Len(sq) : ~Control(sq[i], g)) /\ \A k \in 1 .. Len(cq) : ~Control(cq[k].entry, g)

IbOwn(g, groups, w, cq, list) ==
  /\ Len(list) <= IbBuffers
  /\ \A i \in 1 .. Len(list) : list[i][1] = Current(g, groups, w)
  /\ \A k \in 1 .. Len(cq) : Buffered(cq[k], g) => cq[k].buffer[1] = Current(g, groups, w)

LEMMA GroupQuiet ==
  ASSUME NEW g, NEW groups, NEW w, NEW answered, NEW sq, NEW cq, NEW list,
         IbQuiet(g, sq, cq), IbOwn(g, groups, w, cq, list), ~(answered /\ w.call = "free" /\ w.group = g)
  PROVE  IbGroupInv(g, groups, w, answered, sq, cq, list)
BY DEF IbQuiet, IbOwn, IbGroupInv

LEMMA GroupPushOwn ==
  ASSUME NEW g, NEW groups, NEW w, NEW sq \in Seq(IbEntries), NEW cq, NEW list,
         NEW e \in IbEntries, Control(e, g), IbAwaited(e, w, FALSE),
         IbQuiet(g, sq, cq), IbOwn(g, groups, w, cq, list),
         e.op = "provide" => list = << >> /\ \A k \in 1 .. Len(cq) : ~Buffered(cq[k], g)
  PROVE  IbGroupInv(g, groups, w, FALSE, Append(sq, e), cq, list)
<1> DEFINE q == Append(sq, e)
           L == Len(sq)
<1>1. /\ L \in Nat /\ Len(q) = L + 1 /\ q[L + 1] = e
      /\ \A i \in 1 .. L : q[i] = sq[i]
      /\ \A i \in 1 .. L + 1 : i \in 1 .. L \/ i = L + 1
  BY AppendOf
<1> HIDE DEF q, L
<1>2. \A i \in 1 .. L + 1 : Control(q[i], g) => i = L + 1 /\ q[i] = e
  BY <1>1 DEF IbQuiet, L
<1>3. \A i \in 1 .. L + 1 : Control(q[i], g) => IbAwaited(q[i], w, FALSE)
  BY <1>2
<1>4. \A i, j \in 1 .. L + 1 : Control(q[i], g) /\ Control(q[j], g) => i = j
  BY <1>2
<1>5. \A i \in 1 .. L + 1 : Control(q[i], g) /\ q[i].op = "provide" =>
        list = << >> /\ \A k \in 1 .. Len(cq) : ~Buffered(cq[k], g)
  BY <1>2
<1>6. IbGroupInv(g, groups, w, FALSE, q, cq, list)
  BY <1>1, <1>3, <1>4, <1>5 DEF IbGroupInv, IbQuiet, IbOwn
<1> QED  BY <1>6 DEF q

\* The kernel executes the operation of the group.
LEMMA GroupExecuted ==
  ASSUME NEW g, NEW groups, NEW w, NEW answered, NEW sq \in Seq(IbEntries), NEW cq \in Seq(IbCompletions), NEW list,
         sq # << >>, Control(sq[1], g), IbGroupInv(g, groups, w, answered, sq, cq, list),
         NEW c \in IbCompletions, c.entry = sq[1], c.buffer = NoBuffer,
         NEW new, Len(new) <= IbBuffers, \A i \in 1 .. Len(new) : new[i][1] = Current(g, groups, w),
         sq[1].op = "remove" => new = << >>
  PROVE  IbGroupInv(g, groups, w, answered, Tail(sq), Append(cq, c), new)
<1> DEFINE q == Tail(sq)
           d == Append(cq, c)
           M == Len(cq)
<1>1. 1 \in 1 .. Len(sq) /\ \A i \in 1 .. Len(q) : q[i] = sq[i + 1] /\ i + 1 \in 1 .. Len(sq) /\ i + 1 # 1 /\ i \in Nat
  BY TailOf
<1>2. /\ M \in Nat /\ Len(d) = M + 1 /\ d[M + 1] = c
      /\ \A k \in 1 .. M : d[k] = cq[k]
      /\ \A k \in 1 .. M + 1 : k \in 1 .. M \/ k = M + 1
  BY AppendOf
<1> HIDE DEF q, d, M
<1>3. \A i \in 1 .. Len(q) : ~Control(q[i], g)
  BY <1>1 DEF IbGroupInv
<1>4. \A k \in 1 .. M : ~Control(cq[k].entry, g)
  BY <1>1 DEF IbGroupInv, M
<1>5. IbAwaited(sq[1], w, answered)
  BY <1>1 DEF IbGroupInv
<1>6. ~Buffered(c, g)
  BY DEF Buffered
<1>7. \A k \in 1 .. M + 1 : Control(d[k].entry, g) => k = M + 1 /\ d[k] = c
  BY <1>2, <1>4
<1>8. \A k \in 1 .. M + 1 : Buffered(d[k], g) => k \in 1 .. M /\ d[k] = cq[k]
  BY <1>2, <1>6
<1>9. \A k \in 1 .. M + 1 : Buffered(d[k], g) => d[k].buffer[1] = Current(g, groups, w)
  BY <1>8 DEF IbGroupInv, M
<1>10. \A m \in (M + 1) + 1 .. M + 1 : FALSE
  BY <1>2
<1>11. ~answered
  BY <1>5 DEF IbAwaited
<1>12. \A k \in 1 .. M + 1 : Control(d[k].entry, g) => IbAwaited(d[k].entry, w, answered)
  BY <1>5, <1>7
<1>13. \A k \in 1 .. M + 1 : Control(d[k].entry, g) /\ d[k].entry.op = "remove" =>
         new = << >> /\ \A m \in k + 1 .. M + 1 : ~Buffered(d[m], g)
  BY <1>7, <1>10
<1>14. \A k, m \in 1 .. M + 1 : Control(d[k].entry, g) /\ Control(d[m].entry, g) => k = m
  BY <1>7
<1>15. IbGroupInv(g, groups, w, answered, q, d, new)
  BY <1>2, <1>3, <1>9, <1>11, <1>12, <1>13, <1>14 DEF IbGroupInv
<1> QED  BY <1>15 DEF q, d

\* The program takes a completion; if it is of the group's operation, this is
\* answered.
LEMMA GroupTaken ==
  ASSUME NEW g, NEW groups, NEW w, NEW answered \in BOOLEAN, NEW now \in BOOLEAN, NEW sq, NEW cq \in Seq(IbCompletions), NEW list,
         cq # << >>, IbGroupInv(g, groups, w, answered, sq, cq, list),
         Control(cq[1].entry, g) => now,
         ~Control(cq[1].entry, g) => (now <=> answered) \/ w.group # g
  PROVE  IbGroupInv(g, groups, w, now, sq, Tail(cq), list)
<1> DEFINE d == Tail(cq)
<1>1. /\ Len(d) \in Nat /\ 1 \in 1 .. Len(cq) /\ Len(d) = Len(cq) - 1 /\ Len(cq) \in Nat
      /\ \A k \in 1 .. Len(d) : d[k] = cq[k + 1] /\ k + 1 \in 1 .. Len(cq) /\ k + 1 # 1 /\ k \in Nat
  BY TailOf
<1> HIDE DEF d
<1>2. \A k \in 1 .. Len(d) : Buffered(d[k], g) => d[k].buffer[1] = Current(g, groups, w)
  BY <1>1 DEF IbGroupInv
<1>3. CASE Control(cq[1].entry, g)
  <2>1. (\A i \in 1 .. Len(sq) : ~Control(sq[i], g)) /\ \A k \in 1 .. Len(d) : ~Control(d[k].entry, g)
    BY <1>1, <1>3 DEF IbGroupInv
  <2>2. IbAwaited(cq[1].entry, w, answered)
    BY <1>1, <1>3 DEF IbGroupInv
  <2>3. ASSUME w.call = "free", w.group = g
        PROVE  list = << >> /\ \A k \in 1 .. Len(d) : ~Buffered(d[k], g)
    <3>1. cq[1] \in IbCompletions /\ cq[1].entry \in IbEntries
      <4>1. cq[1] \in IbCompletions
        BY <1>1
      <4> QED  BY <4>1 DEF IbCompletions
    <3>2. cq[1].entry.op \in IbOps /\ cq[1].entry.op # "receive"
      BY <1>3, <3>1 DEF IbEntries, Control
    <3>3. cq[1].entry.op = "remove"
      BY <2>2, <2>3, <3>2 DEF IbAwaited, IbOps
    <3>4. list = << >> /\ \A m \in 1 + 1 .. Len(cq) : ~Buffered(cq[m], g)
      BY <1>1, <1>3, <3>3 DEF IbGroupInv
    <3>5. \A k \in 1 .. Len(d) : k + 1 \in 1 + 1 .. Len(cq)
      BY <1>1
    <3> QED  BY <1>1, <3>4, <3>5
  <2>4. IbGroupInv(g, groups, w, now, sq, d, list)
    BY <1>2, <2>1, <2>3 DEF IbGroupInv
  <2> QED  BY <2>4 DEF d
<1>4. CASE ~Control(cq[1].entry, g) /\ w.group # g
  <2>1. (\A i \in 1 .. Len(sq) : ~Control(sq[i], g)) /\ \A k \in 1 .. Len(d) : ~Control(d[k].entry, g)
    <3>1. \A e : Control(e, g) => ~IbAwaited(e, w, answered)
      BY <1>4 DEF Control, IbAwaited
    <3> QED  BY <1>1, <3>1 DEF IbGroupInv
  <2>2. IbGroupInv(g, groups, w, now, sq, d, list)
    BY <1>2, <1>4, <2>1 DEF IbGroupInv
  <2> QED  BY <2>2 DEF d
<1>5. CASE ~Control(cq[1].entry, g) /\ (now <=> answered)
  <2>0. now = answered
    BY <1>5
  <2>1. \A k \in 1 .. Len(d) : Control(d[k].entry, g) => IbAwaited(d[k].entry, w, answered)
    BY <1>1 DEF IbGroupInv
  <2>2. ASSUME NEW k \in 1 .. Len(d), NEW m \in 1 .. Len(d), Control(d[k].entry, g), Control(d[m].entry, g)
        PROVE  k = m
    <3>1. k + 1 = m + 1
      BY <1>1, <2>2 DEF IbGroupInv
    <3> QED  BY <3>1
  <2>3. \A i \in 1 .. Len(sq), k \in 1 .. Len(d) : ~(Control(sq[i], g) /\ Control(d[k].entry, g))
    BY <1>1 DEF IbGroupInv
  <2>4. (\A k \in 1 .. Len(cq) : ~Buffered(cq[k], g)) => \A k \in 1 .. Len(d) : ~Buffered(d[k], g)
    BY <1>1
  <2>5. ASSUME NEW k \in 1 .. Len(d), Control(d[k].entry, g), d[k].entry.op = "remove"
        PROVE  list = << >> /\ \A m \in k + 1 .. Len(d) : ~Buffered(d[m], g)
    <3>1. list = << >> /\ \A m \in (k + 1) + 1 .. Len(cq) : ~Buffered(cq[m], g)
      BY <1>1, <2>5 DEF IbGroupInv
    <3>2. \A m \in k + 1 .. Len(d) : m \in 1 .. Len(d) /\ m + 1 \in (k + 1) + 1 .. Len(cq)
      BY <1>1
    <3> QED  BY <1>1, <3>1, <3>2
  <2>6. \A i \in 1 .. Len(sq) : Control(sq[i], g) /\ sq[i].op = "provide" =>
          list = << >> /\ \A k \in 1 .. Len(d) : ~Buffered(d[k], g)
    BY <2>4 DEF IbGroupInv
  <2>7. answered /\ w.call = "free" /\ w.group = g => list = << >> /\ \A k \in 1 .. Len(d) : ~Buffered(d[k], g)
    BY <2>4 DEF IbGroupInv
  <2>8. IbGroupInv(g, groups, w, answered, sq, d, list)
    BY <1>2, <2>1, <2>2, <2>3, <2>5, <2>6, <2>7 DEF IbGroupInv
  <2> QED  BY <2>0, <2>8 DEF d
<1> QED  BY <1>3, <1>4, <1>5

\* The kernel takes a buffer of the group for a receive.
LEMMA GroupReceive ==
  ASSUME NEW g, NEW groups, NEW w, NEW answered, NEW sq, NEW cq \in Seq(IbCompletions), NEW list \in Seq(IbBuf),
         list # << >>, IbGroupInv(g, groups, w, answered, sq, cq, list),
         NEW c \in IbCompletions, c.entry.op = "receive", c.buffer = list[1]
  PROVE  IbGroupInv(g, groups, w, answered, sq, Append(cq, c), Tail(list))
<1> DEFINE d == Append(cq, c)
           M == Len(cq)
           rest == Tail(list)
<1>1. /\ 1 \in 1 .. Len(list) /\ Len(list) \in Nat /\ Len(rest) = Len(list) - 1
      /\ \A i \in 1 .. Len(rest) : rest[i] = list[i + 1] /\ i + 1 \in 1 .. Len(list)
  BY TailOf
<1>2. /\ M \in Nat /\ Len(d) = M + 1 /\ d[M + 1] = c
      /\ \A k \in 1 .. M : d[k] = cq[k]
      /\ \A k \in 1 .. M + 1 : k \in 1 .. M \/ k = M + 1
  BY AppendOf
<1> HIDE DEF d, M, rest
<1>3. ~Control(c.entry, g)
  BY DEF Control
<1>4. \A k \in 1 .. M + 1 : Control(d[k].entry, g) => k \in 1 .. M /\ d[k] = cq[k]
  BY <1>2, <1>3
<1>5. /\ \A k \in 1 .. M + 1 : Control(d[k].entry, g) => IbAwaited(d[k].entry, w, answered)
      /\ \A k, m \in 1 .. M + 1 : Control(d[k].entry, g) /\ Control(d[m].entry, g) => k = m
      /\ \A i \in 1 .. Len(sq), k \in 1 .. M + 1 : ~(Control(sq[i], g) /\ Control(d[k].entry, g))
  BY <1>4 DEF IbGroupInv, M
<1>6. \A k \in 1 .. M + 1 : Buffered(d[k], g) => d[k].buffer[1] = Current(g, groups, w)
  <2>1. list[1][1] = Current(g, groups, w)
    BY <1>1 DEF IbGroupInv
  <2> QED  BY <1>2, <2>1 DEF IbGroupInv, M
<1>7. Len(rest) <= IbBuffers /\ \A i \in 1 .. Len(rest) : rest[i][1] = Current(g, groups, w)
  <2>1. Len(list) <= IbBuffers /\ \A i \in 1 .. Len(list) : list[i][1] = Current(g, groups, w)
    BY DEF IbGroupInv
  <2>2. Len(rest) <= IbBuffers
    BY <1>1, <2>1, IbAssumption
  <2> QED  BY <1>1, <2>1, <2>2
<1>8. \A i \in 1 .. Len(sq) : ~(Control(sq[i], g) /\ sq[i].op = "provide")
  BY DEF IbGroupInv
<1>9. \A k \in 1 .. M + 1 : ~(Control(d[k].entry, g) /\ d[k].entry.op = "remove")
  BY <1>4 DEF IbGroupInv, M
<1>10. ~(answered /\ w.call = "free" /\ w.group = g)
  BY DEF IbGroupInv
<1>11. IbGroupInv(g, groups, w, answered, sq, d, rest)
  <2>1. \A i \in 1 .. Len(sq) : Control(sq[i], g) => IbAwaited(sq[i], w, answered)
    BY DEF IbGroupInv
  <2>2. \A i, j \in 1 .. Len(sq) : Control(sq[i], g) /\ Control(sq[j], g) => i = j
    BY DEF IbGroupInv
  <2> QED  BY <1>2, <1>5, <1>6, <1>7, <1>8, <1>9, <1>10, <2>1, <2>2 DEF IbGroupInv
<1> QED  BY <1>11 DEF d, rest

\* Outside of its call there is no operation on a pool of a group.
LEMMA NothingAwaited ==
  ASSUME NEW groups, NEW made, NEW w, NEW answered, NEW sq, NEW cq, NEW free, NEW armed, NEW g, NEW list,
         IbQueueInv(groups, made, w, sq, cq, free, armed), IbGroupInv(g, groups, w, answered, sq, cq, list),
         answered \/ w.call = "none" \/ w.group # g
  PROVE  IbQuiet(g, sq, cq)
<1>1. ASSUME NEW e \in IbEntries, Control(e, g), IbAwaited(e, w, answered)
      PROVE  FALSE
  <2>1. e.op \in {"provide", "remove", "refused"} /\ e.group = g
    BY <1>1 DEF IbEntries, IbOps, Control
  <2>2. ~answered /\ w.group = g
    BY <1>1, <2>1 DEF IbAwaited
  <2>3. w.call \in {"new", "free", "new refused"}
    BY <1>1, <2>1 DEF IbAwaited
  <2> QED  BY <2>2, <2>3
<1>2. sq \in Seq(IbEntries) /\ cq \in Seq(IbCompletions)
  BY DEF IbQueueInv
<1>3. \A i \in 1 .. Len(sq) : sq[i] \in IbEntries
  BY <1>2
<1>4. \A k \in 1 .. Len(cq) : cq[k].entry \in IbEntries
  <2>1. \A k \in 1 .. Len(cq) : cq[k] \in IbCompletions
    BY <1>2
  <2> QED  BY <2>1 DEF IbCompletions
<1> QED  BY <1>1, <1>3, <1>4 DEF IbGroupInv, IbQuiet

\* io_uring_enter.
LEMMA BuffersOfOK ==
  ASSUME NEW p \in Nat \ {0}
  PROVE  /\ BuffersOf(p) \in Seq(IbBuf) /\ Len(BuffersOf(p)) = IbBuffers
         /\ \A i \in 1 .. IbBuffers : BuffersOf(p)[i][1] = p
<1>1. IbBuffers \in Nat
  BY IbAssumption
<1>2. \A i \in 1 .. IbBuffers : <<p, i>> \in IbBuf
  BY DEF IbBuf
<1> QED  BY <1>1, <1>2 DEF BuffersOf

LEMMA ExecuteOK ==
  ASSUME NEW e, e.op \in IbOps, NEW sq, Head(sq) = e, IbEnter(sq), NEW c, c = [entry |-> e, buffer |-> NoBuffer]
  PROVE  /\ ibSq' = Tail(sq)
         /\ e.op = "receive" => ibFree' = ibFree /\ ibArmed' = ibArmed \cup {e} /\ ibCq' = ibCq
         /\ e.op # "receive" => ibArmed' = ibArmed /\ ibCq' = Append(ibCq, c)
         /\ e.op = "provide" => ibFree' = [ibFree EXCEPT ![e.group] = @ \o BuffersOf(e.id)]
         /\ e.op = "remove" => ibFree' = [ibFree EXCEPT ![e.group] = SubSeq(@, IbBuffers + 1, Len(@))]
         /\ e.op = "refused" => ibFree' = ibFree
<1> DEFINE k == [free |-> ibFree, armed |-> ibArmed, cq |-> ibCq]
           x == Execute(e, k)
<1>1. ibSq' = Tail(sq) /\ ibFree' = x.free /\ ibArmed' = x.armed /\ ibCq' = x.cq
  BY DEF IbEnter
<1>2. CASE e.op = "receive"
  <2>1. x = [k EXCEPT !.armed = @ \cup {e}]
    BY <1>2 DEF Execute
  <2>2. x.free = ibFree /\ x.armed = ibArmed \cup {e} /\ x.cq = ibCq
    BY <2>1
  <2> QED  BY <1>1, <1>2, <2>2
<1>3. CASE e.op = "provide"
  <2>1. x = [k EXCEPT !.free[e.group] = @ \o BuffersOf(e.id), !.cq = Append(@, c)]
    BY <1>3 DEF Execute
  <2>2. x.free = [ibFree EXCEPT ![e.group] = @ \o BuffersOf(e.id)] /\ x.armed = ibArmed /\ x.cq = Append(ibCq, c)
    BY <2>1
  <2> QED  BY <1>1, <1>3, <2>2
<1>4. CASE e.op = "remove"
  <2>1. x = [k EXCEPT !.free[e.group] = SubSeq(@, IbBuffers + 1, Len(@)), !.cq = Append(@, c)]
    BY <1>4 DEF Execute
  <2>2. x.free = [ibFree EXCEPT ![e.group] = SubSeq(@, IbBuffers + 1, Len(@))] /\ x.armed = ibArmed /\ x.cq = Append(ibCq, c)
    BY <2>1
  <2> QED  BY <1>1, <1>4, <2>2
<1>5. CASE e.op = "refused"
  <2>1. x = [k EXCEPT !.cq = Append(@, c)]
    BY <1>5 DEF Execute
  <2>2. x.free = ibFree /\ x.armed = ibArmed /\ x.cq = Append(ibCq, c)
    BY <2>1
  <2> QED  BY <1>1, <1>5, <2>2
<1> QED  BY <1>2, <1>3, <1>4, <1>5 DEF IbOps

LEMMA IbEnterOK ==
  ASSUME NEW groups, NEW memory, NEW made, NEW w, NEW answered, NEW tainted, NEW sq,
         IbState(groups, memory, made, w, answered, tainted, sq, ibCq, ibFree, ibArmed),
         sq # << >>, IbEnter(sq)
  PROVE  IbState(groups, memory, made, w, answered, tainted, ibSq', ibCq', ibFree', ibArmed')
<1> DEFINE e == Head(sq)
           c == [entry |-> e, buffer |-> NoBuffer]
<1>1. /\ IbPoolInv(groups, memory, made, w, tainted)
      /\ IbQueueInv(groups, made, w, sq, ibCq, ibFree, ibArmed)
      /\ \A g \in IbGroups \ tainted : IbGroupInv(g, groups, w, answered, sq, ibCq, ibFree[g])
  BY DEF IbState
<1>2. /\ sq \in Seq(IbEntries) /\ ibCq \in Seq(IbCompletions)
      /\ ibFree \in [IbGroups -> Seq(IbBuf)]
      /\ ibArmed \subseteq IbEntries /\ \A x \in ibArmed : x.op = "receive"
      /\ \A i \in 1 .. Len(sq) : IbKnown(sq[i], groups, made, w)
      /\ \A k \in 1 .. Len(ibCq) : IbKnown(ibCq[k].entry, groups, made, w)
      /\ \A k \in 1 .. Len(ibCq) : ibCq[k].entry.op # "receive" => ibCq[k].buffer = NoBuffer
  BY <1>1 DEF IbQueueInv
<1>3. /\ Tail(sq) \in Seq(IbEntries) /\ e = sq[1] /\ 1 \in 1 .. Len(sq) /\ e \in IbEntries
      /\ \A i \in 1 .. Len(Tail(sq)) : Tail(sq)[i] = sq[i + 1] /\ i + 1 \in 1 .. Len(sq)
  BY <1>2, TailOf
<1>4. e.op \in IbOps /\ e.group \in IbGroups /\ e.id \in Nat
  BY <1>3 DEF IbEntries
<1>5. IbKnown(e, groups, made, w)
  BY <1>2, <1>3
<1>6. c \in IbCompletions /\ c.entry = e /\ c.buffer = NoBuffer
  BY <1>3 DEF IbCompletions
<1> HIDE DEF e, c
<1>7. /\ ibSq' = Tail(sq)
      /\ e.op = "receive" => ibFree' = ibFree /\ ibArmed' = ibArmed \cup {e} /\ ibCq' = ibCq
      /\ e.op # "receive" => ibArmed' = ibArmed /\ ibCq' = Append(ibCq, c)
      /\ e.op = "provide" => ibFree' = [ibFree EXCEPT ![e.group] = @ \o BuffersOf(e.id)]
      /\ e.op = "remove" => ibFree' = [ibFree EXCEPT ![e.group] = SubSeq(@, IbBuffers + 1, Len(@))]
      /\ e.op = "refused" => ibFree' = ibFree
  BY <1>4, ExecuteOK DEF e, c
<1>8. \A i \in 1 .. Len(Tail(sq)) : IbKnown(Tail(sq)[i], groups, made, w)
  BY <1>2, <1>3
<1>9. CASE e.op = "receive"
  <2>1. ibFree' = ibFree /\ ibArmed' = ibArmed \cup {e} /\ ibCq' = ibCq /\ ibSq' = Tail(sq)
    BY <1>7, <1>9
  <2>2. IbQueueInv(groups, made, w, ibSq', ibCq', ibFree', ibArmed')
    BY <1>2, <1>3, <1>8, <1>9, <2>1 DEF IbQueueInv
  <2>3. \A g \in IbGroups \ tainted : IbGroupInv(g, groups, w, answered, ibSq', ibCq', ibFree'[g])
    BY <1>1, <1>2, <2>1, GroupShrink
  <2> QED  BY <1>1, <2>2, <2>3 DEF IbState
<1>10. CASE e.op # "receive"
  <2> DEFINE h == e.group
             new == ibFree'[h]
  <2>1. ibArmed' = ibArmed /\ ibCq' = Append(ibCq, c) /\ ibSq' = Tail(sq)
    BY <1>7, <1>10
  <2>2. e.id \in Nat \ {0}
    <3>1. e.id \in 1 .. made /\ made \in Nat
      BY <1>1, <1>5, <1>10 DEF IbKnown, IbPoolInv
    <3> QED  BY <3>1
  <2>3. /\ ibFree' \in [IbGroups -> Seq(IbBuf)]
        /\ \A g \in IbGroups : g # h => ibFree'[g] = ibFree[g]
        /\ e.op = "provide" => new = ibFree[h] \o BuffersOf(e.id)
        /\ e.op = "remove" => new = SubSeq(ibFree[h], IbBuffers + 1, Len(ibFree[h]))
        /\ e.op = "refused" => new = ibFree[h]
    <3>1. ibFree[h] \in Seq(IbBuf)
      BY <1>2, <1>4
    <3>2. CASE e.op = "provide"
      <4>1. ibFree[h] \o BuffersOf(e.id) \in Seq(IbBuf)
        BY <2>2, <3>1, BuffersOfOK, ConcatProperties
      <4> QED  BY <1>2, <1>4, <1>7, <3>2, <4>1
    <3>3. CASE e.op = "remove"
      <4>1. SubSeq(ibFree[h], IbBuffers + 1, Len(ibFree[h])) \in Seq(IbBuf)
        BY <3>1, IbAssumption
      <4> QED  BY <1>2, <1>4, <1>7, <3>3, <4>1
    <3>4. CASE e.op = "refused"
      BY <1>2, <1>4, <1>7, <3>4
    <3> QED  BY <1>4, <1>10, <3>2, <3>3, <3>4 DEF IbOps
  <2> HIDE DEF new
  <2>4. /\ Append(ibCq, c) \in Seq(IbCompletions) /\ Len(Append(ibCq, c)) = Len(ibCq) + 1
        /\ Append(ibCq, c)[Len(ibCq) + 1] = c
        /\ \A k \in 1 .. Len(ibCq) : Append(ibCq, c)[k] = ibCq[k]
        /\ \A k \in 1 .. Len(ibCq) + 1 : k \in 1 .. Len(ibCq) \/ k = Len(ibCq) + 1
    BY <1>2, <1>6, AppendOf
  <2>5. IbQueueInv(groups, made, w, ibSq', ibCq', ibFree', ibArmed')
    <3>1. \A k \in 1 .. Len(ibCq') : IbKnown(ibCq'[k].entry, groups, made, w)
      BY <1>2, <1>5, <1>6, <2>1, <2>4
    <3>2. \A k \in 1 .. Len(ibCq') : ibCq'[k].entry.op # "receive" => ibCq'[k].buffer = NoBuffer
      BY <1>2, <1>6, <2>1, <2>4
    <3> QED  BY <1>2, <1>3, <1>8, <2>1, <2>3, <2>4, <3>1, <3>2 DEF IbQueueInv
  <2>6. ASSUME NEW g \in IbGroups \ tainted, g # h
        PROVE  IbGroupInv(g, groups, w, answered, ibSq', ibCq', ibFree'[g])
    <3>1. IbGroupInv(g, groups, w, answered, Tail(sq), ibCq, ibFree[g])
      BY <1>1, <1>2, GroupShrink
    <3>2. ~Control(c.entry, g) /\ ~Buffered(c, g)
      BY <1>6, <2>6 DEF Control, Buffered
    <3>3. IbGroupInv(g, groups, w, answered, Tail(sq), Append(ibCq, c), ibFree[g])
      BY <1>2, <1>6, <3>1, <3>2, GroupCompleted
    <3> QED  BY <2>1, <2>3, <2>6, <3>3
  <2>7. ASSUME h \in IbGroups \ tainted
        PROVE  IbGroupInv(h, groups, w, answered, ibSq', ibCq', new)
    <3> DEFINE list == ibFree[h]
    <3>0. list \in Seq(IbBuf)
      BY <1>2, <1>4
    <3>1. IbGroupInv(h, groups, w, answered, sq, ibCq, list) /\ Control(sq[1], h)
      BY <1>1, <1>3, <1>10, <2>7 DEF Control
    <3>2. IbAwaited(e, w, answered)
      BY <1>3, <3>1 DEF IbGroupInv
    <3>3. Len(list) <= IbBuffers /\ \A i \in 1 .. Len(list) : list[i][1] = Current(h, groups, w)
      BY <3>1 DEF IbGroupInv
    <3> HIDE DEF list
    <3>4. Len(new) <= IbBuffers /\ (\A i \in 1 .. Len(new) : new[i][1] = Current(h, groups, w)) /\ (e.op = "remove" => new = << >>)
      <4>1. CASE e.op = "provide"
        <5>1. list = << >>
          BY <1>3, <3>1, <4>1 DEF IbGroupInv
        <5>2. /\ BuffersOf(e.id) \in Seq(IbBuf) /\ Len(BuffersOf(e.id)) = IbBuffers
              /\ \A i \in 1 .. IbBuffers : BuffersOf(e.id)[i][1] = e.id
          BY <2>2, BuffersOfOK
        <5>3. new = BuffersOf(e.id)
          <6>1. new = << >> \o BuffersOf(e.id)
            BY <2>3, <4>1, <5>1 DEF list
          <6> QED  BY <5>2, <6>1
        <5>4. Current(h, groups, w) = e.id
          <6>1. w.call = "new" /\ w.group = h /\ w.pool = e.id
            BY <3>2, <4>1 DEF IbAwaited
          <6>2. groups[h] = NoPool
            BY <1>1, <6>1 DEF IbPoolInv
          <6> QED  BY <6>1, <6>2 DEF Current
        <5>5. IbBuffers <= IbBuffers
          BY IbAssumption
        <5> HIDE DEF h
        <5> QED  BY <4>1, <5>2, <5>3, <5>4, <5>5
      <4>2. CASE e.op = "remove"
        <5>1. new = SubSeq(list, IbBuffers + 1, Len(list))
          BY <2>3, <4>2 DEF list
        <5>2. new = << >>
          BY <3>0, <3>3, <5>1, IbAssumption
        <5>3. Len(new) = 0
          BY <5>2
        <5> QED  BY <5>2, <5>3, IbAssumption
      <4>3. CASE e.op = "refused"
        BY <2>3, <3>3, <4>3 DEF list
      <4> QED  BY <1>4, <1>10, <4>1, <4>2, <4>3 DEF IbOps
    <3>5. IbGroupInv(h, groups, w, answered, Tail(sq), Append(ibCq, c), new)
      BY <1>2, <1>3, <1>6, <3>1, <3>4, GroupExecuted
    <3> QED  BY <2>1, <3>5
  <2>8. \A g \in IbGroups \ tainted : IbGroupInv(g, groups, w, answered, ibSq', ibCq', ibFree'[g])
    BY <2>6, <2>7 DEF new
  <2> QED  BY <1>1, <2>5, <2>8 DEF IbState
<1> QED  BY <1>9, <1>10

LEMMA IbSubmitOK ==
  ASSUME NEW groups, NEW memory, NEW made, NEW w, NEW answered, NEW tainted, NEW e \in IbEntries, NEW entered \in BOOLEAN,
         ibSq \in Seq(IbEntries),
         IbState(groups, memory, made, w, answered, tainted, Append(ibSq, e), ibCq, ibFree, ibArmed),
         IbSubmit(e, entered)
  PROVE  IbState(groups, memory, made, w, answered, tainted, ibSq', ibCq', ibFree', ibArmed')
<1>1. CASE entered
  <2>1. Append(ibSq, e) # << >>
    BY AppendOf
  <2>2. IbEnter(Append(ibSq, e))
    BY <1>1 DEF IbSubmit
  <2> QED  BY <2>1, <2>2, IbEnterOK
<1>2. CASE ~entered
  BY <1>2 DEF IbSubmit
<1> QED  BY <1>1, <1>2

\* The queue's part of the invariant with an entry more, and other pools.
LEMMA IbQueuePush ==
  ASSUME NEW groups, NEW made, NEW w, NEW new, NEW sum, NEW v,
         NEW e \in IbEntries, IbQueueInv(groups, made, w, ibSq, ibCq, ibFree, ibArmed),
         \A x \in IbEntries : IbKnown(x, groups, made, w) => IbKnown(x, new, sum, v), IbKnown(e, new, sum, v)
  PROVE  IbQueueInv(new, sum, v, ibSq, ibCq, ibFree, ibArmed) /\ IbQueueInv(new, sum, v, Append(ibSq, e), ibCq, ibFree, ibArmed)
<1> DEFINE q == Append(ibSq, e)
           L == Len(ibSq)
<1>1. /\ ibSq \in Seq(IbEntries) /\ ibCq \in Seq(IbCompletions)
      /\ ibFree \in [IbGroups -> Seq(IbBuf)]
      /\ ibArmed \subseteq IbEntries /\ \A x \in ibArmed : x.op = "receive"
      /\ \A i \in 1 .. Len(ibSq) : IbKnown(ibSq[i], groups, made, w)
      /\ \A k \in 1 .. Len(ibCq) : IbKnown(ibCq[k].entry, groups, made, w)
      /\ \A k \in 1 .. Len(ibCq) : ibCq[k].entry.op # "receive" => ibCq[k].buffer = NoBuffer
  BY DEF IbQueueInv
<1>2. \A i \in 1 .. L : ibSq[i] \in IbEntries
  BY <1>1
<1>3. \A k \in 1 .. Len(ibCq) : ibCq[k].entry \in IbEntries
  <2>1. \A k \in 1 .. Len(ibCq) : ibCq[k] \in IbCompletions
    BY <1>1
  <2> QED  BY <2>1 DEF IbCompletions
<1>4. /\ q \in Seq(IbEntries) /\ Len(q) = L + 1 /\ q[L + 1] = e
      /\ \A i \in 1 .. L : q[i] = ibSq[i]
      /\ \A i \in 1 .. L + 1 : i \in 1 .. L \/ i = L + 1
  BY <1>1, AppendOf
<1> HIDE DEF q
<1>5. /\ \A i \in 1 .. L : IbKnown(ibSq[i], new, sum, v)
      /\ \A k \in 1 .. Len(ibCq) : IbKnown(ibCq[k].entry, new, sum, v)
  BY <1>1, <1>2, <1>3
<1>6. \A i \in 1 .. Len(q) : IbKnown(q[i], new, sum, v)
  BY <1>4, <1>5
<1>7. IbQueueInv(new, sum, v, ibSq, ibCq, ibFree, ibArmed)
  BY <1>1, <1>5 DEF IbQueueInv
<1>8. IbQueueInv(new, sum, v, q, ibCq, ibFree, ibArmed)
  BY <1>1, <1>4, <1>5, <1>6 DEF IbQueueInv
<1> QED  BY <1>7, <1>8 DEF q

\* Buffers that belong to no pool: there are none.
LEMMA NoneOwned ==
  ASSUME NEW groups, NEW made, NEW w, NEW answered, NEW g \in IbGroups,
         IbQueueInv(groups, made, w, ibSq, ibCq, ibFree, ibArmed),
         IbGroupInv(g, groups, w, answered, ibSq, ibCq, ibFree[g]),
         Current(g, groups, w) = NoPool
  PROVE  ibFree[g] = << >> /\ \A k \in 1 .. Len(ibCq) : ~Buffered(ibCq[k], g)
<1>1. ibFree[g] \in Seq(IbBuf) /\ ibCq \in Seq(IbCompletions)
  BY DEF IbQueueInv
<1>2. \A b \in IbBuf : b[1] # NoPool
  BY DEF IbBuf, NoPool
<1>3. \A i \in 1 .. Len(ibFree[g]) : ibFree[g][i] \in IbBuf /\ ibFree[g][i][1] = NoPool
  BY <1>1 DEF IbGroupInv
<1>4. Len(ibFree[g]) = 0
  <2>1. Len(ibFree[g]) \in Nat
    BY <1>1
  <2>2. 1 \notin 1 .. Len(ibFree[g])
    BY <1>2, <1>3
  <2> QED  BY <2>1, <2>2
<1>5. ibFree[g] = << >>
  BY <1>1, <1>4
<1>6. ASSUME NEW k \in 1 .. Len(ibCq), Buffered(ibCq[k], g)
      PROVE  FALSE
  <2>1. ibCq[k] \in IbCompletions
    BY <1>1
  <2>2. ibCq[k].buffer \in IbBuf
    BY <1>6, <2>1 DEF IbCompletions, Buffered
  <2>3. ibCq[k].buffer[1] = NoPool
    BY <1>6 DEF IbGroupInv
  <2> QED  BY <1>2, <2>2, <2>3
<1> QED  BY <1>5, <1>6

\* A callback that runs was told of memory that stays while it runs.
LEMMA ToldSame ==
  ASSUME IbToldInv, ~ibInCallback, ibInCallback' = ibInCallback, ibTold' = ibTold
  PROVE  IbToldInv'
<1>1. ibTold' = NotTold
  BY DEF IbToldInv
<1>2. NotTold.handed = NoBuffer /\ NotTold.written = NoBuffer
  BY DEF NotTold
<1> QED  BY <1>1, <1>2, Zenon DEF IbToldInv

LEMMA BufferPoolNewOK ==
  ASSUME IbInv, NEW g \in IbGroups, NEW op \in {"provide", "refused"}, NEW entered \in BOOLEAN,
         BufferPoolNew(g, op, entered)
  PROVE  IbInv'
<1> DEFINE p == ibMade + 1
           e == IbEntry(op, p, g)
           G == ibGroups
           w == ibWait
           v == ibWait'
           T == ibTainted'
<1>1. /\ IbPoolInv(G, ibMemory, ibMade, w, ibTainted)
      /\ IbQueueInv(G, ibMade, w, ibSq, ibCq, ibFree, ibArmed)
      /\ \A h \in IbGroups \ ibTainted : IbGroupInv(h, G, w, ibAnswered, ibSq, ibCq, ibFree[h])
      /\ ibInCallback \in BOOLEAN /\ IbToldInv
  BY DEF IbInv, IbState
<1>2. /\ w = NoWait /\ ~ibInCallback /\ G[g] = NoPool
      /\ ibMade' = p /\ IbSubmit(e, entered)
      /\ entered => /\ ibMemory' = ibMemory \cup {p}
                    /\ v = [call |-> IF op = "refused" THEN "new refused" ELSE "new", pool |-> p, group |-> g]
                    /\ T = ibTainted
      /\ ~entered => T = ibTainted \cup {g} /\ ibMemory' = ibMemory /\ v = w
      /\ ibAnswered' = FALSE
      /\ ibGroups' = G /\ ibInCallback' = ibInCallback /\ ibTold' = ibTold
  BY DEF BufferPoolNew
<1>3. /\ ibMade \in Nat /\ G \in [IbGroups -> 0 .. ibMade]
      /\ \A h \in IbGroups : G[h] # NoPool => G[h] \in ibMemory
      /\ \A x, y \in IbGroups : G[x] = G[y] /\ G[x] # NoPool => x = y
  BY <1>1 DEF IbPoolInv
<1>4. p \in Nat \ {0} /\ ibMade < p /\ 0 .. ibMade \subseteq 0 .. p /\ 1 .. ibMade \subseteq 1 .. p /\ p \in 1 .. p /\ p \in 0 .. p
      /\ (\A x \in 0 .. ibMade : x # p) /\ \A x \in 1 .. ibMade : x # p
  BY <1>3
<1>5. w.call = "none" /\ w.pool = NoPool
  BY <1>2 DEF NoWait
<1>6. e \in IbEntries /\ e.op = op /\ e.id = p /\ e.group = g
  BY <1>4 DEF IbEntry, IbEntries, IbOps
<1> HIDE DEF p, e, w, v, T
<1>7. \A h \in IbGroups : G[h] # p /\ G[h] \in 0 .. ibMade
  BY <1>3, <1>4
<1>8. NoPool # p /\ NoPool = 0
  BY <1>4 DEF NoPool
<1>9. entered => /\ v.pool = p /\ v.group = g
                 /\ (op = "refused" => v.call = "new refused") /\ (op = "provide" => v.call = "new")
  <2> SUFFICES ASSUME entered
               PROVE  /\ v.pool = p /\ v.group = g
                      /\ (op = "refused" => v.call = "new refused") /\ (op = "provide" => v.call = "new")
    OBVIOUS
  <2> DEFINE name == IF op = "refused" THEN "new refused" ELSE "new"
  <2>1. v = [call |-> name, pool |-> p, group |-> g]
    BY <1>2
  <2>2. (op = "refused" => name = "new refused") /\ (op = "provide" => name = "new")
    OBVIOUS
  <2> HIDE DEF name
  <2>3. v.pool = p /\ v.group = g /\ v.call = name
    BY <2>1
  <2> QED  BY <2>2, <2>3
<1>10. IbPoolInv(G, ibMemory', p, v, T)
  <2>0. G \in [IbGroups -> 0 .. p]
    BY <1>3, <1>4
  <2>1. CASE entered
    <3>1. v.call \in IbCalls /\ v.call # "none" /\ v.call # "free failed" /\ v.call \notin {"free", "free failed"} /\ v.pool \in 0 .. p
          /\ v.pool # NoPool /\ v.group \in IbGroups
      BY <1>4, <1>8, <1>9, <2>1 DEF IbCalls
    <3>2. v.pool \in ibMemory' /\ G[v.group] = NoPool /\ \A h \in IbGroups : G[h] # v.pool
      BY <1>2, <1>7, <1>9, <2>1
    <3>3. \A h \in IbGroups : G[h] # NoPool => G[h] \in ibMemory'
      BY <1>2, <1>3, <2>1
    <3> QED  BY <1>3, <1>4, <2>0, <3>1, <3>2, <3>3 DEF IbPoolInv
  <2>2. CASE ~entered
    <3>1. v = w /\ ibMemory' = ibMemory
      BY <1>2, <2>2
    <3>2. w.call \in IbCalls /\ NoPool \in 0 .. p
      BY <1>4, <1>5, <1>8 DEF IbCalls
    <3> QED  BY <1>3, <1>4, <1>5, <2>0, <3>1, <3>2 DEF IbPoolInv
  <2> QED  BY <2>1, <2>2
<1>11. ASSUME NEW x \in IbEntries, IbKnown(x, G, ibMade, w)
       PROVE  IbKnown(x, G, p, v)
  <2> SUFFICES ASSUME x.op # "receive"
               PROVE  /\ x.id \in 1 .. p
                      /\ x.id = v.pool => x.group = v.group
                      /\ \A h \in IbGroups : G[h] = x.id => h = x.group
    BY DEF IbKnown
  <2>1. x.id \in 1 .. ibMade /\ \A h \in IbGroups : G[h] = x.id => h = x.group
    BY <1>11 DEF IbKnown
  <2>2. x.id \in 1 .. p /\ x.id # p /\ x.id # NoPool
    BY <1>3, <1>4, <1>8, <2>1
  <2>3. x.id # v.pool
    BY <1>2, <1>5, <1>9, <2>2
  <2> QED  BY <2>1, <2>2, <2>3
<1>12. IbKnown(e, G, p, v)
  <2>1. e.id = v.pool => e.group = v.group
    BY <1>2, <1>5, <1>6, <1>8, <1>9
  <2> QED  BY <1>4, <1>6, <1>7, <2>1 DEF IbKnown
<1>13. IbQueueInv(G, p, v, Append(ibSq, e), ibCq, ibFree, ibArmed)
  BY <1>1, <1>6, <1>11, <1>12, IbQueuePush
<1>14. ibSq \in Seq(IbEntries)
  BY <1>1 DEF IbQueueInv
<1>15. ASSUME NEW h \in IbGroups \ T
       PROVE  IbGroupInv(h, G, v, FALSE, Append(ibSq, e), ibCq, ibFree[h])
  <2>0. h \in IbGroups \ ibTainted /\ (~entered => h # g)
    BY <1>2
  <2>1. IbGroupInv(h, G, w, ibAnswered, ibSq, ibCq, ibFree[h])
    BY <1>1, <2>0
  <2>2. IbQuiet(h, ibSq, ibCq)
    BY <1>1, <1>5, <2>1, NothingAwaited
  <2>3. CASE h # g
    <3>1. Current(h, G, v) = Current(h, G, w)
      BY <1>2, <1>5, <1>9, <2>3 DEF Current
    <3>2. IbOwn(h, G, v, ibCq, ibFree[h])
      BY <2>1, <3>1 DEF IbOwn, IbGroupInv
    <3>3. IbGroupInv(h, G, v, FALSE, ibSq, ibCq, ibFree[h])
      BY <2>2, <3>2, GroupQuiet
    <3>4. ~Control(e, h)
      BY <1>6, <2>3 DEF Control
    <3> QED  BY <1>6, <1>14, <3>3, <3>4, GroupPush
  <2>4. CASE h = g
    <3>0. entered
      BY <2>0, <2>4
    <3>1. Current(h, G, w) = NoPool
      BY <1>2, <1>5, <2>4 DEF Current
    <3>2. ibFree[h] = << >> /\ \A k \in 1 .. Len(ibCq) : ~Buffered(ibCq[k], h)
      BY <1>1, <2>1, <3>1, NoneOwned
    <3>3. Len(ibFree[h]) = 0
      BY <3>2
    <3>4. IbOwn(h, G, v, ibCq, ibFree[h])
      <4>1. 0 <= IbBuffers /\ \A i \in 1 .. 0 : FALSE
        BY IbAssumption
      <4> QED  BY <3>2, <3>3, <4>1 DEF IbOwn
    <3>5. Control(e, h) /\ IbAwaited(e, v, FALSE)
      BY <1>6, <1>9, <2>4, <3>0 DEF Control, IbAwaited
    <3> QED  BY <1>6, <1>14, <2>2, <3>2, <3>4, <3>5, GroupPushOwn
  <2> QED  BY <2>3, <2>4
<1>16. IbState(G, ibMemory', p, v, FALSE, T, Append(ibSq, e), ibCq, ibFree, ibArmed)
  BY <1>10, <1>13, <1>15 DEF IbState
<1>17. IbState(G, ibMemory', p, v, FALSE, T, ibSq', ibCq', ibFree', ibArmed')
  BY <1>2, <1>6, <1>14, <1>16, IbSubmitOK, ZenonT(60)
<1>18. IbToldInv'
  BY <1>1, <1>2, ToldSame
<1> QED  BY <1>1, <1>2, <1>17, <1>18 DEF IbInv, v, T

LEMMA BufferPoolFreeOK ==
  ASSUME IbInv, NEW g \in IbGroups, NEW entered \in BOOLEAN, BufferPoolFree(g, entered)
  PROVE  IbInv'
<1> DEFINE G == ibGroups
           p == G[g]
           e == IbEntry("remove", p, g)
           w == ibWait
           v == ibWait'
           T == ibTainted'
<1>1. /\ IbPoolInv(G, ibMemory, ibMade, w, ibTainted)
      /\ IbQueueInv(G, ibMade, w, ibSq, ibCq, ibFree, ibArmed)
      /\ \A h \in IbGroups \ ibTainted : IbGroupInv(h, G, w, ibAnswered, ibSq, ibCq, ibFree[h])
      /\ ibInCallback \in BOOLEAN /\ IbToldInv
  BY DEF IbInv, IbState
<1>2. /\ w = NoWait /\ ~ibInCallback /\ p # NoPool
      /\ IbSubmit(e, entered) \/ (~entered /\ UNCHANGED <<ibSq, ibCq, ibFree, ibArmed>>)
      /\ v = [call |-> IF entered THEN "free" ELSE "free failed", pool |-> p, group |-> g]
      /\ T = IF entered THEN ibTainted ELSE ibTainted \cup {g}
      /\ ibAnswered' = FALSE
      /\ ibGroups' = G /\ ibMemory' = ibMemory /\ ibMade' = ibMade /\ ibInCallback' = ibInCallback /\ ibTold' = ibTold
  BY DEF BufferPoolFree, ibKernel
<1>3. /\ ibMade \in Nat /\ G \in [IbGroups -> 0 .. ibMade]
      /\ \A h \in IbGroups : G[h] # NoPool => G[h] \in ibMemory
      /\ \A x, y \in IbGroups : G[x] = G[y] /\ G[x] # NoPool => x = y
  BY <1>1 DEF IbPoolInv
<1>4. p \in 0 .. ibMade /\ p \in Nat /\ p \in 1 .. ibMade
  <2>1. p \in 0 .. ibMade /\ p # 0
    BY <1>2, <1>3 DEF NoPool
  <2> HIDE DEF p
  <2> QED  BY <1>3, <2>1
<1>5. w.call = "none" /\ w.pool = NoPool
  BY <1>2 DEF NoWait
<1>6. e \in IbEntries /\ e.op = "remove" /\ e.id = p /\ e.group = g
  BY <1>4 DEF IbEntry, IbEntries, IbOps
<1> HIDE DEF e, w, v, T
<1>9. v.pool = p /\ v.group = g /\ (entered => v.call = "free") /\ (~entered => v.call = "free failed")
  BY <1>2
<1>10. IbPoolInv(G, ibMemory, ibMade, v, T)
  <2>1. v.call \in IbCalls /\ v.call # "none" /\ v.call \notin {"new", "new refused"}
    BY <1>9 DEF IbCalls
  <2>2. v.call = "free failed" => v.group \in T
    BY <1>2, <1>9
  <2> QED  BY <1>2, <1>3, <1>4, <1>9, <2>1, <2>2 DEF IbPoolInv
<1>11. ASSUME NEW x \in IbEntries, IbKnown(x, G, ibMade, w)
       PROVE  IbKnown(x, G, ibMade, v)
  BY <1>9, <1>11 DEF IbKnown
<1>12. IbKnown(e, G, ibMade, v)
  BY <1>2, <1>3, <1>4, <1>6, <1>9 DEF IbKnown
<1>13. IbQueueInv(G, ibMade, v, Append(ibSq, e), ibCq, ibFree, ibArmed) /\ IbQueueInv(G, ibMade, v, ibSq, ibCq, ibFree, ibArmed)
  BY <1>1, <1>6, <1>11, <1>12, IbQueuePush
<1>14. ibSq \in Seq(IbEntries)
  BY <1>1 DEF IbQueueInv
<1>15. ASSUME NEW h \in IbGroups \ T
       PROVE  /\ IbGroupInv(h, G, v, FALSE, Append(ibSq, e), ibCq, ibFree[h])
              /\ h # g => IbGroupInv(h, G, v, FALSE, ibSq, ibCq, ibFree[h])
  <2>0. h \in IbGroups \ ibTainted /\ (~entered => h # g)
    BY <1>2
  <2>1. IbGroupInv(h, G, w, ibAnswered, ibSq, ibCq, ibFree[h])
    BY <1>1, <2>0
  <2>2. IbQuiet(h, ibSq, ibCq)
    BY <1>1, <1>5, <2>1, NothingAwaited
  <2>3. Current(h, G, v) = Current(h, G, w)
    BY <1>2, <1>5, <1>9 DEF Current
  <2>4. IbOwn(h, G, v, ibCq, ibFree[h])
    BY <2>1, <2>3 DEF IbOwn, IbGroupInv
  <2>5. CASE h # g
    <3>3. IbGroupInv(h, G, v, FALSE, ibSq, ibCq, ibFree[h])
      BY <2>2, <2>4, GroupQuiet
    <3>4. ~Control(e, h)
      BY <1>6, <2>5 DEF Control
    <3>5. IbGroupInv(h, G, v, FALSE, Append(ibSq, e), ibCq, ibFree[h])
      BY <1>6, <1>14, <3>3, <3>4, GroupPush
    <3> QED  BY <3>3, <3>5
  <2>6. CASE h = g
    <3>1. Control(e, h) /\ IbAwaited(e, v, FALSE)
      BY <1>6, <1>9, <2>0, <2>6 DEF Control, IbAwaited
    <3>2. IbGroupInv(h, G, v, FALSE, Append(ibSq, e), ibCq, ibFree[h])
      BY <1>6, <1>14, <2>2, <2>4, <3>1, GroupPushOwn
    <3> QED  BY <2>6, <3>2
  <2> QED  BY <2>5, <2>6
<1>17. IbState(G, ibMemory, ibMade, v, FALSE, T, ibSq', ibCq', ibFree', ibArmed')
  <2>1. CASE IbSubmit(e, entered)
    <3>1. IbState(G, ibMemory, ibMade, v, FALSE, T, Append(ibSq, e), ibCq, ibFree, ibArmed)
      BY <1>10, <1>13, <1>15 DEF IbState
    <3> QED  BY <1>6, <1>14, <2>1, <3>1, IbSubmitOK
  <2>2. CASE ~entered /\ UNCHANGED <<ibSq, ibCq, ibFree, ibArmed>>
    <3>1. g \in T
      BY <1>2, <2>2
    <3>2. IbState(G, ibMemory, ibMade, v, FALSE, T, ibSq, ibCq, ibFree, ibArmed)
      BY <1>10, <1>13, <1>15, <3>1 DEF IbState
    <3> QED  BY <2>2, <3>2
  <2> QED  BY <1>2, <2>1, <2>2
<1>18. IbToldInv'
  BY <1>1, <1>2, ToldSame
<1> QED  BY <1>1, <1>2, <1>17, <1>18 DEF IbInv, v, T

\* A call returns: nothing is waited for, and the pools change.
LEMMA IbReturns ==
  ASSUME IbInv, ~ibInCallback, ibInCallback' = ibInCallback, ibTold' = ibTold, ibAnswered' = ibAnswered,
         ibWait' = NoWait, ibMade' = ibMade, ibTainted' = ibTainted,
         ibSq' = ibSq, ibCq' = ibCq, ibFree' = ibFree, ibArmed' = ibArmed,
         IbPoolInv(ibGroups', ibMemory', ibMade, NoWait, ibTainted),
         \A x \in IbEntries : IbKnown(x, ibGroups, ibMade, ibWait) => IbKnown(x, ibGroups', ibMade, NoWait),
         \A h \in IbGroups \ ibTainted :
           IbQuiet(h, ibSq, ibCq) /\ (Current(h, ibGroups', NoWait) = Current(h, ibGroups, ibWait)
                                      \/ (ibFree[h] = << >> /\ \A k \in 1 .. Len(ibCq) : ~Buffered(ibCq[k], h)))
  PROVE  IbInv'
<1>1. /\ IbQueueInv(ibGroups, ibMade, ibWait, ibSq, ibCq, ibFree, ibArmed)
      /\ \A h \in IbGroups \ ibTainted : IbGroupInv(h, ibGroups, ibWait, ibAnswered, ibSq, ibCq, ibFree[h])
      /\ ibAnswered \in BOOLEAN /\ ibInCallback \in BOOLEAN /\ IbToldInv
  BY DEF IbInv, IbState
<1>2. NoWait.call = "none"
  BY DEF NoWait
<1>3. IbQueueInv(ibGroups', ibMade, NoWait, ibSq, ibCq, ibFree, ibArmed)
  <2>1. /\ ibSq \in Seq(IbEntries) /\ ibCq \in Seq(IbCompletions)
        /\ \A i \in 1 .. Len(ibSq) : IbKnown(ibSq[i], ibGroups, ibMade, ibWait)
        /\ \A k \in 1 .. Len(ibCq) : IbKnown(ibCq[k].entry, ibGroups, ibMade, ibWait)
    BY <1>1 DEF IbQueueInv
  <2>2. \A i \in 1 .. Len(ibSq) : ibSq[i] \in IbEntries
    BY <2>1
  <2>3. \A k \in 1 .. Len(ibCq) : ibCq[k].entry \in IbEntries
    <3>1. \A k \in 1 .. Len(ibCq) : ibCq[k] \in IbCompletions
      BY <2>1
    <3> QED  BY <3>1 DEF IbCompletions
  <2>4. /\ \A i \in 1 .. Len(ibSq) : IbKnown(ibSq[i], ibGroups', ibMade, NoWait)
        /\ \A k \in 1 .. Len(ibCq) : IbKnown(ibCq[k].entry, ibGroups', ibMade, NoWait)
    BY <2>1, <2>2, <2>3
  <2> QED  BY <1>1, <2>4 DEF IbQueueInv
<1>4. ASSUME NEW h \in IbGroups \ ibTainted
      PROVE  IbGroupInv(h, ibGroups', NoWait, ibAnswered, ibSq, ibCq, ibFree[h])
  <2>1. IbQuiet(h, ibSq, ibCq) /\ IbGroupInv(h, ibGroups, ibWait, ibAnswered, ibSq, ibCq, ibFree[h])
    BY <1>1, <1>4
  <2>2. IbOwn(h, ibGroups', NoWait, ibCq, ibFree[h])
    <3>1. CASE Current(h, ibGroups', NoWait) = Current(h, ibGroups, ibWait)
      BY <2>1, <3>1 DEF IbGroupInv, IbOwn
    <3>2. CASE ibFree[h] = << >> /\ \A k \in 1 .. Len(ibCq) : ~Buffered(ibCq[k], h)
      <4>1. Len(ibFree[h]) = 0 /\ (0 <= IbBuffers) /\ \A i \in 1 .. 0 : FALSE
        BY <3>2, IbAssumption
      <4> QED  BY <3>2, <4>1 DEF IbOwn
    <3> QED  BY <3>1, <3>2
  <2> QED  BY <1>2, <2>1, <2>2, GroupQuiet
<1>5. IbState(ibGroups', ibMemory', ibMade, NoWait, ibAnswered, ibTainted, ibSq, ibCq, ibFree, ibArmed)
  BY <1>3, <1>4 DEF IbState
<1>6. IbToldInv'
  BY <1>1, ToldSame
<1> QED  BY <1>1, <1>5, <1>6 DEF IbInv

LEMMA BufferPoolNewReturnsOK ==
  ASSUME IbInv, BufferPoolNewReturns
  PROVE  IbInv'
<1> DEFINE G == ibGroups
           w == ibWait
           H == ibGroups'
<1>1. /\ IbPoolInv(G, ibMemory, ibMade, w, ibTainted)
      /\ IbQueueInv(G, ibMade, w, ibSq, ibCq, ibFree, ibArmed)
      /\ \A h \in IbGroups \ ibTainted : IbGroupInv(h, G, w, ibAnswered, ibSq, ibCq, ibFree[h])
  BY DEF IbInv, IbState
<1>2. /\ ibAnswered /\ ~ibInCallback
      /\ \/ w.call = "new" /\ H = [G EXCEPT ![w.group] = w.pool] /\ ibMemory' = ibMemory
         \/ w.call = "new refused" /\ ibMemory' = ibMemory \ {w.pool} /\ H = G
      /\ ibWait' = NoWait
      /\ ibMade' = ibMade /\ ibAnswered' = ibAnswered /\ ibInCallback' = ibInCallback /\ ibTold' = ibTold /\ ibTainted' = ibTainted
      /\ ibSq' = ibSq /\ ibCq' = ibCq /\ ibFree' = ibFree /\ ibArmed' = ibArmed
  BY DEF BufferPoolNewReturns, ibKernel
<1>3. /\ ibMade \in Nat /\ G \in [IbGroups -> 0 .. ibMade]
      /\ \A h \in IbGroups : G[h] # NoPool => G[h] \in ibMemory
      /\ \A x, y \in IbGroups : G[x] = G[y] /\ G[x] # NoPool => x = y
      /\ w.pool \in 0 .. ibMade
      /\ w.call # "none" => w.pool # NoPool /\ w.group \in IbGroups
      /\ w.call \in {"new", "new refused"} =>
           w.pool \in ibMemory /\ G[w.group] = NoPool /\ \A g \in IbGroups : G[g] # w.pool
  BY <1>1 DEF IbPoolInv
<1>4. w.pool # NoPool /\ w.group \in IbGroups /\ w.pool \in ibMemory /\ G[w.group] = NoPool /\ \A g \in IbGroups : G[g] # w.pool
  BY <1>2, <1>3
<1>5. NoWait.call = "none" /\ NoWait.pool = NoPool /\ "none" \in IbCalls /\ NoPool \in 0 .. ibMade /\ NoPool = 0
  <2>1. NoWait.call = "none" /\ NoWait.pool = NoPool
    BY DEF NoWait
  <2>2. "none" \in IbCalls
    BY DEF IbCalls
  <2>3. NoPool = 0
    BY DEF NoPool
  <2>4. ibMade \in Nat
    BY <1>3
  <2>5. 0 \in 0 .. ibMade
    BY <2>4
  <2> QED  BY <2>1, <2>2, <2>3, <2>5
<1> HIDE DEF G, w, H
<1>6. /\ H \in [IbGroups -> 0 .. ibMade] 
      /\ \A h \in IbGroups : H[h] = G[h] \/ (w.call = "new" /\ h = w.group /\ H[h] = w.pool)
      /\ w.call = "new" => H[w.group] = w.pool
      /\ w.call # "new" => H = G
  <2>1. CASE w.call = "new" /\ H = [G EXCEPT ![w.group] = w.pool]
    BY <1>3, <1>4, <2>1
  <2>2. CASE w.call = "new refused" /\ H = G
    BY <1>3, <2>2
  <2> QED  BY <1>2, <2>1, <2>2
<1>7. IbPoolInv(H, ibMemory', ibMade, NoWait, ibTainted)
  <2>1. ASSUME NEW h \in IbGroups, H[h] # NoPool PROVE H[h] \in ibMemory'
    <3>1. \A g \in IbGroups : G[g] # NoPool => G[g] \in ibMemory
      BY <1>3
    <3>2. CASE w.call = "new" /\ ibMemory' = ibMemory
      BY <1>4, <1>6, <2>1, <3>1, <3>2
    <3>3. CASE ibMemory' = ibMemory \ {w.pool} /\ H = G
      BY <1>4, <2>1, <3>1, <3>3
    <3> QED  BY <1>2, <3>2, <3>3
  <2>2. \A x, y \in IbGroups : H[x] = H[y] /\ H[x] # NoPool => x = y
    BY <1>3, <1>4, <1>6
  <2> QED  BY <1>3, <1>5, <1>6, <2>1, <2>2 DEF IbPoolInv
<1>8. ASSUME NEW x \in IbEntries, IbKnown(x, G, ibMade, w)
      PROVE  IbKnown(x, H, ibMade, NoWait)
  <2> SUFFICES ASSUME x.op # "receive"
               PROVE  /\ x.id \in 1 .. ibMade
                      /\ x.id = NoWait.pool => x.group = NoWait.group
                      /\ \A h \in IbGroups : H[h] = x.id => h = x.group
    BY DEF IbKnown
  <2>1. x.id \in 1 .. ibMade /\ (x.id = w.pool => x.group = w.group) /\ \A h \in IbGroups : G[h] = x.id => h = x.group
    BY <1>8 DEF IbKnown
  <2>2. x.id # NoWait.pool
    <3>1. x.id \in 1 .. ibMade /\ ibMade \in Nat
      BY <1>3, <2>1
    <3>2. x.id # 0
      BY <3>1
    <3> QED  BY <1>5, <3>2
  <2>3. \A h \in IbGroups : H[h] = x.id => h = x.group
    BY <1>6, <2>1
  <2> QED  BY <2>1, <2>2, <2>3
<1>9. ASSUME NEW h \in IbGroups \ ibTainted
      PROVE  IbQuiet(h, ibSq, ibCq) /\ Current(h, H, NoWait) = Current(h, G, w)
  <2>1. IbQuiet(h, ibSq, ibCq)
    BY <1>1, <1>2, <1>9, NothingAwaited
  <2>2. Current(h, H, NoWait) = H[h]
    BY <1>5 DEF Current
  <2>3. CASE w.call = "new" /\ h = w.group
    <3>1. Current(h, G, w) = w.pool
      BY <1>4, <2>3 DEF Current
    <3> QED  BY <1>6, <2>1, <2>2, <2>3, <3>1
  <2>4. CASE ~(w.call = "new" /\ h = w.group)
    <3>1. Current(h, G, w) = G[h]
      BY <2>4 DEF Current
    <3>2. H[h] = G[h]
      BY <1>6, <2>4
    <3> QED  BY <2>1, <2>2, <3>1, <3>2
  <2> QED  BY <2>3, <2>4
<1> QED  BY <1>2, <1>7, <1>8, <1>9, IbReturns DEF G, w, H

LEMMA BufferPoolFreeReturnsOK ==
  ASSUME IbInv, BufferPoolFreeReturns
  PROVE  IbInv'
<1> DEFINE G == ibGroups
           w == ibWait
           H == ibGroups'
<1>1. /\ IbPoolInv(G, ibMemory, ibMade, w, ibTainted)
      /\ IbQueueInv(G, ibMade, w, ibSq, ibCq, ibFree, ibArmed)
      /\ \A h \in IbGroups \ ibTainted : IbGroupInv(h, G, w, ibAnswered, ibSq, ibCq, ibFree[h])
  BY DEF IbInv, IbState
<1>2. /\ ~ibInCallback
      /\ \/ w.call = "free" /\ ibAnswered
         \/ w.call = "free failed" /\ ibSq = << >> /\ ibCq = << >>
      /\ H = [G EXCEPT ![w.group] = NoPool] /\ ibMemory' = ibMemory \ {w.pool}
      /\ ibWait' = NoWait
      /\ ibMade' = ibMade /\ ibAnswered' = ibAnswered /\ ibInCallback' = ibInCallback /\ ibTold' = ibTold /\ ibTainted' = ibTainted
      /\ ibSq' = ibSq /\ ibCq' = ibCq /\ ibFree' = ibFree /\ ibArmed' = ibArmed
  BY DEF BufferPoolFreeReturns, ibKernel
<1>3. /\ ibMade \in Nat /\ G \in [IbGroups -> 0 .. ibMade]
      /\ \A h \in IbGroups : G[h] # NoPool => G[h] \in ibMemory
      /\ \A x, y \in IbGroups : G[x] = G[y] /\ G[x] # NoPool => x = y
      /\ w.pool \in 0 .. ibMade
      /\ w.call # "none" => w.pool # NoPool /\ w.group \in IbGroups
      /\ w.call \in {"free", "free failed"} => G[w.group] = w.pool
      /\ w.call = "free failed" => w.group \in ibTainted
  BY <1>1 DEF IbPoolInv
<1>4. w.pool # NoPool /\ w.group \in IbGroups /\ G[w.group] = w.pool
  BY <1>2, <1>3
<1>5. NoWait.call = "none" /\ NoWait.pool = NoPool /\ "none" \in IbCalls /\ NoPool \in 0 .. ibMade /\ NoPool = 0
  <2>1. NoWait.call = "none" /\ NoWait.pool = NoPool
    BY DEF NoWait
  <2>2. "none" \in IbCalls
    BY DEF IbCalls
  <2>3. NoPool = 0
    BY DEF NoPool
  <2>4. ibMade \in Nat
    BY <1>3
  <2>5. 0 \in 0 .. ibMade
    BY <2>4
  <2> QED  BY <2>1, <2>2, <2>3, <2>5
<1> HIDE DEF G, w, H
<1>6. /\ H \in [IbGroups -> 0 .. ibMade] /\ H[w.group] = NoPool
      /\ \A h \in IbGroups : h # w.group => H[h] = G[h]
  BY <1>2, <1>3, <1>4, <1>5
<1>7. IbPoolInv(H, ibMemory', ibMade, NoWait, ibTainted)
  <2>1. \A h \in IbGroups : H[h] # NoPool => H[h] \in ibMemory'
    BY <1>2, <1>3, <1>4, <1>6
  <2>2. \A x, y \in IbGroups : H[x] = H[y] /\ H[x] # NoPool => x = y
    BY <1>3, <1>4, <1>6, ZenonT(60)
  <2> QED  BY <1>3, <1>5, <1>6, <2>1, <2>2 DEF IbPoolInv
<1>8. ASSUME NEW x \in IbEntries, IbKnown(x, G, ibMade, w)
      PROVE  IbKnown(x, H, ibMade, NoWait)
  <2> SUFFICES ASSUME x.op # "receive"
               PROVE  /\ x.id \in 1 .. ibMade
                      /\ x.id = NoWait.pool => x.group = NoWait.group
                      /\ \A h \in IbGroups : H[h] = x.id => h = x.group
    BY DEF IbKnown
  <2>1. x.id \in 1 .. ibMade /\ \A h \in IbGroups : G[h] = x.id => h = x.group
    BY <1>8 DEF IbKnown
  <2>2. x.id # NoPool
    <3>1. x.id \in 1 .. ibMade /\ ibMade \in Nat
      BY <1>3, <2>1
    <3>2. x.id # 0
      BY <3>1
    <3> QED  BY <1>5, <3>2
  <2>3. \A h \in IbGroups : H[h] = x.id => h = x.group
    BY <1>6, <2>1, <2>2
  <2> QED  BY <1>5, <2>1, <2>2, <2>3
<1>9. ASSUME NEW h \in IbGroups \ ibTainted
      PROVE  IbQuiet(h, ibSq, ibCq) /\ (Current(h, H, NoWait) = Current(h, G, w)
                                      \/ (ibFree[h] = << >> /\ \A k \in 1 .. Len(ibCq) : ~Buffered(ibCq[k], h)))
  <2>0. IbGroupInv(h, G, w, ibAnswered, ibSq, ibCq, ibFree[h])
    BY <1>1, <1>9
  <2>1. IbQuiet(h, ibSq, ibCq)
    <3>1. CASE ibAnswered
      BY <1>1, <2>0, <3>1, NothingAwaited
    <3>2. CASE ibSq = << >> /\ ibCq = << >>
      <4>1. Len(ibSq) = 0 /\ Len(ibCq) = 0 /\ \A i \in 1 .. 0 : FALSE
        BY <3>2
      <4> QED  BY <4>1 DEF IbQuiet
    <3> QED  BY <1>2, <3>1, <3>2
  <2>2. Current(h, H, NoWait) = H[h]
    BY <1>5 DEF Current
  <2>3. CASE h = w.group
    <3>1. w.call = "free" /\ ibAnswered
      BY <1>2, <1>3, <1>9, <2>3
    <3> QED  BY <2>0, <2>1, <2>3, <3>1 DEF IbGroupInv
  <2>4. CASE h # w.group
    <3>1. Current(h, G, w) = G[h]
      BY <2>4 DEF Current
    <3>2. H[h] = G[h]
      BY <1>6, <2>4
    <3> QED  BY <2>1, <2>2, <3>1, <3>2
  <2> QED  BY <2>3, <2>4
<1> QED  BY <1>2, <1>7, <1>8, <1>9, IbReturns DEF G, w, H

LEMMA RecvPooledOK ==
  ASSUME IbInv, NEW g \in IbGroups, NEW entered \in BOOLEAN, ibReceives \in Nat, RecvPooled(g, entered)
  PROVE  IbInv'
<1> DEFINE e == IbEntry("receive", ibReceives', g)
<1>1. /\ IbPoolInv(ibGroups, ibMemory, ibMade, ibWait, ibTainted)
      /\ IbQueueInv(ibGroups, ibMade, ibWait, ibSq, ibCq, ibFree, ibArmed)
      /\ \A h \in IbGroups \ ibTainted : IbGroupInv(h, ibGroups, ibWait, ibAnswered, ibSq, ibCq, ibFree[h])
      /\ ibAnswered \in BOOLEAN /\ ibInCallback \in BOOLEAN /\ IbToldInv
  BY DEF IbInv, IbState
<1>2. /\ ibReceives' = ibReceives + 1 /\ IbSubmit(e, entered)
      /\ UNCHANGED <<ibGroups, ibMemory, ibMade, ibWait, ibAnswered, ibInCallback, ibTold, ibTainted>>
  BY DEF RecvPooled
<1>3. e \in IbEntries /\ e.op = "receive"
  <2>1. ibReceives' \in Nat
    BY <1>2
  <2> QED  BY <2>1 DEF IbEntry, IbEntries, IbOps
<1> HIDE DEF e
<1>4. IbKnown(e, ibGroups, ibMade, ibWait)
  BY <1>3 DEF IbKnown
<1>5. IbQueueInv(ibGroups, ibMade, ibWait, Append(ibSq, e), ibCq, ibFree, ibArmed) /\ ibSq \in Seq(IbEntries)
  <2>1. ibSq \in Seq(IbEntries)
    BY <1>1 DEF IbQueueInv
  <2> QED  BY <1>1, <1>3, <1>4, <2>1, IbQueuePush
<1>6. ASSUME NEW h \in IbGroups \ ibTainted
      PROVE  IbGroupInv(h, ibGroups, ibWait, ibAnswered, Append(ibSq, e), ibCq, ibFree[h])
  <2>1. ~Control(e, h)
    BY <1>3 DEF Control
  <2> QED  BY <1>1, <1>3, <1>5, <2>1, GroupPush
<1>7. IbState(ibGroups, ibMemory, ibMade, ibWait, ibAnswered, ibTainted, Append(ibSq, e), ibCq, ibFree, ibArmed)
  BY <1>1, <1>5, <1>6 DEF IbState
<1>8. IbState(ibGroups, ibMemory, ibMade, ibWait, ibAnswered, ibTainted, ibSq', ibCq', ibFree', ibArmed')
  BY <1>2, <1>3, <1>5, <1>7, IbSubmitOK
<1>9. IbToldInv'
  BY <1>1, <1>2, Zenon DEF IbToldInv
<1> QED  BY <1>1, <1>2, <1>8, <1>9 DEF IbInv

\* The kernel completes a receive: with a buffer of its group, or without.
LEMMA KernelReceivesOK ==
  ASSUME IbInv, NEW e \in ibArmed, KernelReceives(e)
  PROVE  IbInv'
<1> DEFINE list == ibFree[e.group]
           c == [entry |-> e, buffer |-> IF list = << >> THEN NoBuffer ELSE Head(list)]
<1>1. /\ IbPoolInv(ibGroups, ibMemory, ibMade, ibWait, ibTainted)
      /\ IbQueueInv(ibGroups, ibMade, ibWait, ibSq, ibCq, ibFree, ibArmed)
      /\ \A h \in IbGroups \ ibTainted : IbGroupInv(h, ibGroups, ibWait, ibAnswered, ibSq, ibCq, ibFree[h])
      /\ ibAnswered \in BOOLEAN /\ ibInCallback \in BOOLEAN /\ IbToldInv
  BY DEF IbInv, IbState
<1>2. /\ ibArmed' = ibArmed \ {e} /\ ibCq' = Append(ibCq, c)
      /\ ibFree' = IF list = << >> THEN ibFree ELSE [ibFree EXCEPT ![e.group] = Tail(@)]
      /\ UNCHANGED <<ibGroups, ibMemory, ibMade, ibWait, ibAnswered, ibInCallback, ibSq, ibTold, ibTainted>>
  BY DEF KernelReceives
<1>3. /\ ibSq \in Seq(IbEntries) /\ ibCq \in Seq(IbCompletions)
      /\ ibFree \in [IbGroups -> Seq(IbBuf)]
      /\ ibArmed \subseteq IbEntries /\ \A x \in ibArmed : x.op = "receive"
      /\ \A i \in 1 .. Len(ibSq) : IbKnown(ibSq[i], ibGroups, ibMade, ibWait)
      /\ \A k \in 1 .. Len(ibCq) : IbKnown(ibCq[k].entry, ibGroups, ibMade, ibWait)
      /\ \A k \in 1 .. Len(ibCq) : ibCq[k].entry.op # "receive" => ibCq[k].buffer = NoBuffer
  BY <1>1 DEF IbQueueInv
<1>4. e \in IbEntries /\ e.op = "receive"
  BY <1>3
<1>5. e.group \in IbGroups
  BY <1>4 DEF IbEntries
<1>6. list \in Seq(IbBuf)
  BY <1>3, <1>5
<1>7. /\ c.entry = e /\ (list = << >> => c.buffer = NoBuffer)
      /\ list # << >> => c.buffer = list[1] /\ list[1] \in IbBuf /\ Tail(list) \in Seq(IbBuf)
  BY <1>6, TailOf
<1>8. c \in IbCompletions
  <2>1. c.buffer \in IbBuf \cup {NoBuffer}
    BY <1>7
  <2> QED  BY <1>4, <2>1 DEF IbCompletions
<1> HIDE DEF c, list
<1>9. /\ ibFree' \in [IbGroups -> Seq(IbBuf)]
      /\ list = << >> => ibFree' = ibFree
      /\ list # << >> => ibFree'[e.group] = Tail(list)
      /\ \A h \in IbGroups : h # e.group => ibFree'[h] = ibFree[h]
  <2>1. CASE list = << >>
    BY <1>2, <1>3, <2>1
  <2>2. CASE list # << >>
    <3>1. ibFree' = [ibFree EXCEPT ![e.group] = Tail(list)]
      BY <1>2, <2>2 DEF list
    <3> QED  BY <1>3, <1>5, <1>7, <2>2, <3>1
  <2> QED  BY <2>1, <2>2
<1>10. IbQueueInv(ibGroups, ibMade, ibWait, ibSq, ibCq', ibFree', ibArmed')
  <2>1. /\ ibCq' \in Seq(IbCompletions) /\ Len(ibCq') = Len(ibCq) + 1 /\ ibCq'[Len(ibCq) + 1] = c
        /\ \A k \in 1 .. Len(ibCq) : ibCq'[k] = ibCq[k]
        /\ \A k \in 1 .. Len(ibCq) + 1 : k \in 1 .. Len(ibCq) \/ k = Len(ibCq) + 1
    BY <1>2, <1>3, <1>8, AppendOf
  <2>2. IbKnown(c.entry, ibGroups, ibMade, ibWait)
    BY <1>4, <1>7 DEF IbKnown
  <2>3. \A k \in 1 .. Len(ibCq') : IbKnown(ibCq'[k].entry, ibGroups, ibMade, ibWait)
    BY <1>3, <2>1, <2>2
  <2>4. \A k \in 1 .. Len(ibCq') : ibCq'[k].entry.op # "receive" => ibCq'[k].buffer = NoBuffer
    BY <1>3, <1>4, <1>7, <2>1
  <2>5. ibArmed' \subseteq IbEntries /\ \A x \in ibArmed' : x.op = "receive"
    BY <1>2, <1>3
  <2> QED  BY <1>3, <1>9, <2>1, <2>3, <2>4, <2>5 DEF IbQueueInv
<1>11. ASSUME NEW h \in IbGroups \ ibTainted
       PROVE  IbGroupInv(h, ibGroups, ibWait, ibAnswered, ibSq, ibCq', ibFree'[h])
  <2>1. IbGroupInv(h, ibGroups, ibWait, ibAnswered, ibSq, ibCq, ibFree[h])
    BY <1>1, <1>11
  <2>2. ~Control(c.entry, h)
    BY <1>4, <1>7 DEF Control
  <2>3. CASE h # e.group \/ list = << >>
    <3>1. ~Buffered(c, h) /\ ibFree'[h] = ibFree[h]
      BY <1>7, <1>9, <2>3 DEF Buffered
    <3>2. IbGroupInv(h, ibGroups, ibWait, ibAnswered, ibSq, Append(ibCq, c), ibFree[h])
      BY <1>3, <1>8, <2>1, <2>2, <3>1, GroupCompleted
    <3> QED  BY <1>2, <3>1, <3>2
  <2>4. CASE h = e.group /\ list # << >>
    <3>1. IbGroupInv(h, ibGroups, ibWait, ibAnswered, ibSq, ibCq, list)
      BY <2>1, <2>4 DEF list
    <3>2. IbGroupInv(h, ibGroups, ibWait, ibAnswered, ibSq, Append(ibCq, c), Tail(list))
      BY <1>3, <1>4, <1>6, <1>7, <1>8, <2>4, <3>1, GroupReceive
    <3> QED  BY <1>2, <1>9, <2>4, <3>2
  <2> QED  BY <2>3, <2>4
<1>12. IbState(ibGroups, ibMemory, ibMade, ibWait, ibAnswered, ibTainted, ibSq, ibCq', ibFree', ibArmed')
  BY <1>1, <1>10, <1>11 DEF IbState
<1>13. IbToldInv'
  BY <1>1, <1>2, Zenon DEF IbToldInv
<1> QED  BY <1>1, <1>2, <1>12, <1>13 DEF IbInv

LEMMA IbPollSubmitsOK ==
  ASSUME IbInv, IbPollSubmits
  PROVE  IbInv'
<1>1. /\ IbState(ibGroups, ibMemory, ibMade, ibWait, ibAnswered, ibTainted, ibSq, ibCq, ibFree, ibArmed)
      /\ ibAnswered \in BOOLEAN /\ ibInCallback \in BOOLEAN /\ IbToldInv
  BY DEF IbInv
<1>2. /\ ibSq # << >> /\ IbEnter(ibSq)
      /\ UNCHANGED <<ibGroups, ibMemory, ibMade, ibWait, ibAnswered, ibInCallback, ibTold, ibTainted>>
  BY DEF IbPollSubmits
<1>3. IbState(ibGroups, ibMemory, ibMade, ibWait, ibAnswered, ibTainted, ibSq', ibCq', ibFree', ibArmed')
  BY <1>1, <1>2, IbEnterOK
<1>4. IbToldInv'
  BY <1>1, <1>2, Zenon DEF IbToldInv
<1> QED  BY <1>1, <1>2, <1>3, <1>4 DEF IbInv

\* What a callback is told of a completion.
LEMMA ToldOfReceive ==
  ASSUME IbInv, ibCq # << >>, ibCq[1].entry.op = "receive", ibWait' = ibWait, ibMemory' = ibMemory, ibTainted' = ibTainted,
         ibInCallback', ibTold' = [group |-> ibCq[1].entry.group, handed |-> Address(ibCq[1].entry.group, ibCq[1].buffer),
                                   written |-> ibCq[1].buffer]
  PROVE  IbToldInv'
<1> DEFINE g == ibCq[1].entry.group
           b == ibCq[1].buffer
           a == Address(g, b)
<1>1. /\ IbPoolInv(ibGroups, ibMemory, ibMade, ibWait, ibTainted)
      /\ IbQueueInv(ibGroups, ibMade, ibWait, ibSq, ibCq, ibFree, ibArmed)
      /\ \A h \in IbGroups \ ibTainted : IbGroupInv(h, ibGroups, ibWait, ibAnswered, ibSq, ibCq, ibFree[h])
  BY DEF IbInv, IbState
<1>2. ibCq \in Seq(IbCompletions)
  BY <1>1 DEF IbQueueInv
<1>3. 1 \in 1 .. Len(ibCq) /\ ibCq[1] \in IbCompletions
  BY <1>2, TailOf
<1>4. ibCq[1].entry \in IbEntries /\ b \in IbBuf \cup {NoBuffer}
  BY <1>3 DEF IbCompletions
<1>5. g \in IbGroups
  BY <1>4 DEF IbEntries
<1>6. \A h \in IbGroups : ibGroups[h] # NoPool => ibGroups[h] \in ibMemory
  BY <1>1 DEF IbPoolInv
<1>7. ASSUME b # NoBuffer
      PROVE  b[1] # NoPool /\ b = <<b[1], b[2]>>
  <2>1. b \in IbBuf
    BY <1>4, <1>7
  <2> HIDE DEF b
  <2> QED  BY <2>1 DEF IbBuf, NoPool
<1>8. ASSUME b # NoBuffer, g \notin ibTainted
      PROVE  b[1] = Current(g, ibGroups, ibWait)
  <2>1. IbGroupInv(g, ibGroups, ibWait, ibAnswered, ibSq, ibCq, ibFree[g])
    BY <1>1, <1>5, <1>8
  <2>2. Buffered(ibCq[1], g)
    BY <1>8 DEF Buffered
  <2> QED  BY <1>3, <2>1, <2>2 DEF IbGroupInv
<1>9. ibTold'.group = g /\ ibTold'.handed = a /\ ibTold'.written = b
  OBVIOUS
<1>10. a = IF b = NoBuffer \/ ibGroups[g] = NoPool THEN NoBuffer ELSE <<ibGroups[g], b[2]>>
  BY DEF Address
<1>10a. NoBuffer[1] = NoPool
  BY DEF NoBuffer
<1> HIDE DEF a, b, g
<1>11. ASSUME a # NoBuffer
       PROVE  a[1] \in ibMemory /\ (g \notin ibTainted => a = b)
  <2>1. b # NoBuffer /\ ibGroups[g] # NoPool /\ a = <<ibGroups[g], b[2]>>
    BY <1>10, <1>11
  <2>2. a[1] \in ibMemory
    BY <1>5, <1>6, <2>1
  <2>3. ASSUME g \notin ibTainted PROVE a = b
    <3>1. b[1] = ibGroups[g]
      BY <1>8, <2>1, <2>3 DEF Current
    <3> QED  BY <1>7, <2>1, <3>1
  <2> QED  BY <2>2, <2>3
<1>12. ASSUME a = NoBuffer, b # NoBuffer, g \notin ibTainted
       PROVE  ibWait.call = "new" /\ b[1] = ibWait.pool
  <2>1. ibGroups[g] = NoPool
    <3>1. ASSUME ibGroups[g] # NoPool PROVE FALSE
      <4>1. a = <<ibGroups[g], b[2]>>
        BY <1>10, <1>12, <3>1
      <4>2. a[1] = ibGroups[g]
        BY <4>1
      <4> QED  BY <1>10a, <1>12, <3>1, <4>2
    <3> QED  BY <3>1
  <2>2. b[1] # NoPool /\ b[1] = Current(g, ibGroups, ibWait)
    BY <1>7, <1>8, <1>12
  <2> QED  BY <2>1, <2>2 DEF Current
<1> QED  BY <1>9, <1>11, <1>12, Zenon DEF IbToldInv

LEMMA IbPollCompletionOK ==
  ASSUME IbInv, IbPollCompletion
  PROVE  IbInv'
<1> DEFINE c == ibCq[1]
           e == c.entry
<1>1. /\ IbPoolInv(ibGroups, ibMemory, ibMade, ibWait, ibTainted)
      /\ IbQueueInv(ibGroups, ibMade, ibWait, ibSq, ibCq, ibFree, ibArmed)
      /\ \A h \in IbGroups \ ibTainted : IbGroupInv(h, ibGroups, ibWait, ibAnswered, ibSq, ibCq, ibFree[h])
      /\ ibAnswered \in BOOLEAN /\ ibInCallback \in BOOLEAN /\ IbToldInv
  BY DEF IbInv, IbState
<1>2. /\ ibSq \in Seq(IbEntries) /\ ibCq \in Seq(IbCompletions)
      /\ ibFree \in [IbGroups -> Seq(IbBuf)]
      /\ ibArmed \subseteq IbEntries /\ \A x \in ibArmed : x.op = "receive"
      /\ \A i \in 1 .. Len(ibSq) : IbKnown(ibSq[i], ibGroups, ibMade, ibWait)
      /\ \A k \in 1 .. Len(ibCq) : IbKnown(ibCq[k].entry, ibGroups, ibMade, ibWait)
      /\ \A k \in 1 .. Len(ibCq) : ibCq[k].entry.op # "receive" => ibCq[k].buffer = NoBuffer
  BY <1>1 DEF IbQueueInv
<1>3. ibCq # << >> /\ ~ibInCallback
  BY DEF IbPollCompletion
<1>4. /\ Tail(ibCq) \in Seq(IbCompletions) /\ Head(ibCq) = c /\ c \in IbCompletions /\ 1 \in 1 .. Len(ibCq)
      /\ \A i \in 1 .. Len(Tail(ibCq)) : Tail(ibCq)[i] = ibCq[i + 1] /\ i + 1 \in 1 .. Len(ibCq)
  BY <1>2, <1>3, TailOf
<1>5. /\ IF e.op = "receive"
         THEN /\ ibInCallback' = (e.id \in ibActive)
              /\ ibTold' = IF e.id \in ibActive
                           THEN [group |-> e.group, handed |-> Address(e.group, c.buffer), written |-> c.buffer]
                           ELSE ibTold
              /\ ibAnswered' = ibAnswered
         ELSE /\ ibAnswered' = (ibAnswered \/ (ibWait.call # "free failed" /\ ibWait.pool = e.id))
              /\ ibInCallback' = ibInCallback /\ ibTold' = ibTold
      /\ ibCq' = Tail(ibCq)
      /\ UNCHANGED <<ibGroups, ibMemory, ibMade, ibWait, ibSq, ibFree, ibArmed, ibTainted>>
  BY <1>4 DEF IbPollCompletion
<1>6. IbKnown(e, ibGroups, ibMade, ibWait)
  BY <1>2, <1>4
<1>7. e \in IbEntries
  BY <1>4 DEF IbCompletions
<1>8. e.op \in IbOps /\ e.group \in IbGroups
  BY <1>7 DEF IbEntries
<1> HIDE DEF c, e
<1>9. IbQueueInv(ibGroups, ibMade, ibWait, ibSq, Tail(ibCq), ibFree, ibArmed)
  <2>1. \A k \in 1 .. Len(Tail(ibCq)) : IbKnown(Tail(ibCq)[k].entry, ibGroups, ibMade, ibWait)
    BY <1>2, <1>4
  <2>2. \A k \in 1 .. Len(Tail(ibCq)) : Tail(ibCq)[k].entry.op # "receive" => Tail(ibCq)[k].buffer = NoBuffer
    BY <1>2, <1>4
  <2> QED  BY <1>2, <1>4, <2>1, <2>2 DEF IbQueueInv
<1>10. ibAnswered' \in BOOLEAN /\ ibInCallback' \in BOOLEAN
  <2>1. CASE e.op = "receive"
    <3>1. ibInCallback' = (e.id \in ibActive) /\ ibAnswered' = ibAnswered
      BY <1>5, <2>1
    <3>2. (e.id \in ibActive) \in BOOLEAN
      OBVIOUS
    <3> QED  BY <1>1, <3>1, <3>2
  <2>2. CASE e.op # "receive"
    BY <1>1, <1>5, <2>2, Zenon
  <2> QED  BY <2>1, <2>2
<1>11. ASSUME NEW h \in IbGroups \ ibTainted
       PROVE  IbGroupInv(h, ibGroups, ibWait, ibAnswered', ibSq, Tail(ibCq), ibFree[h])
  <2>1. IbGroupInv(h, ibGroups, ibWait, ibAnswered, ibSq, ibCq, ibFree[h])
    BY <1>1, <1>11
  <2>2. ASSUME Control(ibCq[1].entry, h)
        PROVE  ibAnswered'
    <3>1. IbAwaited(e, ibWait, ibAnswered) /\ e.op # "receive"
      BY <1>4, <2>1, <2>2 DEF IbGroupInv, Control, e, c
    <3>2. ibWait.pool = e.id
      BY <3>1 DEF IbAwaited
    <3>3. ibWait.call # "free failed"
      BY <1>8, <3>1 DEF IbAwaited, IbOps
    <3> QED  BY <1>5, <3>1, <3>2, <3>3
  <2>3. ASSUME ~Control(ibCq[1].entry, h)
        PROVE  (ibAnswered' <=> ibAnswered) \/ ibWait.group # h
    <3>1. CASE e.op = "receive"
      BY <1>5, <3>1
    <3>2. CASE e.op # "receive" /\ ibWait.pool = e.id
      <4>1. e.group = ibWait.group
        BY <1>6, <3>2 DEF IbKnown
      <4>2. e.group # h
        BY <2>3, <3>2 DEF Control, e, c
      <4> QED  BY <4>1, <4>2
    <3>3. CASE e.op # "receive" /\ ibWait.pool # e.id
      BY <1>5, <3>3
    <3> QED  BY <3>1, <3>2, <3>3
  <2> QED  BY <1>1, <1>2, <1>3, <1>10, <2>1, <2>2, <2>3, GroupTaken
<1>12. IbState(ibGroups, ibMemory, ibMade, ibWait, ibAnswered', ibTainted, ibSq, Tail(ibCq), ibFree, ibArmed)
  BY <1>1, <1>9, <1>11 DEF IbState
<1>13. IbToldInv'
  <2>1. CASE e.op = "receive" /\ e.id \in ibActive
    <3>1. ibInCallback' /\ ibTold' = [group |-> e.group, handed |-> Address(e.group, c.buffer), written |-> c.buffer]
      BY <1>5, <2>1
    <3>2. ibWait' = ibWait /\ ibMemory' = ibMemory /\ ibTainted' = ibTainted
      BY <1>5
    <3> QED  BY <1>3, <2>1, <3>1, <3>2, ToldOfReceive DEF e, c
  <2>2. CASE ~(e.op = "receive" /\ e.id \in ibActive)
    <3>1. ibTold' = ibTold
      BY <1>5, <2>2
    <3>2. ~ibInCallback'
      BY <1>3, <1>5, <2>2
    <3>3. ibInCallback' = ibInCallback
      BY <1>1, <1>3, <1>10, <3>2, Zenon
    <3> QED  BY <1>1, <1>3, <3>1, <3>3, ToldSame
  <2> QED  BY <2>1, <2>2
<1> QED  BY <1>5, <1>10, <1>12, <1>13 DEF IbInv

LEMMA IbCallbackReturnsOK ==
  ASSUME IbInv, IbCallbackReturns
  PROVE  IbInv'
<1>1. /\ IbState(ibGroups, ibMemory, ibMade, ibWait, ibAnswered, ibTainted, ibSq, ibCq, ibFree, ibArmed)
      /\ ibAnswered \in BOOLEAN
  BY DEF IbInv
<1>2. /\ ibInCallback' = FALSE /\ ibTold' = NotTold
      /\ UNCHANGED <<ibGroups, ibMemory, ibMade, ibWait, ibAnswered, ibSq, ibCq, ibFree, ibArmed, ibTainted>>
  BY DEF IbCallbackReturns, ibKernel
<1>3. NotTold.handed = NoBuffer /\ NotTold.written = NoBuffer
  BY DEF NotTold
<1>4. IbToldInv'
  BY <1>2, <1>3, Zenon DEF IbToldInv
<1> QED  BY <1>1, <1>2, <1>4 DEF IbInv

LEMMA IbInitOK ==
  ASSUME IbInit
  PROVE  IbInv /\ ibReceives \in Nat
<1>1. /\ ibGroups = [g \in IbGroups |-> NoPool]
      /\ ibMemory = {} /\ ibMade = 0 /\ ibReceives = 0
      /\ ibWait = NoWait /\ ibAnswered = FALSE /\ ibInCallback = FALSE
      /\ ibSq = << >> /\ ibCq = << >> /\ ibFree = [g \in IbGroups |-> << >>] /\ ibArmed = {}
      /\ ibTold = NotTold
  BY DEF IbInit
<1>2. NoWait.call = "none" /\ NoWait.pool = NoPool
  BY DEF NoWait
<1>3. "none" \in IbCalls
  BY DEF IbCalls
<1>4. NoPool = 0 /\ 0 \in 0 .. 0 /\ 0 \in Nat
  BY DEF NoPool
<1>5. IbPoolInv(ibGroups, ibMemory, ibMade, ibWait, ibTainted)
  <2>1. ibGroups \in [IbGroups -> 0 .. 0] /\ \A g \in IbGroups : ibGroups[g] = NoPool
    BY <1>1, <1>4
  <2> QED  BY <1>1, <1>2, <1>3, <1>4, <2>1 DEF IbPoolInv
<1>6. Len(<< >>) = 0 /\ \A i \in 1 .. 0 : FALSE
  OBVIOUS
<1>7. IbQueueInv(ibGroups, ibMade, ibWait, ibSq, ibCq, ibFree, ibArmed)
  <2>1. << >> \in Seq(IbEntries) /\ << >> \in Seq(IbCompletions) /\ << >> \in Seq(IbBuf)
    OBVIOUS
  <2>2. ibFree \in [IbGroups -> Seq(IbBuf)]
    BY <1>1, <2>1
  <2> QED  BY <1>1, <1>6, <2>1, <2>2 DEF IbQueueInv
<1>8. ASSUME NEW g \in IbGroups PROVE IbGroupInv(g, ibGroups, ibWait, ibAnswered, ibSq, ibCq, ibFree[g])
  <2>1. ibFree[g] = << >> /\ 0 <= IbBuffers
    BY <1>1, IbAssumption
  <2>2. IbQuiet(g, ibSq, ibCq)
    BY <1>1, <1>6 DEF IbQuiet
  <2>3. IbOwn(g, ibGroups, ibWait, ibCq, ibFree[g])
    BY <1>1, <1>6, <2>1 DEF IbOwn
  <2> QED  BY <1>1, <2>2, <2>3, GroupQuiet
<1>9. IbToldInv
  <2>1. NotTold.handed = NoBuffer /\ NotTold.written = NoBuffer
    BY DEF NotTold
  <2> QED  BY <1>1, <2>1, Zenon DEF IbToldInv
<1>10. IbState(ibGroups, ibMemory, ibMade, ibWait, ibAnswered, ibTainted, ibSq, ibCq, ibFree, ibArmed)
  BY <1>5, <1>7, <1>8 DEF IbState
<1>11. ibAnswered \in BOOLEAN /\ ibInCallback \in BOOLEAN
  BY <1>1
<1> QED  BY <1>1, <1>4, <1>9, <1>10, <1>11 DEF IbInv

\* The invariant is inductive.
LEMMA IbStep ==
  ASSUME IbInv, ibReceives \in Nat, [IbNext]_ibVars
  PROVE  IbInv' /\ ibReceives' \in Nat
<1>1. ASSUME NEW g \in IbGroups, NEW ok \in IbEntered, NEW op \in {"provide", "refused"}, BufferPoolNew(g, op, ok)
      PROVE  IbInv' /\ ibReceives' = ibReceives
  <2>1. ok \in BOOLEAN
    BY IbAssumption
  <2>2. ibReceives' = ibReceives
    BY <1>1 DEF BufferPoolNew
  <2> QED  BY <1>1, <2>1, <2>2, BufferPoolNewOK
<1>2. ASSUME NEW g \in IbGroups, NEW ok \in IbEntered, BufferPoolFree(g, ok)
      PROVE  IbInv' /\ ibReceives' = ibReceives
  <2>1. ok \in BOOLEAN
    BY IbAssumption
  <2>2. ibReceives' = ibReceives
    BY <1>2 DEF BufferPoolFree
  <2> QED  BY <1>2, <2>1, <2>2, BufferPoolFreeOK
<1>3. ASSUME NEW g \in IbGroups, NEW ok \in IbEntered, RecvPooled(g, ok)
      PROVE  IbInv' /\ ibReceives' \in Nat
  <2>1. ok \in BOOLEAN
    BY IbAssumption
  <2>2. ibReceives' = ibReceives + 1
    BY <1>3 DEF RecvPooled
  <2>3. ibReceives' \in Nat
    BY <2>2
  <2> QED  BY <1>3, <2>1, <2>3, RecvPooledOK
<1>4. ASSUME NEW e \in ibArmed, KernelReceives(e)
      PROVE  IbInv' /\ ibReceives' = ibReceives
  <2>1. ibReceives' = ibReceives
    BY <1>4 DEF KernelReceives
  <2> QED  BY <1>4, <2>1, KernelReceivesOK
<1>5. CASE BufferPoolNewReturns
  <2>1. ibReceives' = ibReceives
    BY <1>5 DEF BufferPoolNewReturns
  <2> QED  BY <1>5, <2>1, BufferPoolNewReturnsOK
<1>6. CASE BufferPoolFreeReturns
  <2>1. ibReceives' = ibReceives
    BY <1>6 DEF BufferPoolFreeReturns
  <2> QED  BY <1>6, <2>1, BufferPoolFreeReturnsOK
<1>7. CASE IbPollSubmits
  <2>1. ibReceives' = ibReceives
    BY <1>7 DEF IbPollSubmits
  <2> QED  BY <1>7, <2>1, IbPollSubmitsOK
<1>8. CASE IbPollCompletion
  <2>1. ibReceives' = ibReceives
    BY <1>8 DEF IbPollCompletion
  <2> QED  BY <1>8, <2>1, IbPollCompletionOK
<1>9. CASE IbCallbackReturns
  <2>1. ibReceives' = ibReceives
    BY <1>9 DEF IbCallbackReturns
  <2> QED  BY <1>9, <2>1, IbCallbackReturnsOK
<1>10. CASE UNCHANGED ibVars
  <2>1. ibReceives' = ibReceives
    BY <1>10 DEF ibVars
  <2>2. /\ IbState(ibGroups, ibMemory, ibMade, ibWait, ibAnswered, ibTainted, ibSq, ibCq, ibFree, ibArmed)
        /\ ibAnswered \in BOOLEAN /\ ibInCallback \in BOOLEAN /\ IbToldInv
    BY DEF IbInv
  <2>3. /\ ibGroups' = ibGroups /\ ibMemory' = ibMemory /\ ibMade' = ibMade /\ ibWait' = ibWait /\ ibAnswered' = ibAnswered
        /\ ibTainted' = ibTainted /\ ibSq' = ibSq /\ ibCq' = ibCq /\ ibFree' = ibFree /\ ibArmed' = ibArmed
        /\ ibInCallback' = ibInCallback /\ ibTold' = ibTold
    BY <1>10 DEF ibVars
  <2>4. IbToldInv'
    BY <2>2, <2>3, Zenon DEF IbToldInv
  <2> QED  BY <2>1, <2>2, <2>3, <2>4 DEF IbInv
<1> QED  BY <1>1, <1>2, <1>3, <1>4, <1>5, <1>6, <1>7, <1>8, <1>9, <1>10 DEF IbNext

LEMMA IbExact ==
  ASSUME IbInv
  PROVE  PooledExact
<1>1. /\ IbPoolInv(ibGroups, ibMemory, ibMade, ibWait, ibTainted)
      /\ IbQueueInv(ibGroups, ibMade, ibWait, ibSq, ibCq, ibFree, ibArmed)
      /\ \A h \in IbGroups \ ibTainted : IbGroupInv(h, ibGroups, ibWait, ibAnswered, ibSq, ibCq, ibFree[h])
      /\ IbToldInv
  BY DEF IbInv, IbState
<1>2. \A g \in IbGroups : ibGroups[g] # NoPool => ibGroups[g] \in ibMemory
  BY <1>1 DEF IbPoolInv
<1>3. ASSUME NEW g \in IbGroups \ ibTainted, NEW i \in DOMAIN ibFree[g]
      PROVE  ibFree[g][i][1] \in ibMemory
  <2>1. ibFree[g] \in Seq(IbBuf)
    BY <1>1 DEF IbQueueInv
  <2>2. i \in 1 .. Len(ibFree[g]) /\ ibFree[g][i] \in IbBuf
    BY <1>3, <2>1
  <2>3. ibFree[g][i][1] # NoPool
    BY <2>2 DEF IbBuf, NoPool
  <2>4. ibFree[g][i][1] = Current(g, ibGroups, ibWait)
    BY <1>1, <2>2 DEF IbGroupInv
  <2>5. CASE ibGroups[g] # NoPool
    BY <1>2, <2>4, <2>5 DEF Current
  <2>6. CASE ibGroups[g] = NoPool
    <3>1. ibWait.call = "new" /\ ibFree[g][i][1] = ibWait.pool
      BY <2>3, <2>4, <2>6 DEF Current
    <3>2. ibWait.pool \in ibMemory
      BY <1>1, <3>1 DEF IbPoolInv
    <3> QED  BY <3>1, <3>2
  <2> QED  BY <2>5, <2>6
<1>4. /\ ibTold.handed # NoBuffer =>
           /\ ibTold.handed[1] \in ibMemory
           /\ ibTold.group \notin ibTainted => ibTold.handed = ibTold.written
      /\ ibTold.handed = NoBuffer /\ ibTold.written # NoBuffer /\ ibTold.group \notin ibTainted =>
           ibWait.call = "new" /\ ibTold.written[1] = ibWait.pool
  BY <1>1 DEF IbToldInv
<1> QED  BY <1>2, <1>3, <1>4 DEF PooledExact

-----------------------------------------------------------------------------
\* No completion of an io_uring operation is lost, doubled or delivered to
\* another operation; a callback is given the memory that the kernel wrote to;
\* and what watches a registered descriptor survives failing submissions, unless
\* the submission queue is full when its completion is processed, and with
\* event ports and kqueue every report and change: for any number of slots,
\* entries, pools, buffers and descriptors (loopyAdapterIouring.c,
\* loopyAdapterSolaris.c, loopyAdapterBSD.c).
THEOREM AdaptersAreExact ==
  EvSpec /\ KqSpec /\ UpSpec /\ UoSpec /\ IbSpec => []AdaptersExact
<1> DEFINE IbAll == IbInv /\ ibReceives \in Nat
<1>1. EvInv /\ KqInv /\ UpInv /\ UoInv /\ IbAll => AdaptersExact
  BY UoExact, IbExact DEF AdaptersExact, EvInv, KqInv, UpInv
<1>2. IbInit => IbAll
  BY IbInitOK
<1>3. IbAll /\ [IbNext]_ibVars => IbAll'
  BY IbStep
<1>4. EvInv /\ [EvNext]_evVars => EvInv'
  BY EvStep
<1>5. KqInv /\ [KqNext]_kqVars => KqInv'
  BY KqStep
<1>6. UpInv /\ [UpNext]_upVars => UpInv'
  BY UpStep
<1> HIDE DEF IbAll
<1> QED
  BY <1>1, <1>2, <1>3, <1>4, <1>5, <1>6, EvInitOK, KqInitOK, UpInitOK, UoInitOK, UoStep, PTL
  DEF EvSpec, KqSpec, UpSpec, UoSpec, IbSpec
=============================================================================
