------------------------ MODULE LoopyChannelSPSCProofs ------------------------
(***************************************************************************)
(* Proofs about the lock-free ring for every capacity, every width of the  *)
(* counters and any number of elements.                                    *)
(*                                                                         *)
(* The inductive invariant reads the wrapping counters as remainders of    *)
(* numbers that do not wrap: `head` of the elements sent, `tail` of the    *)
(* elements received, and each thread's cached copy of the other's counter *)
(* of some earlier value.  All of these lie within Capacity, so the code's *)
(* differences modulo the number of slots are the true ones.               *)
(***************************************************************************)
EXTENDS LoopyChannelSPSC, LoopyLemmas

\* Elements taken out so far.
Taken == Len(received)

\* The counters, and the copies of them.
CounterInv ==
  /\ Taken <= sent /\ sent - Taken <= Capacity
  /\ head = sent % Wrap
  /\ tail = Taken % Wrap
  /\ \E c \in 0 .. Taken :
       /\ cachedTail = c % Wrap
       /\ sent - c <= Capacity
       /\ ppc \in {"copy", "publish"} => sent - c < Capacity
  /\ \E c \in Taken .. sent :
       /\ cachedHead = c % Wrap
       /\ cpc \in {"copy", "publish"} => Taken < c

\* Where the producer and the consumer are, there is room and there is an element.
PlaceInv ==
  /\ ppc # "idle" => sent < MaxSends
  /\ ppc \in {"copy", "publish"} => sent - Taken < Capacity
  /\ cpc \in {"copy", "publish"} => Taken < sent

\* The slots between tail and head hold the elements sent and not received,
\* and what was received is what was sent.
SlotInv ==
  /\ \A k \in Taken .. sent - 1 : buffer[k % Slots] = k + 1
  /\ ppc = "publish" => buffer[sent % Slots] = sent + 1
  /\ cpc = "publish" => buf = Taken + 1

SpscInv ==
  /\ SpscTypeOK
  /\ CounterInv
  /\ PlaceInv
  /\ SlotInv

-----------------------------------------------------------------------------
(* The counters                                                             *)

\* The assumptions about the sizes, and that the counters' range holds a whole round.
LEMMA Sizes ==
  /\ Capacity \in Nat \ {0} /\ MaxSends \in Nat
  /\ Slots \in Nat \ {0} /\ Capacity < Slots
  /\ Wrap \in Nat \ {0} /\ Wrap % Slots = 0 /\ Slots <= Wrap
  <1>1. /\ Capacity \in Nat \ {0} /\ MaxSends \in Nat
        /\ Slots \in Nat \ {0} /\ Capacity < Slots
        /\ Wrap \in Nat \ {0} /\ Wrap % Slots = 0
    BY CapacityAssumption, SlotsAssumption, WrapAssumption
  <1>2. ~ (Wrap < Slots)
    <2> SUFFICES ASSUME Wrap < Slots PROVE FALSE
      OBVIOUS
    <2> HIDE DEF Slots
    <2>1. Wrap \in 0 .. 2 * Slots - 1
      BY <1>1
    <2>2. Wrap % Slots = Wrap
      BY <1>1, <2>1, ModOnce
    <2> QED
      BY <1>1, <2>2
  <1> HIDE DEF Slots
  <1> QED
    BY <1>1, <1>2

HIDE DEF Slots

\* A counter is in range, and its slot is that of the number it stands for.
LEMMA CounterOf ==
  ASSUME NEW a \in Nat
  PROVE  /\ a % Wrap \in Counter
         /\ (a % Wrap) % Slots = a % Slots
         /\ ((a % Wrap) + 1) % Wrap = (a + 1) % Wrap
  <1> USE Sizes
  <1>a. a \in Int /\ 1 \in Int
    OBVIOUS
  <1>1. a % Wrap \in 0 .. Wrap - 1
    BY ModRange
  <1>2. (a % Wrap) % Slots = a % Slots
    BY <1>a, ModMod, Zenon
  <1>3. ((a % Wrap) + 1) % Wrap = (a + 1) % Wrap
    BY <1>a, ModPlusMod, Zenon
  <1> QED
    BY <1>1, <1>2, <1>3 DEF Counter

\* The difference of two counters no more than Capacity apart is the true one,
\* with and without the mask.
LEMMA SubOf ==
  ASSUME NEW a \in Nat, NEW b \in Nat, b <= a, a - b <= Capacity
  PROVE  /\ Sub(a % Wrap, b % Wrap) = a - b
         /\ Sub(a % Wrap, b % Wrap) % Slots = a - b
         /\ a % Wrap = b % Wrap <=> a = b
  <1> USE Sizes
  <1> DEFINE d == a - b
  <1>1. d \in 0 .. 2 * Slots - 1 /\ d < Slots /\ d \in 0 .. 2 * Wrap - 1 /\ d < Wrap /\ d \in Int
        /\ a \in Int /\ b \in Int
    OBVIOUS
  <1>2. ((a % Wrap) - (b % Wrap)) % Wrap = (a - b) % Wrap
    BY <1>1, ModMinusMod, Zenon
  <1>3. (a - b) % Wrap = d % Wrap
    OBVIOUS
  <1> HIDE DEF d
  <1>4. d % Wrap = d /\ d % Slots = d
    BY <1>1, ModOnce
  <1>5. Sub(a % Wrap, b % Wrap) = d
    BY <1>2, <1>3, <1>4 DEF Sub
  <1>6. a # b => a % Wrap # b % Wrap
    <2> SUFFICES ASSUME a # b PROVE b % Wrap # a % Wrap
      OBVIOUS
    <2>1. b < a /\ a - b < Wrap /\ a \in Int /\ b \in Int
      BY <1>1 DEF d
    <2> QED
      BY <2>1, ModDistinct
  <1> QED
    BY <1>4, <1>5, <1>6 DEF d

-----------------------------------------------------------------------------
(* Every step keeps the invariant                                           *)

\* The elements received and sent are numbers.
LEMMA TakenNat ==
  ASSUME SpscTypeOK
  PROVE  Taken \in Nat /\ sent \in Nat /\ sent <= MaxSends
  BY LenProperties, Sizes DEF SpscTypeOK, Taken

\* Types: the counters wrap within their width, a slot number is within the
\* buffer, and nothing beyond MaxSends is written.
LEMMA SpscTypeStep ==
  ASSUME SpscTypeOK, PlaceInv, [SpscNext]_spscVars
  PROVE  SpscTypeOK'
  <1> USE Sizes DEF SpscTypeOK
  <1>a. Taken \in Nat /\ sent \in Nat /\ head \in Int /\ tail \in Int /\ ohead \in Int
    BY TakenNat DEF Counter
  <1>b. \A x \in Int : x % Wrap \in Counter /\ x % Slots \in 0 .. Slots - 1
    BY ModRange DEF Counter
  <1>1. CASE SendCall
    BY <1>1 DEF SendCall, consVars, closeVars, lenVars
  <1>2. CASE TrySend
    BY <1>2 DEF TrySend, consVars, closeVars, lenVars
  <1>3. CASE SendFull
    BY <1>3 DEF SendFull, consVars, closeVars, lenVars
  <1>4. CASE CopyIn
    <2>1. sent + 1 \in 0 .. MaxSends
      BY <1>4, <1>a DEF CopyIn, PlaceInv
    <2>2. buffer' \in [0 .. Slots - 1 -> 0 .. MaxSends]
      BY <1>4, <2>1 DEF CopyIn
    <2> QED
      BY <1>4, <2>2 DEF CopyIn, consVars, closeVars, lenVars
  <1>5. CASE PublishWrite
    <2>1. sent' \in 0 .. MaxSends
      BY <1>5, <1>a DEF PublishWrite, PlaceInv
    <2>2. head' \in Counter
      <3>1. head + 1 \in Int
        BY <1>a
      <3> QED
        BY <1>5, <3>1, <1>b DEF PublishWrite
    <2> QED
      BY <1>5, <2>1, <2>2 DEF PublishWrite, consVars, closeVars, lenVars
  <1>6. CASE RecvCall
    BY <1>6 DEF RecvCall, prodVars, closeVars, lenVars
  <1>7. CASE TryRecv
    BY <1>7 DEF TryRecv, prodVars, closeVars, lenVars
  <1>8. CASE RecvEmpty
    BY <1>8 DEF RecvEmpty, prodVars, closeVars, lenVars
  <1>9. CASE CopyOut
    <2>1. buf' \in 0 .. MaxSends
      BY <1>9, <1>a, <1>b DEF CopyOut
    <2> QED
      BY <1>9, <2>1 DEF CopyOut, prodVars, closeVars, lenVars
  <1>10. CASE PublishRead
    <2>1. tail' \in Counter
      <3>1. tail + 1 \in Int
        BY <1>a
      <3> QED
        BY <1>10, <3>1, <1>b DEF PublishRead
    <2>2. received' \in Seq(0 .. MaxSends)
      BY <1>10, AppendProperties DEF PublishRead
    <2> QED
      BY <1>10, <2>1, <2>2 DEF PublishRead, prodVars, closeVars, lenVars
  <1>11. CASE Close
    BY <1>11 DEF Close, prodVars, consVars, lenVars
  <1>12. CASE LenHead
    BY <1>12 DEF LenHead, prodVars, consVars, closeVars
  <1>13. CASE LenTail
    <2>1. ohead - tail \in Int
      BY <1>a
    <2>2. olen' \in Counter
      BY <1>13, <1>b, <2>1 DEF LenTail, Sub
    <2>3. 0 \in Counter
      BY DEF Counter
    <2> QED
      BY <1>13, <2>2, <2>3 DEF LenTail, prodVars, consVars, closeVars
  <1>14. CASE UNCHANGED spscVars
    BY <1>14 DEF spscVars, prodVars, consVars, closeVars, lenVars
  <1> QED
    BY <1>1, <1>2, <1>3, <1>4, <1>5, <1>6, <1>7, <1>8, <1>9, <1>10, <1>11, <1>12, <1>13, <1>14
       DEF SpscNext, ProducerStep, ConsumerStep

\* The counters stay within Capacity of each other, and so do the copies.
\* The producer's test, on an old copy of tail or on tail itself, shows that
\* there is room; the consumer's that there is an element.
LEMMA CounterStep ==
  ASSUME SpscTypeOK, CounterInv, PlaceInv, [SpscNext]_spscVars
  PROVE  CounterInv' /\ PlaceInv'
  <1> USE Sizes
  <1>a. Taken \in Nat /\ sent \in Nat
    BY TakenNat
  <1>b. PICK c \in 0 .. Taken : /\ cachedTail = c % Wrap
                                /\ sent - c <= Capacity
                                /\ ppc \in {"copy", "publish"} => sent - c < Capacity
    BY DEF CounterInv
  <1>c. PICK h \in Taken .. sent : /\ cachedHead = h % Wrap
                                   /\ cpc \in {"copy", "publish"} => Taken < h
    BY DEF CounterInv
  <1>d. /\ Taken <= sent /\ sent - Taken <= Capacity
        /\ head = sent % Wrap /\ tail = Taken % Wrap
    BY DEF CounterInv
  <1>e. /\ c \in Nat /\ c <= Taken /\ c <= sent
        /\ h \in Nat /\ Taken <= h /\ h <= sent /\ h - Taken <= Capacity
    BY <1>a, <1>d
  <1>1. CASE SendCall
    <2>1. sent' = sent /\ received' = received /\ head' = head /\ tail' = tail
          /\ cachedTail' = cachedTail /\ cachedHead' = cachedHead /\ cpc' = cpc
      BY <1>1 DEF SendCall, consVars
    <2> QED
      BY <1>1, <2>1 DEF SendCall, CounterInv, PlaceInv, Taken
  <1>2. CASE TrySend
    <2>1. sent' = sent /\ received' = received /\ head' = head /\ tail' = tail
          /\ cachedHead' = cachedHead /\ cpc' = cpc /\ Taken' = Taken
      BY <1>2 DEF TrySend, consVars, Taken
    <2>2. Sub(head, cachedTail) % Slots = sent - c
      BY <1>a, <1>b, <1>d, <1>e, SubOf
    <2>3. Sub(head, tail) % Slots = sent - Taken
      BY <1>a, <1>d, SubOf
    <2>4. ppc' \in {"copy", "full"} /\ (ppc' = "copy" => sent - Taken < Capacity)
      <3>1. CASE sent - c < Capacity
        BY <1>2, <2>2, <3>1, <1>a, <1>b DEF TrySend
      <3>2. CASE ~ (sent - c < Capacity)
        BY <1>2, <2>2, <2>3, <3>2 DEF TrySend
      <3> QED
        BY <3>1, <3>2
    <2>6. \E k \in 0 .. Taken : /\ cachedTail' = k % Wrap
                                /\ sent - k <= Capacity
                                /\ ppc' \in {"copy", "publish"} => sent - k < Capacity
      <3>1. CASE sent - c < Capacity
        BY <1>2, <2>2, <3>1, <1>b DEF TrySend
      <3>2. CASE ~ (sent - c < Capacity)
        <4>1. Taken \in 0 .. Taken
          BY <1>a
        <4>2. cachedTail' = Taken % Wrap
          BY <1>2, <2>2, <3>2, <1>d DEF TrySend
        <4> QED
          BY <2>4, <4>1, <4>2, <1>d
      <3> QED
        BY <3>1, <3>2
    <2>7. CounterInv'
      BY <2>1, <2>6 DEF CounterInv
    <2> QED
      BY <1>2, <2>1, <2>4, <2>7 DEF PlaceInv, TrySend
  <1>3. CASE SendFull \/ CopyIn
    <2>1. sent' = sent /\ received' = received /\ head' = head /\ tail' = tail
          /\ cachedTail' = cachedTail /\ cachedHead' = cachedHead /\ cpc' = cpc
      BY <1>3 DEF SendFull, CopyIn, consVars
    <2>2. ppc' \in {"idle", "try"} \/ (ppc = "copy" /\ ppc' = "publish")
      BY <1>3 DEF SendFull, CopyIn
    <2>3. ppc # "idle"
      BY <1>3 DEF SendFull, CopyIn
    <2> QED
      BY <2>1, <2>2, <2>3 DEF CounterInv, PlaceInv, Taken
  <1>4. CASE PublishWrite
    <2>1. sent' = sent + 1 /\ received' = received /\ tail' = tail /\ Taken' = Taken
          /\ cachedTail' = cachedTail /\ cachedHead' = cachedHead /\ cpc' = cpc
          /\ ppc = "publish" /\ ppc' = "idle"
      BY <1>4 DEF PublishWrite, consVars, Taken
    <2>2. head' = (sent + 1) % Wrap
      BY <1>4, <1>a, <1>d, CounterOf DEF PublishWrite
    <2>3. Taken <= sent + 1 /\ sent + 1 - Taken <= Capacity
      BY <2>1, <1>a, <1>d DEF PlaceInv
    <2>4. c \in 0 .. Taken /\ cachedTail' = c % Wrap /\ (sent + 1) - c <= Capacity
      BY <2>1, <1>a, <1>b, <1>d
    <2>5. h \in Taken .. (sent + 1) /\ cachedHead' = h % Wrap
      BY <2>1, <1>a, <1>c, <1>d
    <2>6. \E k \in 0 .. Taken' : /\ cachedTail' = k % Wrap
                                 /\ sent' - k <= Capacity
                                 /\ ppc' \in {"copy", "publish"} => sent' - k < Capacity
      BY <2>1, <2>4
    <2>7. \E k \in Taken' .. sent' : /\ cachedHead' = k % Wrap
                                     /\ cpc' \in {"copy", "publish"} => Taken' < k
      BY <2>1, <2>5, <1>c
    <2>a. /\ Taken' <= sent' /\ sent' - Taken' <= Capacity
          /\ head' = sent' % Wrap /\ tail' = Taken' % Wrap
      <3>1. tail' = Taken' % Wrap
        BY <2>1, <1>d
      <3>2. head' = sent' % Wrap
        BY <2>1, <2>2
      <3> QED
        BY <1>a, <2>1, <2>3, <3>1, <3>2
    <2>8. CounterInv'
      BY <2>6, <2>7, <2>a DEF CounterInv
    <2> QED
      BY <2>1, <2>8, <1>a DEF PlaceInv
  <1>5. CASE RecvCall
    <2>1. sent' = sent /\ received' = received /\ head' = head /\ tail' = tail
          /\ cachedTail' = cachedTail /\ cachedHead' = cachedHead /\ ppc' = ppc /\ cpc' = "try"
      BY <1>5 DEF RecvCall, prodVars
    <2> QED
      BY <2>1 DEF CounterInv, PlaceInv, Taken
  <1>6. CASE TryRecv
    <2>1. sent' = sent /\ Taken' = Taken /\ head' = head /\ tail' = tail
          /\ cachedTail' = cachedTail /\ ppc' = ppc
      BY <1>6 DEF TryRecv, prodVars, Taken
    <2>2. cpc' \in {"copy", "empty"}
      BY <1>6 DEF TryRecv
    <2>3. \E k \in Taken .. sent : cachedHead' = k % Wrap /\ (cpc' = "copy" => Taken < k)
      <3>1. CASE tail # cachedHead
        <4>1. h # Taken
          BY <3>1, <1>c, <1>d
        <4>2. Taken < h
          BY <4>1, <1>a, <1>e
        <4> QED
          BY <1>6, <3>1, <4>2, <1>c DEF TryRecv
      <3>2. CASE tail = cachedHead
        <4>1. sent \in Taken .. sent
          BY <1>a, <1>d
        <4>2. tail # head => Taken < sent
          BY <1>a, <1>d
        <4>3. cachedHead' = head /\ (cpc' = "copy" => tail # head)
          BY <1>6, <3>2 DEF TryRecv
        <4> QED
          BY <4>1, <4>2, <4>3, <1>d
      <3> QED
        BY <3>1, <3>2
    <2>4. cpc' = "copy" => Taken < sent
      BY <2>3, <1>a
    <2> QED
      BY <2>1, <2>2, <2>3, <2>4 DEF CounterInv, PlaceInv
  <1>7. CASE RecvEmpty \/ CopyOut
    <2>1. sent' = sent /\ received' = received /\ head' = head /\ tail' = tail
          /\ cachedTail' = cachedTail /\ cachedHead' = cachedHead /\ ppc' = ppc
      BY <1>7 DEF RecvEmpty, CopyOut, prodVars
    <2>2. cpc' \in {"idle", "try"} \/ (cpc = "copy" /\ cpc' = "publish")
      BY <1>7 DEF RecvEmpty, CopyOut
    <2> QED
      BY <2>1, <2>2 DEF CounterInv, PlaceInv, Taken
  <1>8. CASE PublishRead
    <2>1. sent' = sent /\ head' = head /\ cachedTail' = cachedTail /\ cachedHead' = cachedHead
          /\ ppc' = ppc /\ cpc = "publish" /\ cpc' = "idle"
      BY <1>8 DEF PublishRead, prodVars
    <2>2. Taken' = Taken + 1
      BY <1>8, AppendProperties DEF PublishRead, Taken, SpscTypeOK
    <2>3. tail' = (Taken + 1) % Wrap
      BY <1>8, <1>a, <1>d, CounterOf DEF PublishRead
    <2>4. Taken < sent
      BY <2>1 DEF PlaceInv
    <2>5. c \in 0 .. Taken + 1
      BY <1>a, <1>e
    <2>6. h \in (Taken + 1) .. sent
      BY <2>1, <1>a, <1>c, <1>e
    <2>7. Taken + 1 <= sent /\ sent - (Taken + 1) <= Capacity
      BY <2>4, <1>a, <1>d
    <2>8. CounterInv'
      BY <2>1, <2>2, <2>3, <2>5, <2>6, <2>7, <1>b, <1>c, <1>d DEF CounterInv
    <2>9. sent - Taken < Capacity => sent - (Taken + 1) < Capacity
      BY <1>a
    <2> QED
      BY <2>1, <2>2, <2>8, <2>9 DEF PlaceInv
  <1>9. CASE UNCHANGED <<prodVars, consVars>>
    BY <1>9 DEF prodVars, consVars, CounterInv, PlaceInv, Taken
  <1> QED
    BY <1>1, <1>2, <1>3, <1>4, <1>5, <1>6, <1>7, <1>8, <1>9
       DEF SpscNext, ProducerStep, ConsumerStep, Close, LenHead, LenTail, spscVars


\* The slot that is written lies outside those that hold elements.
LEMMA SlotStep ==
  ASSUME SpscTypeOK, CounterInv, PlaceInv, SlotInv, [SpscNext]_spscVars
  PROVE  SlotInv'
  <1> USE Sizes
  <1>a. Taken \in Nat /\ sent \in Nat /\ Taken <= sent /\ sent - Taken <= Capacity
    BY TakenNat DEF CounterInv
  <1>b. head % Slots = sent % Slots /\ tail % Slots = Taken % Slots
    BY <1>a, CounterOf DEF CounterInv
  <1>c. \A k \in Nat : k % Slots \in 0 .. Slots - 1
    BY ModRange
  <1>1. CASE SendCall \/ TrySend \/ SendFull
    <2>1. sent' = sent /\ Taken' = Taken /\ buffer' = buffer /\ buf' = buf /\ cpc' = cpc
          /\ ppc' # "publish"
      BY <1>1 DEF SendCall, TrySend, SendFull, consVars, Taken
    <2> QED
      BY <2>1 DEF SlotInv
  <1>2. CASE CopyIn
    <2>1. sent' = sent /\ Taken' = Taken /\ buf' = buf /\ cpc' = cpc
          /\ buffer' = [buffer EXCEPT ![sent % Slots] = sent + 1]
          /\ sent - Taken < Capacity
      BY <1>2, <1>b DEF CopyIn, consVars, Taken, PlaceInv
    <2>2. ASSUME NEW k \in Taken .. sent - 1
          PROVE  buffer'[k % Slots] = k + 1
      <3>1. k \in Int /\ sent \in Int /\ k < sent /\ sent - k < Slots
        BY <1>a
      <3>2. k % Slots # sent % Slots
        BY <3>1, ModDistinct
      <3>3. k % Slots \in 0 .. Slots - 1
        BY <1>a, <1>c
      <3>4. buffer'[k % Slots] = buffer[k % Slots]
        BY <2>1, <3>2, <3>3 DEF SpscTypeOK
      <3> QED
        BY <3>4 DEF SlotInv
    <2>3. buffer'[sent % Slots] = sent + 1
      BY <2>1, <1>a, <1>c DEF SpscTypeOK
    <2> QED
      BY <2>1, <2>2, <2>3 DEF SlotInv
  <1>3. CASE PublishWrite
    <2>1. sent' = sent + 1 /\ Taken' = Taken /\ buf' = buf /\ cpc' = cpc /\ buffer' = buffer
          /\ ppc = "publish" /\ ppc' = "idle"
      BY <1>3 DEF PublishWrite, consVars, Taken
    <2>2. ASSUME NEW k \in Taken .. (sent + 1) - 1
          PROVE  buffer[k % Slots] = k + 1
      <3>1. k = sent \/ k \in Taken .. sent - 1
        BY <1>a
      <3> QED
        BY <2>1, <3>1 DEF SlotInv
    <2> QED
      BY <2>1, <2>2 DEF SlotInv
  <1>4. CASE RecvCall \/ TryRecv \/ RecvEmpty
    <2>1. sent' = sent /\ Taken' = Taken /\ buffer' = buffer /\ ppc' = ppc /\ cpc' # "publish"
      BY <1>4 DEF RecvCall, TryRecv, RecvEmpty, prodVars, Taken
    <2> QED
      BY <2>1 DEF SlotInv
  <1>5. CASE CopyOut
    <2>1. sent' = sent /\ Taken' = Taken /\ buffer' = buffer /\ ppc' = ppc
          /\ buf' = buffer[Taken % Slots] /\ Taken < sent
      BY <1>5, <1>b DEF CopyOut, prodVars, Taken, PlaceInv
    <2>2. Taken \in Taken .. sent - 1
      BY <2>1, <1>a
    <2> QED
      BY <2>1, <2>2 DEF SlotInv
  <1>6. CASE PublishRead
    <2>1. sent' = sent /\ buffer' = buffer /\ ppc' = ppc /\ cpc' = "idle"
      BY <1>6 DEF PublishRead, prodVars
    <2>2. Taken' = Taken + 1
      BY <1>6, AppendProperties DEF PublishRead, Taken, SpscTypeOK
    <2>3. \A k \in (Taken + 1) .. sent - 1 : k \in Taken .. sent - 1
      BY <1>a
    <2> QED
      BY <2>1, <2>2, <2>3 DEF SlotInv
  <1>7. CASE UNCHANGED <<prodVars, consVars>>
    BY <1>7 DEF prodVars, consVars, SlotInv, Taken
  <1> QED
    BY <1>1, <1>2, <1>3, <1>4, <1>5, <1>6, <1>7
       DEF SpscNext, ProducerStep, ConsumerStep, Close, LenHead, LenTail, spscVars

\* The invariant holds at first and is kept.
LEMMA SpscInvInit == SpscInit => SpscInv
  <1> SUFFICES ASSUME SpscInit PROVE SpscInv
    OBVIOUS
  <1> USE Sizes DEF SpscInit
  <1>1. received \in Seq(0 .. MaxSends) /\ Taken = 0
    BY EmptySeq DEF Taken
  <1>2. 0 \in Counter /\ 0 % Wrap = 0
    BY DEF Counter
  <1>3. /\ buffer \in [0 .. Slots - 1 -> 0 .. MaxSends]
        /\ buf \in 0 .. MaxSends /\ sent \in 0 .. MaxSends /\ closedAt \in 0 .. MaxSends
    OBVIOUS
  <1>4. SpscTypeOK
    BY <1>1, <1>2, <1>3, Zenon DEF SpscTypeOK
  <1>5. CounterInv
    BY <1>1, <1>2 DEF CounterInv
  <1>6. PlaceInv /\ SlotInv
    BY <1>1 DEF PlaceInv, SlotInv
  <1> QED
    BY <1>4, <1>5, <1>6 DEF SpscInv

\* Every step of either thread keeps the invariant.
LEMMA SpscInvStep == SpscInv /\ [SpscNext]_spscVars => SpscInv'
  BY SpscTypeStep, CounterStep, SlotStep DEF SpscInv

\* The inductive invariant of the ring.
LEMMA SpscInvariant == SpscSpec => []SpscInv
  BY SpscInvInit, SpscInvStep, PTL DEF SpscSpec

\* The producer and the consumer never copy to and from the same slot at
\* once, whatever the capacity and however old the copies of the counters
\* they test, and the counters stay in range as they wrap.
\* (spscTrySend, spscTryRecv)
THEOREM SpscRingConsistent == SpscSpec => []RingConsistent
  <1>1. SpscInv => RingConsistent
    <2> SUFFICES ASSUME SpscInv, ppc = "copy", cpc = "copy"
                 PROVE  head % Slots # tail % Slots
      BY DEF SpscInv, RingConsistent, SlotsDisjoint
    <2>1. Taken \in Nat /\ sent \in Nat
      BY TakenNat DEF SpscInv
    <2>2. head % Slots = sent % Slots /\ tail % Slots = Taken % Slots
      BY <2>1, CounterOf DEF SpscInv, CounterInv
    <2>3. Taken \in Int /\ sent \in Int /\ Taken < sent /\ sent - Taken < Slots
      BY <2>1, Sizes DEF SpscInv, PlaceInv
    <2>4. Taken % Slots # sent % Slots
      BY <2>3, Sizes, ModDistinct
    <2> QED
      BY <2>2, <2>4
  <1> QED
    BY <1>1, SpscInvariant, PTL

-----------------------------------------------------------------------------
(* The ring implements the bounded FIFO                                     *)

\* What the ring holds: the numbers of the elements sent and not received.
ContentsOK ==
  /\ Contents = [i \in 1 .. sent - Taken |-> Taken + i]
  /\ Contents \in Seq(1 .. MaxSends)
  /\ Len(Contents) = sent - Taken
  /\ \A i \in 1 .. sent - Taken : Contents[i] = Taken + i

\* The contents are the elements sent and not received, in order.
LEMMA ContentsSeq == SpscInv => ContentsOK
  <1> SUFFICES ASSUME SpscInv PROVE ContentsOK
    OBVIOUS
  <1> USE Sizes
  <1>1. Taken \in Nat /\ sent \in Nat /\ Taken <= sent /\ sent - Taken <= Capacity /\ sent <= MaxSends
    BY TakenNat DEF SpscInv, CounterInv
  <1>2. Sub(head, tail) = sent - Taken
    BY <1>1, SubOf DEF SpscInv, CounterInv
  <1>3. ASSUME NEW i \in 1 .. sent - Taken
        PROVE  buffer[(tail + i - 1) % Slots] = Taken + i
    <2> DEFINE j == i - 1
               k == Taken + j
    <2>1. j \in Int /\ k \in Taken .. sent - 1 /\ k + 1 = Taken + i /\ tail \in Int /\ Taken \in Int
      BY <1>1 DEF SpscInv, SpscTypeOK, Counter
    <2>2. tail % Slots = Taken % Slots
      BY <1>1, CounterOf DEF SpscInv, CounterInv
    <2> HIDE DEF j
    <2>3. ((tail % Slots) + j) % Slots = (tail + j) % Slots
      BY <2>1, ModPlusMod, Zenon
    <2>4. ((Taken % Slots) + j) % Slots = (Taken + j) % Slots
      BY <2>1, ModPlusMod, Zenon
    <2>5. (tail + j) % Slots = k % Slots
      BY <2>2, <2>3, <2>4
    <2>6. tail + i - 1 = tail + j
      BY <2>1 DEF j
    <2> HIDE DEF k
    <2>7. buffer[k % Slots] = k + 1
      BY <2>1 DEF SpscInv, SlotInv
    <2> QED
      BY <2>1, <2>5, <2>6, <2>7
  <1>4. Contents = [i \in 1 .. sent - Taken |-> Taken + i]
    BY <1>2, <1>3 DEF Contents
  <1>5. sent - Taken \in Nat /\ \A i \in 1 .. sent - Taken : Taken + i \in 1 .. MaxSends
    BY <1>1
  <1>6. Contents \in [1 .. sent - Taken -> 1 .. MaxSends]
    BY <1>4, <1>5
  <1> HIDE DEF Contents
  <1>7. Contents \in Seq(1 .. MaxSends) /\ Len(Contents) = sent - Taken
    BY <1>5, <1>6, IsASeq, LenProperties
  <1> QED
    BY <1>4, <1>7 DEF ContentsOK


\* Publishing head puts the next element into the FIFO.
LEMMA PutRefines ==
  ASSUME SpscInv, ContentsOK, ContentsOK', PublishWrite
  PROVE  Fifo!FifoNext
  <1> USE Sizes
  <1>1. Taken \in Nat /\ sent \in Nat /\ Taken <= sent /\ sent <= MaxSends
    BY TakenNat DEF SpscInv, CounterInv
  <1>2. /\ sent' = sent + 1 /\ Taken' = Taken /\ received' = received
        /\ sent < MaxSends /\ sent - Taken < Capacity
    BY DEF PublishWrite, consVars, Taken, SpscInv, PlaceInv
  <1> DEFINE n == sent - Taken
             e == sent + 1
  <1>3. n \in Nat /\ n < Capacity /\ e \in 1 .. MaxSends /\ sent' - Taken' = n + 1 /\ e = Taken + (n + 1)
    BY <1>1, <1>2
  <1>4. /\ Contents \in Seq(1 .. MaxSends) /\ Len(Contents) = n
        /\ \A i \in 1 .. n : Contents[i] = Taken + i
    BY DEF ContentsOK
  <1> HIDE DEF n, e
  <1>5. /\ Contents' \in Seq(1 .. MaxSends) /\ Len(Contents') = n + 1
        /\ \A i \in 1 .. n + 1 : Contents'[i] = Taken + i
    BY <1>2, <1>3 DEF ContentsOK
  <1>6. /\ Append(Contents, e) \in Seq(1 .. MaxSends)
        /\ Len(Append(Contents, e)) = n + 1
        /\ \A i \in 1 .. n : Append(Contents, e)[i] = Contents[i]
        /\ Append(Contents, e)[n + 1] = e
    BY <1>3, <1>4, AppendProperties
  <1>7. ASSUME NEW i \in 1 .. n + 1 PROVE Contents'[i] = Append(Contents, e)[i]
    <2>1. i = n + 1 \/ i \in 1 .. n
      BY <1>3
    <2> QED
      BY <2>1, <1>3, <1>4, <1>5, <1>6
  <1>8. Contents' = Append(Contents, e)
    BY <1>5, <1>6, <1>7, SeqEqual
  <1> HIDE DEF Contents
  <1>9. Fifo!Put(e)
    BY <1>2, <1>3, <1>4, <1>8 DEF Fifo!Put
  <1> QED
    BY <1>3, <1>9 DEF Fifo!FifoNext

\* Publishing tail takes the oldest element out of it.
LEMMA TakeRefines ==
  ASSUME SpscInv, ContentsOK, ContentsOK', PublishRead
  PROVE  Fifo!FifoNext
  <1>1. Taken \in Nat /\ sent \in Nat /\ Taken <= sent
    BY TakenNat DEF SpscInv, CounterInv
  <1>2. sent' = sent /\ received' = Append(received, buf) /\ buf = Taken + 1 /\ Taken < sent
    BY DEF PublishRead, prodVars, SpscInv, PlaceInv, SlotInv
  <1>3. Taken' = Taken + 1
    BY AppendProperties DEF PublishRead, Taken, SpscInv, SpscTypeOK
  <1> DEFINE n == sent - Taken
  <1>4. n \in Nat /\ n > 0 /\ sent' - Taken' = n - 1
    BY <1>1, <1>2, <1>3
  <1>5. /\ Contents \in Seq(1 .. MaxSends) /\ Len(Contents) = n
        /\ \A i \in 1 .. n : Contents[i] = Taken + i
    BY DEF ContentsOK
  <1> HIDE DEF n
  <1>6. /\ Contents' \in Seq(1 .. MaxSends) /\ Len(Contents') = n - 1
        /\ \A i \in 1 .. n - 1 : Contents'[i] = (Taken + 1) + i
    BY <1>3, <1>4 DEF ContentsOK
  <1>7. Contents # << >>
    BY <1>4, <1>5, EmptySeq
  <1>8. /\ Head(Contents) = Contents[1]
        /\ Tail(Contents) \in Seq(1 .. MaxSends)
        /\ Len(Tail(Contents)) = n - 1
        /\ \A i \in 1 .. n - 1 : Tail(Contents)[i] = Contents[i + 1]
    BY <1>5, <1>7, HeadTailProperties
  <1>9. ASSUME NEW i \in 1 .. n - 1 PROVE Contents'[i] = Tail(Contents)[i]
    <2>1. i + 1 \in 1 .. n /\ (Taken + 1) + i = Taken + (i + 1)
      BY <1>1, <1>4
    <2> QED
      BY <2>1, <1>5, <1>6, <1>8
  <1>10. Contents' = Tail(Contents)
    BY <1>6, <1>8, <1>9, SeqEqual
  <1>11. Head(Contents) = buf
    BY <1>2, <1>4, <1>5, <1>8
  <1> HIDE DEF Contents
  <1>12. Fifo!Take
    BY <1>2, <1>7, <1>10, <1>11 DEF Fifo!Take
  <1> QED
    BY <1>12 DEF Fifo!FifoNext

\* The lock-free ring is a bounded FIFO: elements come out once each and in
\* the order in which they went in, for every capacity and across every wrap
\* of the counters; only the stores to head and tail are visible steps.
THEOREM SpscImplementsFifo == SpscSpec => ImplementsFifo
  <1>1. SpscInit => Fifo!FifoInit
    <2> SUFFICES ASSUME SpscInit PROVE Fifo!FifoInit
      OBVIOUS
    <2>1. ContentsOK
      BY SpscInvInit, ContentsSeq
    <2>2. Taken = 0 /\ sent = 0
      BY EmptySeq DEF SpscInit, Taken
    <2>3. Contents \in Seq(1 .. MaxSends) /\ Len(Contents) = 0
      BY <2>1, <2>2 DEF ContentsOK
    <2>4. Contents = << >>
      BY <2>3, EmptySeq
    <2> QED
      BY <2>4 DEF SpscInit, Fifo!FifoInit
  <1>2. SpscInv /\ ContentsOK /\ ContentsOK' /\ [SpscNext]_spscVars => [Fifo!FifoNext]_(Fifo!fifoVars)
    <2> SUFFICES ASSUME SpscInv, ContentsOK, ContentsOK', [SpscNext]_spscVars
                 PROVE  [Fifo!FifoNext]_(Fifo!fifoVars)
      OBVIOUS
    <2>1. CASE PublishWrite
      BY <2>1, PutRefines
    <2>2. CASE PublishRead
      BY <2>2, TakeRefines
    <2>3. ASSUME sent' = sent, received' = received PROVE UNCHANGED (Fifo!fifoVars)
      <3>1. Taken' = Taken
        BY <2>3 DEF Taken
      <3>2. Contents' = Contents
        BY <2>3, <3>1 DEF ContentsOK
      <3> QED
        BY <2>3, <3>2 DEF Fifo!fifoVars
    <2> QED
      BY <2>1, <2>2, <2>3
         DEF SpscNext, ProducerStep, ConsumerStep, SendCall, TrySend, SendFull, CopyIn, RecvCall,
             TryRecv, RecvEmpty, CopyOut, Close, LenHead, LenTail, spscVars, prodVars, consVars
  <1> QED
    BY <1>1, <1>2, SpscInvariant, ContentsSeq, PTL DEF SpscSpec, ImplementsFifo, Fifo!FifoSpec

=============================================================================
