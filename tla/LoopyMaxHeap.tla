---------------------------- MODULE LoopyMaxHeap ----------------------------
(***************************************************************************)
(* loopyMaxHeap.c: an array heap of descriptors with a position map that   *)
(* answers "where is v" at once.  The map has one place per value, so a    *)
(* value that was inserted twice, or a negative one, is found by searching *)
(* the array.  Growth only allocates; when it fails Insert changes nothing.*)
(***************************************************************************)
EXTENDS Integers, Sequences, FiniteSets

CONSTANTS
  MhValues,     (* values inserted, looked for and removed                   *)
  MhMaxSize     (* bound on the size of the heap                             *)

ASSUME MhAssumption == MhValues \subseteq Int

VARIABLES
  mhData,       (* heap->data[1 .. size]                                     *)
  mhPos,        (* heap->posMap[v].heapIndex                                 *)
  mhCount       (* history: how often each value is in the heap              *)

mhVars == <<mhData, mhPos, mhCount>>

MhInit ==
  /\ mhData = << >>
  /\ mhPos = [v \in MhValues |-> 0]
  /\ mhCount = [v \in MhValues |-> 0]

\* The map knows values from 0 on.
SetPos(pos, v, i) == IF v >= 0 THEN [pos EXCEPT ![v] = i] ELSE pos

\* heapSwap of the element at the place `at' with the one at j, which is the
\* place that the loops go on with.
HeapSwap(h, j) ==
  [data |-> [h.data EXCEPT ![h.at] = h.data[j], ![j] = h.data[h.at]],
   pos |-> SetPos(SetPos(h.pos, h.data[h.at], j), h.data[j], h.at),
   at |-> j]

\* A round of heapBubbleUp's loop: the element moves up while it is larger.
UpRound(h) ==
  IF h.at > 1 /\ h.data[h.at \div 2] < h.data[h.at] THEN HeapSwap(h, h.at \div 2) ELSE h

\* The child to swap with: the left one unless the right one is larger.
Largest(h) ==
  LET l == 2 * h.at
      r == 2 * h.at + 1
      m == IF l <= Len(h.data) /\ h.data[l] > h.data[h.at] THEN l ELSE h.at IN
  IF r <= Len(h.data) /\ h.data[r] > h.data[m] THEN r ELSE m

\* A round of heapBubbleDown's loop.
DownRound(h) == IF Largest(h) = h.at THEN h ELSE HeapSwap(h, Largest(h))

\* The heap after k rounds; a round that would end the loop changes nothing.
Rounds(h, up, k) ==
  LET after[n \in 0 .. k] ==
        IF n = 0 THEN h ELSE IF up THEN UpRound(after[n - 1]) ELSE DownRound(after[n - 1])
  IN  after[k]

\* The place falls, or rises, in each round: both loops have ended by then.
HeapBubbleUp(h) == Rounds(h, TRUE, h.at)
HeapBubbleDown(h) == Rounds(h, FALSE, Len(h.data))

Become(h) == mhData' = h.data /\ mhPos' = h.pos
Counted(v, n) == mhCount' = [mhCount EXCEPT ![v] = @ + n]

\* loopyMaxHeapInsert.
HeapInsert(v) ==
  /\ Len(mhData) < MhMaxSize
  /\ Become(HeapBubbleUp([data |-> Append(mhData, v), pos |-> SetPos(mhPos, v, Len(mhData) + 1),
                          at |-> Len(mhData) + 1]))
  /\ Counted(v, 1)

Shrunk == SubSeq(mhData, 1, Len(mhData) - 1)
Final == mhData[Len(mhData)]

\* Mutant: the map keeps the place of what was popped.
HeapPopKeepsPos ==
  /\ mhData # << >>
  /\ IF Len(mhData) = 1
     THEN Become([data |-> << >>, pos |-> mhPos])
     ELSE Become(HeapBubbleDown([data |-> [Shrunk EXCEPT ![1] = Final],
                                 pos |-> SetPos(mhPos, Final, 1), at |-> 1]))
  /\ Counted(mhData[1], -1)

\* loopyMaxHeapPop.
HeapPop ==
  /\ mhData # << >>
  /\ LET cleared == SetPos(mhPos, mhData[1], 0) IN
     IF Len(mhData) = 1
     THEN Become([data |-> << >>, pos |-> cleared])
     ELSE Become(HeapBubbleDown([data |-> [Shrunk EXCEPT ![1] = Final],
                                 pos |-> SetPos(cleared, Final, 1), at |-> 1]))
  /\ Counted(mhData[1], -1)

\* Where loopyMaxHeapRemove thinks that v is: the map's answer if it is right,
\* else the first place of v in the array, else the map's answer after all.
FindIndex(v) ==
  LET mapped == IF v >= 0 THEN mhPos[v] ELSE 0
      places == {j \in DOMAIN mhData : mhData[j] = v} IN
  IF (mapped \in DOMAIN mhData /\ mhData[mapped] = v) \/ places = {}
  THEN mapped
  ELSE CHOOSE j \in places : \A k \in places : j <= k

\* The element that is overwritten is the one at that index.
HeapRemoveAt(v, i) ==
  LET cleared == SetPos(mhPos, v, 0)
      h == [data |-> [Shrunk EXCEPT ![i] = Final], pos |-> SetPos(cleared, Final, i), at |-> i] IN
  IF i = Len(mhData)
  THEN Become([data |-> Shrunk, pos |-> cleared])
  ELSE Become(IF i > 1 /\ h.data[i] > h.data[i \div 2] THEN HeapBubbleUp(h) ELSE HeapBubbleDown(h))
HeapRemove(v) ==
  /\ mhData # << >> /\ FindIndex(v) # 0
  /\ HeapRemoveAt(v, FindIndex(v))
  /\ Counted(v, -1)

\* loopyMaxHeapClear.
HeapClear ==
  /\ mhData' = << >>
  /\ mhPos' = [v \in MhValues |-> 0]
  /\ mhCount' = [v \in MhValues |-> 0]

MhNext ==
  \/ \E v \in MhValues : HeapInsert(v) \/ HeapRemove(v)
  \/ HeapPop
  \/ HeapClear

MhSpec == MhInit /\ [][MhNext]_mhVars

-----------------------------------------------------------------------------
(* Properties                                                               *)

\* The heap is the multiset of what was inserted and not yet removed, its
\* first element is the largest, and the map never names a place for a value
\* that is not in the heap: Remove would overwrite what is there.
HeapIsMultiset ==
  /\ \A v \in MhValues : /\ Cardinality({i \in DOMAIN mhData : mhData[i] = v}) = mhCount[v]
                         /\ mhPos[v] # 0 => mhCount[v] > 0
  /\ \A i \in 2 .. Len(mhData) : mhData[i] <= mhData[i \div 2]
=============================================================================
