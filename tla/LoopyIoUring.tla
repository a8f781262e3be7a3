---------------------------- MODULE LoopyIoUring -----------------------------
(***************************************************************************)
(* loopyAdapterIouring.c: operations on the rings.  An operation has a     *)
(* slot in a table that grows, an entry in the submission queue and, at    *)
(* the end, one in the completion queue, where loopyInternalPoll finds it  *)
(* and calls the client, who may submit again.  io_uring_enter may fail:   *)
(* the entry then stays in the queue and goes with a later call.  The      *)
(* seventy operations share this path.  They differ in what the kernel     *)
(* makes of them: a multishot one completes again and again, a zero-copy   *)
(* one when it is done and once more when the buffer is free.  The kernel  *)
(* is external.  Clients do not call the functions that wait (timeouts     *)
(* removed or updated, buffer pools) inside a completion callback.         *)
(***************************************************************************)
EXTENDS Integers, Sequences, SequencesExt, FiniteSets, FiniteSetsExt

CONSTANTS
  UoInitialSlots, (* fileState.opsSize at first (256)                        *)
  UoQueueSize,    (* entries of the submission queue                         *)
  UoMaxId,        (* bound: operations                                       *)
  UoAllowed,      (* bound: the kinds that each of them may be of            *)
  UoMaxShots,     (* bound: completions of a multishot operation             *)
  UoMaxCancels    (* bound: cancellations                                    *)

ASSUME UoAssumption == UoInitialSlots \in Nat \ {0} /\ UoMaxId \in Nat

VARIABLES
  uoOps,          (* fileState.ops: slots [id, active, kind]                 *)
  uoNextId,       (* fileState.nextId                                        *)
  uoSq, uoCq,     (* the queues; a cancellation has id 0 and a target        *)
  uoKernel,       (* operations the kernel works on                          *)
  uoPoll,         (* loopyInternalPoll: -1 outside, else entries it is past  *)
  uoRun,          (* the slot whose callback runs, whether the table has     *)
                  (* moved since, and whether the operation goes on; 0 none  *)
  uoTold,         (* history: what the client was told of each operation     *)
  uoCalls,        (* history: its callbacks                                  *)
  uoFinal,        (* history: operations with their last callback            *)
  uoZero,         (* history: zero-copy operations                           *)
  uoShots, uoCancels

uoVars == <<uoOps, uoNextId, uoSq, uoCq, uoKernel, uoPoll, uoRun, uoTold,
            uoCalls, uoFinal, uoZero, uoShots, uoCancels>>
uoHist == <<uoCalls, uoFinal, uoShots, uoCancels>>
UoIds == 1..UoMaxId
UoKinds == {"single", "multishot", "zero copy"}
NoOperation == [id |-> 0, active |-> FALSE, kind |-> "single"]
NoRun == [slot |-> 0, moved |-> FALSE, goesOn |-> FALSE]

UoInit ==
  /\ uoOps = [i \in 1..UoInitialSlots |-> NoOperation] /\ uoNextId = 1
  /\ uoSq = << >> /\ uoCq = << >> /\ uoKernel = {}
  /\ uoPoll = -1 /\ uoRun = NoRun
  /\ uoTold = [i \in UoIds |-> "none"] /\ uoCalls = [i \in UoIds |-> 0]
  /\ uoFinal = {} /\ uoZero = {} /\ uoShots = [i \in UoIds |-> 0] /\ uoCancels = 0

\* Client code runs outside of the poll or in a callback.
UoMayCall == uoPoll = -1 \/ uoRun # NoRun

\* ioUringFileOpAllocate in a table that has this form: the first free slot,
\* or the first new one of a table of twice the size.
Allocate(ops, id, kind) ==
  LET slot == [id |-> id, active |-> TRUE, kind |-> kind]
      free == {i \in DOMAIN ops : ~ops[i].active}
  IN IF free # {} THEN [ops EXCEPT ![Min(free)] = slot]
     ELSE ops \o <<slot>> \o [i \in 1..Len(ops) - 1 |-> NoOperation]

\* ioUringFileOpFind: the slots (one, if any) that are active with this id.
FindSlots(ops, id) == {i \in DOMAIN ops : ops[i].active /\ ops[i].id = id}

\* The table may be moved when it grows; the callback that caused it then
\* returns to a pointer into the old one.
Moved == [uoRun EXCEPT !.moved = @ \/ (uoRun # NoRun /\ Len(uoOps') > Len(uoOps))]

\* The kernel takes the first n entries of the queue: operations begin, and
\* cancellations end their target if it has not ended.
EnterKernel(sq, n) ==
  LET taken == SubSeq(sq, 1, n)
      begun == {taken[i].id : i \in 1..n} \ {0}
      cancelled == ({taken[i].target : i \in 1..n} \ {0}) \cap (uoKernel \cup begun)
  IN /\ uoSq' = SubSeq(sq, n + 1, Len(sq))
     /\ uoKernel' = (uoKernel \cup begun) \ cancelled
     /\ uoCq' = uoCq \o SetToSeq({[id |-> i, more |-> FALSE] : i \in cancelled})

\* ioUringSubmitRead, and in the same way every other single operation: an
\* entry, a slot, io_uring_enter for one entry; if that fails the slot is
\* given up and the client is told so.
Submit(kind, entered) ==
  /\ UoMayCall /\ uoNextId \in UoIds /\ kind \in UoAllowed[uoNextId] /\ Len(uoSq) < UoQueueSize
  /\ LET ops == Allocate(uoOps, uoNextId, kind)
         sq  == Append(uoSq, [id |-> uoNextId, target |-> 0])
     IN IF entered
        THEN uoOps' = ops /\ EnterKernel(sq, 1)
        ELSE /\ uoOps' = [i \in DOMAIN ops |->
                            IF ops[i].id = uoNextId THEN [ops[i] EXCEPT !.active = FALSE] ELSE ops[i]]
             /\ uoSq' = sq /\ UNCHANGED <<uoKernel, uoCq>>
  /\ uoTold' = [uoTold EXCEPT ![uoNextId] = IF entered THEN "submitted" ELSE "failed"]
  /\ uoZero' = IF kind = "zero copy" THEN uoZero \cup {uoNextId} ELSE uoZero
  /\ uoNextId' = uoNextId + 1
  /\ uoRun' = Moved
  /\ UNCHANGED <<uoPoll, uoHist>>

\* The one that accepts and the others that set op->multishot; the zero-copy
\* sends, which do not; and the ones whose buffer the kernel chooses, which
\* ioUringBufferOpAllocate gives a slot of the same table.
SubmitMultishot(entered) == Submit("multishot", entered)
SubmitZeroCopy(entered) == Submit("zero copy", entered)
SubmitPooled(entered) == Submit("single", entered)

\* loopyIoUringLinkChainSubmit with two operations: a queue that is full
\* after the first, or io_uring_enter, may make it fail, and nothing is
\* taken back.
SubmitChain(entered) ==
  /\ UoMayCall /\ {uoNextId, uoNextId + 1} \subseteq UoIds /\ Len(uoSq) < UoQueueSize
  /\ LET n   == IF Len(uoSq) + 1 < UoQueueSize THEN 2 ELSE 1
         one == Allocate(uoOps, uoNextId, "single")
         sq  == uoSq \o [i \in 1..n |-> [id |-> uoNextId + i - 1, target |-> 0]]
     IN /\ uoOps' = IF n = 2 THEN Allocate(one, uoNextId + 1, "single") ELSE one
        /\ IF entered /\ n = 2 THEN EnterKernel(sq, 2) ELSE uoSq' = sq /\ UNCHANGED <<uoKernel, uoCq>>
        /\ uoTold' = [i \in UoIds |-> IF i \in uoNextId..(uoNextId + n - 1)
                                      THEN IF entered /\ n = 2 THEN "submitted" ELSE "chainFailed"
                                      ELSE uoTold[i]]
        /\ uoNextId' = uoNextId + n
  /\ uoRun' = Moved
  /\ UNCHANGED <<uoPoll, uoHist, uoZero>>

\* loopyIoUringNetCancel of an operation that has a slot.
NetCancel(id, entered) ==
  /\ UoMayCall /\ uoCancels < UoMaxCancels /\ Len(uoSq) < UoQueueSize
  /\ FindSlots(uoOps, id) # {}
  /\ LET sq == Append(uoSq, [id |-> 0, target |-> id])
     IN IF entered THEN EnterKernel(sq, 1) ELSE uoSq' = sq /\ UNCHANGED <<uoKernel, uoCq>>
  /\ uoCancels' = uoCancels + 1
  /\ UNCHANGED <<uoOps, uoNextId, uoPoll, uoRun, uoTold, uoCalls, uoFinal, uoZero, uoShots>>

\* The kernel completes an operation, one of the other kinds perhaps not yet.
KernelCompletes(id, more) ==
  /\ id \in uoKernel
  /\ more => /\ \E i \in DOMAIN uoOps : uoOps[i].id = id /\ uoOps[i].kind # "single"
             /\ uoShots[id] < UoMaxShots
  /\ uoCq' = Append(uoCq, [id |-> id, more |-> more])
  /\ uoKernel' = IF more THEN uoKernel ELSE uoKernel \ {id}
  /\ uoShots' = IF more THEN [uoShots EXCEPT ![id] = @ + 1] ELSE uoShots
  /\ UNCHANGED <<uoOps, uoNextId, uoSq, uoPoll, uoRun, uoTold, uoCalls, uoFinal, uoZero, uoCancels>>

\* loopyInternalPoll submits what is in the queue,
PollSubmits(entered) ==
  /\ uoPoll = -1
  /\ IF entered THEN EnterKernel(uoSq, Len(uoSq)) ELSE UNCHANGED <<uoSq, uoKernel, uoCq>>
  /\ uoPoll' = 0
  /\ UNCHANGED <<uoOps, uoNextId, uoRun, uoTold, uoHist, uoZero>>

\* looks at completion after completion and calls the client if there is a
\* slot for it,
PollCompletion ==
  /\ uoPoll >= 0 /\ uoRun = NoRun /\ uoPoll < Len(uoCq)
  /\ LET c == uoCq[uoPoll + 1]  found == FindSlots(uoOps, c.id) IN
     IF found = {} THEN UNCHANGED <<uoRun, uoCalls, uoFinal>>
     ELSE LET i == Min(found)  goesOn == uoOps[i].kind = "multishot" /\ c.more IN
          /\ uoRun' = [slot |-> i, moved |-> FALSE, goesOn |-> goesOn]
          /\ uoCalls' = [uoCalls EXCEPT ![c.id] = @ + 1]
          /\ uoFinal' = IF goesOn THEN uoFinal ELSE uoFinal \cup {c.id}
  /\ uoPoll' = uoPoll + 1
  /\ UNCHANGED <<uoOps, uoNextId, uoSq, uoCq, uoKernel, uoTold, uoZero, uoShots, uoCancels>>

\* frees the slot after the callback (in the old table, if it has moved),
CompletionReturns ==
  /\ uoRun # NoRun
  /\ uoOps' = IF uoRun.goesOn \/ uoRun.moved THEN uoOps
              ELSE [uoOps EXCEPT ![uoRun.slot].active = FALSE]
  /\ uoRun' = NoRun
  /\ UNCHANGED <<uoNextId, uoSq, uoCq, uoKernel, uoPoll, uoTold, uoHist, uoZero>>

\* and at the end takes those completions off the queue.  Later ones may have
\* come: the tail is read once, and there may be no more room for events.
PollEnd ==
  /\ uoPoll >= 0 /\ uoRun = NoRun
  /\ uoCq' = SubSeq(uoCq, uoPoll + 1, Len(uoCq))
  /\ uoPoll' = -1
  /\ UNCHANGED <<uoOps, uoNextId, uoSq, uoKernel, uoRun, uoTold, uoHist, uoZero>>

UoNext ==
  \/ \E ok \in BOOLEAN :
       \/ Submit("single", ok) \/ SubmitMultishot(ok) \/ SubmitZeroCopy(ok) \/ SubmitPooled(ok)
       \/ SubmitChain(ok)
       \/ \E id \in UoIds : NetCancel(id, ok)
       \/ PollSubmits(ok)
  \/ \E id \in UoIds, more \in BOOLEAN : KernelCompletes(id, more)
  \/ PollCompletion \/ CompletionReturns \/ PollEnd

UoSpec == UoInit /\ [][UoNext]_uoVars

-----------------------------------------------------------------------------
(* Properties                                                               *)

InQueue(q, id) == \E i \in DOMAIN q : q[i].id = id
Unseen == SubSeq(uoCq, (IF uoPoll = -1 THEN 0 ELSE uoPoll) + 1, Len(uoCq))

\* An operation whose submission was reported is on its way through the
\* queues until its last callback, and has a slot until then; it is called
\* back no more after that, however the slots are used again; one whose
\* submission was reported to have failed is never called back, even if the
\* kernel executes it later.
OperationsExact ==
  /\ \A id \in UoIds : uoTold[id] = "submitted" /\ id \notin uoFinal =>
       /\ FindSlots(uoOps, id) # {}
       /\ InQueue(uoSq, id) \/ id \in uoKernel \/ InQueue(Unseen, id)
  /\ \A id \in UoIds : uoCalls[id] <= uoShots[id] + 1
  /\ \A id \in UoIds : uoTold[id] = "failed" => uoCalls[id] = 0
  /\ \A id \in uoFinal \ uoZero : id \notin uoKernel /\ ~InQueue(Unseen, id)
  /\ \A id \in UoIds : Cardinality(FindSlots(uoOps, id)) <= 1

\* loopyAdapterIouring.c of the submissions: "Operation ID on success, 0 on
\* failure", so the kernel does not work on what was reported to have failed.
\* It does not hold: the entry stays in the queue and goes with the next call.
FailedNotExecuted == \A id \in uoKernel : uoTold[id] = "submitted"

\* loopyAdapterIouring.c of the zero-copy sendmsg: "Must remain valid until
\* completion callback is invoked", so the kernel has finished by then.  It
\* does not hold: the callback is made by the first of two completions, while
\* the kernel still reads the data, and the second finds no slot.
LastCallMeansDone == uoFinal \cap uoKernel = {}

\* A slot is active for an operation that is not finished.  It does not hold:
\* the slot of a callback during which the table moved is freed in the old one.
SlotsReleased ==
  \A i \in DOMAIN uoOps : uoOps[i].active /\ uoRun = NoRun => uoOps[i].id \notin uoFinal
=============================================================================
