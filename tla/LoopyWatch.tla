----------------------------- MODULE LoopyWatch ------------------------------
(***************************************************************************)
(* loopyWatch.c over inotify: a table of watches, the kernel's descriptors *)
(* and its queue of events, and the buffer that a batch of them is read    *)
(* into.  Callbacks add and remove watches, and free the watcher, while    *)
(* the rest of their batch is still to come.  Event masks and names are    *)
(* left out.                                                               *)
(***************************************************************************)
EXTENDS Integers, Sequences, FiniteSets

CONSTANTS
  WtFiles,
  WtMaxWatches,   (* MAX_WATCHES                                             *)
  WtMaxId,        (* bound on nextId                                         *)
  WtMaxQueue      (* events the kernel keeps, later ones are lost            *)

WtSlots == 1 .. WtMaxWatches

ASSUME WtAssumption == WtMaxWatches \in Nat /\ WtFiles # {}

VARIABLES
  wtEntry,        (* w->watches: id (0 if not active), file and wd           *)
  wtCount, wtNextId,
  wtKernel,       (* the file of each descriptor given out, never given again *)
  wtLive,         (* the descriptors that the kernel still watches           *)
  wtQueue,        (* events in the kernel: the descriptor and the file       *)
  wtBatch,        (* events in the buffer                                    *)
  wtTold,         (* history: watch and event of the last callback           *)
  wtShaky,        (* history: descriptors shared by two watches, or whose    *)
                  (* file was deleted                                        *)
  wtFault         (* freed memory was used                                   *)

wtVars == <<wtEntry, wtCount, wtNextId, wtKernel, wtLive, wtQueue, wtBatch, wtTold, wtShaky, wtFault>>

FreeSlot == [id |-> 0, file |-> CHOOSE f \in WtFiles : TRUE, wd |-> 0]
WtActive(i) == wtEntry[i].id # 0

WtInit ==
  /\ wtEntry = [i \in WtSlots |-> FreeSlot]
  /\ wtCount = 0 /\ wtNextId = 1
  /\ wtKernel = << >> /\ wtLive = {}
  /\ wtQueue = << >> /\ wtBatch = << >>
  /\ wtTold = << >> /\ wtShaky = {} /\ wtFault = FALSE

\* inotify_add_watch: a file that is watched already keeps its descriptor.
TakeSlot(i, f, wd) ==
  /\ wtEntry' = [wtEntry EXCEPT ![i] = [id |-> wtNextId, file |-> f, wd |-> wd]]
  /\ wtCount' = wtCount + 1
NewWatch(i, f) ==
  /\ \A wd \in wtLive : wtKernel[wd] # f
  /\ TakeSlot(i, f, Len(wtKernel) + 1)
  /\ wtKernel' = Append(wtKernel, f)
  /\ wtLive' = wtLive \cup {Len(wtKernel) + 1}
  /\ UNCHANGED wtShaky
SharedWatch(i, f) ==
  \E wd \in wtLive :
    /\ wtKernel[wd] = f
    /\ TakeSlot(i, f, wd)
    /\ wtShaky' = wtShaky \cup {wd}
    /\ UNCHANGED <<wtKernel, wtLive>>

\* loopyWatchAdd: the first free slot; a watch the kernel refuses leaves it
\* free but has used up an id.
WatchAdd(f, ok) ==
  /\ wtNextId < WtMaxId
  /\ \E i \in WtSlots :
       /\ ~WtActive(i) /\ \A j \in 1 .. i - 1 : WtActive(j)
       /\ IF ok THEN NewWatch(i, f) \/ SharedWatch(i, f)
          ELSE UNCHANGED <<wtEntry, wtCount, wtKernel, wtLive, wtShaky>>
  /\ wtNextId' = wtNextId + 1
  /\ UNCHANGED <<wtQueue, wtBatch, wtTold, wtFault>>

\* External: the kernel queues an event, if there is room.
Queued(q, wd) ==
  IF Len(q) < WtMaxQueue THEN Append(q, [wd |-> wd, file |-> wtKernel[wd]]) ELSE q

\* loopyWatchRemove; the kernel tells that the descriptor is gone (IN_IGNORED).
WatchRemove(i) ==
  /\ WtActive(i)
  /\ wtLive' = wtLive \ {wtEntry[i].wd}
  /\ wtQueue' = IF wtEntry[i].wd \in wtLive THEN Queued(wtQueue, wtEntry[i].wd) ELSE wtQueue
  /\ wtEntry' = [wtEntry EXCEPT ![i] = FreeSlot]
  /\ wtCount' = wtCount - 1
  /\ UNCHANGED <<wtNextId, wtKernel, wtBatch, wtTold, wtShaky, wtFault>>

\* loopyWatchRemoveAll, also from a callback; no watch is left for what the
\* kernel tells of it.
WatchRemoveAll ==
  /\ wtLive' = {}
  /\ wtEntry' = [i \in WtSlots |-> FreeSlot]
  /\ wtCount' = wtCount - Cardinality({i \in WtSlots : WtActive(i)})
  /\ UNCHANGED <<wtNextId, wtKernel, wtQueue, wtBatch, wtTold, wtShaky, wtFault>>

\* loopyWatchFree: the descriptor is closed, and with it goes what the kernel
\* has queued.  A watcher may be made again.  In a callback that is not the last
\* of its batch, watchEventCallback goes on with the freed table.
WatchFree ==
  IF wtBatch # << >>
  THEN /\ wtFault' = TRUE
       /\ UNCHANGED <<wtEntry, wtCount, wtNextId, wtKernel, wtLive, wtQueue, wtBatch, wtTold, wtShaky>>
  ELSE /\ wtEntry' = [i \in WtSlots |-> FreeSlot]
       /\ wtCount' = 0 /\ wtNextId' = 1
       /\ wtKernel' = << >> /\ wtLive' = {} /\ wtQueue' = << >> /\ wtTold' = << >> /\ wtShaky' = {}
       /\ UNCHANGED <<wtBatch, wtFault>>

\* External: a file that is watched changes,
FileEvent(wd) ==
  /\ wd \in wtLive
  /\ wtQueue' = Queued(wtQueue, wd)
  /\ UNCHANGED <<wtEntry, wtCount, wtNextId, wtKernel, wtLive, wtBatch, wtTold, wtShaky, wtFault>>

\* or is deleted: the kernel tells that and drops its watch (IN_DELETE_SELF,
\* IN_IGNORED).
FileDeleted(wd) ==
  /\ wd \in wtLive
  /\ wtLive' = wtLive \ {wd}
  /\ wtQueue' = Queued(Queued(wtQueue, wd), wd)
  /\ wtShaky' = wtShaky \cup {wd}
  /\ UNCHANGED <<wtEntry, wtCount, wtNextId, wtKernel, wtBatch, wtTold, wtFault>>

\* watchEventCallback: what the kernel has is read, when the buffer is done,
ReadBatch ==
  /\ wtBatch = << >> /\ wtQueue # << >>
  /\ wtBatch' = wtQueue
  /\ wtQueue' = << >>
  /\ UNCHANGED <<wtEntry, wtCount, wtNextId, wtKernel, wtLive, wtTold, wtShaky, wtFault>>

\* and the first watch that has the event's descriptor is called, if there is
\* one.
ByWd(i, wd) == WtActive(i) /\ wtEntry[i].wd = wd
NotifyWatch ==
  /\ wtBatch # << >>
  /\ LET e == Head(wtBatch) IN
     wtTold' = IF \E i \in WtSlots : ByWd(i, e.wd)
               THEN <<wtEntry[CHOOSE i \in WtSlots : ByWd(i, e.wd) /\ \A j \in 1 .. i - 1 : ~ByWd(j, e.wd)], e>>
               ELSE << >>
  /\ wtBatch' = Tail(wtBatch)
  /\ UNCHANGED <<wtEntry, wtCount, wtNextId, wtKernel, wtLive, wtQueue, wtShaky, wtFault>>

WtNext ==
  /\ ~wtFault
  /\ \/ \E f \in WtFiles, ok \in BOOLEAN : WatchAdd(f, ok)
     \/ \E i \in WtSlots : WatchRemove(i)
     \/ \E wd \in wtLive : FileEvent(wd) \/ FileDeleted(wd)
     \/ WatchRemoveAll \/ WatchFree
     \/ ReadBatch \/ NotifyWatch

WtSpec == WtInit /\ [][WtNext]_wtVars

-----------------------------------------------------------------------------
(* Properties                                                               *)

\* The count is that of the active watches.  An active watch is alive in the
\* kernel unless its descriptor was shared or its file deleted; a descriptor
\* alive there belongs to a watch, to one only unless it was shared.  An event
\* that was read before its watch was removed is never handed to a watch that
\* took the slot or the file since (loopyWatchAdd, watchEventCallback).
WatchExact ==
  /\ wtCount = Cardinality({i \in WtSlots : WtActive(i)})
  /\ \A i \in WtSlots : WtActive(i) =>
       /\ wtKernel[wtEntry[i].wd] = wtEntry[i].file
       /\ wtEntry[i].wd \in wtLive \cup wtShaky
  /\ \A wd \in wtLive : \E i \in WtSlots :
       ByWd(i, wd) /\ (wd \notin wtShaky => \A j \in WtSlots : ByWd(j, wd) => j = i)
  /\ wtTold # << >> => wtTold[1].wd = wtTold[2].wd /\ wtTold[1].file = wtTold[2].file

\* "Multiple watches can be added for the same path with different event masks"
\* (loopyWatch.h), and each is alive until it is removed.  It does not hold: both
\* get one descriptor, whose events go to the first of them, and removing either
\* ends both; nor does a watch end with its file (IN_IGNORED is not looked for).
WatchesAlive == \A i \in WtSlots : WtActive(i) => wtEntry[i].wd \in wtLive

\* The watch callback may call every operation ("making it safe to call loopy
\* APIs", loopyWatch.h).  It does not hold of loopyWatchFree while events of the
\* batch are left.
WatcherSafe == ~wtFault
=============================================================================
