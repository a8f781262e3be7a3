----------------------------- MODULE LoopyKqueue -----------------------------
(***************************************************************************)
(* loopyAdapterBSD.c: kqueue behind loopyInternalPoll.  Reading and        *)
(* writing are two filters of a descriptor, changed by one kevent call for *)
(* both, and reported as two events.  The callers in loopy.c are kept as   *)
(* far as they touch a mask.  A client unregisters a descriptor before it  *)
(* closes it.                                                              *)
(***************************************************************************)
EXTENDS Naturals, FiniteSets, SequencesExt

CONSTANTS
  KqFds,          (* descriptors                                             *)
  KqSetSize       (* l->setSize, the room for events                         *)

ASSUME KqAssumption == KqSetSize \in Nat

VARIABLES
  kqMask,         (* l->events[fd].mask                                      *)
  kqFilters,      (* kernel: filters of a descriptor                         *)
  kqFired         (* l->fired: events not yet dispatched                     *)

kqVars == <<kqMask, kqFilters, kqFired>>

KqActions == {"READ", "WRITE"}
KqMasks == SUBSET KqActions \ {{}}

KqInit ==
  /\ kqMask = [fd \in KqFds |-> {}]
  /\ kqFilters = [fd \in KqFds |-> {}]
  /\ kqFired = <<>>

\* loopyInternalAddEvent: kevent makes the changes in order, READ first, and
\* returns at one that fails: `refused` is one that the kernel refuses.  The
\* caller adds to the mask if none did.
RegisterKqueue(fd, mask, refused) ==
  /\ kqFilters' = [kqFilters EXCEPT ![fd] = @ \union
                     CASE mask \intersect refused = {} -> mask
                       [] "READ" \in mask \intersect refused -> {}
                       [] OTHER -> mask \ {"WRITE"}]
  /\ kqMask' = IF mask \intersect refused = {} THEN [kqMask EXCEPT ![fd] = @ \union mask] ELSE kqMask
  /\ UNCHANGED kqFired

\* What loopyInternalDelEvent deletes: there is no event list for an error, so
\* kevent returns at a filter that does not exist, READ first.
KqDeleted(fd, mask) ==
  IF "READ" \in mask /\ "READ" \notin kqFilters[fd] THEN {} ELSE mask

\* _loopyDeleteFileEvent: the adapter, then the mask.
UnregisterKqueue(fd, mask) ==
  /\ kqMask[fd] # {}
  /\ kqFilters' = [kqFilters EXCEPT ![fd] = @ \ KqDeleted(fd, mask)]
  /\ kqMask' = [kqMask EXCEPT ![fd] = @ \ mask]
  /\ UNCHANGED kqFired

\* loopyInternalPoll: some of the filters, as many as there is room for, each
\* in an event of its own.  -1, when it is interrupted, dispatches nothing.
PollKqueue ==
  /\ kqFired = <<>>
  /\ \E ready \in SUBSET {e \in KqFds \X KqActions : e[2] \in kqFilters[e[1]]} :
       /\ Cardinality(ready) \in 1 .. KqSetSize
       /\ kqFired' \in SetToSeqs(ready)
  /\ UNCHANGED <<kqMask, kqFilters>>

\* loopyProcessEvents takes the next event; what its callback does are the
\* other actions.
DispatchKqueue ==
  /\ kqFired # <<>>
  /\ kqFired' = Tail(kqFired)
  /\ UNCHANGED <<kqMask, kqFilters>>

\* External: closing a descriptor deletes its filters.
CloseKqueue(fd) ==
  /\ kqMask[fd] = {} /\ kqFilters[fd] # {}
  /\ kqFilters' = [kqFilters EXCEPT ![fd] = {}]
  /\ UNCHANGED <<kqMask, kqFired>>

KqNext ==
  \/ \E fd \in KqFds :
       \/ \E mask \in KqMasks : \/ UnregisterKqueue(fd, mask)
                                \/ \E refused \in {{}} \union KqMasks : RegisterKqueue(fd, mask, refused)
       \/ CloseKqueue(fd)
  \/ PollKqueue \/ DispatchKqueue

KqSpec == KqInit /\ [][KqNext]_kqVars

-----------------------------------------------------------------------------
(* Properties                                                               *)

\* What is registered has its filter, also after changes that failed half way;
\* a poll reports no filter twice and never more than there is room for.
FiltersArmed ==
  /\ \A fd \in KqFds : kqMask[fd] \subseteq kqFilters[fd]
  /\ IsInjective(kqFired) /\ Len(kqFired) <= KqSetSize

\* What is not registered has no filter ("Batch multiple filter deletions into
\* a single kevent() syscall").  It does not hold: unregistering both actions
\* of a descriptor that is only registered for writing deletes nothing, and so
\* the poll keeps returning at once.
FiltersOnlyRegistered == \A fd \in KqFds : kqFilters[fd] \subseteq kqMask[fd]
=============================================================================
