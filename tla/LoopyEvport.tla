----------------------------- MODULE LoopyEvport -----------------------------
(***************************************************************************)
(* loopyAdapterSolaris.c: event ports behind loopyInternalPoll.  A port    *)
(* forgets a descriptor when it reports it, so the adapter remembers the   *)
(* last ones reported and associates them again before it next asks.  The  *)
(* callers in loopy.c are kept as far as they touch a mask.  A client      *)
(* unregisters a descriptor before it closes it.                           *)
(***************************************************************************)
EXTENDS Naturals, FiniteSets

CONSTANTS
  EvFds,          (* descriptors                                             *)
  EvBatch         (* MAX_EVENT_BATCHSZ                                       *)

ASSUME EvAssumption == IsFiniteSet(EvFds) /\ EvBatch \in Nat

EvActions == {"READ", "WRITE"}

VARIABLES
  evOpen,         (* descriptors that are open                               *)
  evMask,         (* l->events[fd].mask                                      *)
  evAssoc,        (* kernel: what a descriptor is associated for             *)
  evPending,      (* pending_masks of a fd; empty if it is not pending       *)
  evAborted       (* abort() was called                                      *)

evVars == <<evOpen, evMask, evAssoc, evPending, evAborted>>

NoActions == [fd \in EvFds |-> {}]

EvInit ==
  /\ evOpen = EvFds
  /\ evMask = NoActions
  /\ evAssoc = NoActions
  /\ evPending = NoActions
  /\ evAborted = FALSE

\* loopyInternalLookupPending
IsPending(fd) == evPending[fd] # {}

\* Mutant: only what is added is associated.
PortAddEventNewOnly(fd, mask) ==
  IF IsPending(fd)
  THEN /\ evPending' = [evPending EXCEPT ![fd] = @ \union mask]
       /\ UNCHANGED evAssoc
  ELSE /\ evAssoc' = [evAssoc EXCEPT ![fd] = mask]
       /\ UNCHANGED evPending

\* loopyInternalAddEvent, before the caller adds to the mask: a pending one
\* will be associated by the next poll, another is associated now.  If that
\* fails so does the registration, and nothing changes: a stuttering step.
PortAddEvent(fd, mask) ==
  LET fullmask == mask \union evMask[fd] IN
  IF IsPending(fd)
  THEN /\ evPending' = [evPending EXCEPT ![fd] = @ \union fullmask]
       /\ UNCHANGED evAssoc
  ELSE /\ evAssoc' = [evAssoc EXCEPT ![fd] = fullmask]
       /\ UNCHANGED evPending

RegisterPort(fd, mask) ==
  /\ ~evAborted /\ fd \in evOpen
  /\ PortAddEvent(fd, mask)
  /\ evMask' = [evMask EXCEPT ![fd] = @ \union mask]
  /\ UNCHANGED <<evOpen, evAborted>>

\* loopyInternalDelEvent, which _loopyDeleteFileEvent calls with the mask that
\* still has what is deleted: a pending one loses it, another one is
\* associated for everything again.  (Its other branch, port_dissociate, is
\* for an empty mask, with which it is not called.)
PortDelEvent(fd, mask) ==
  IF IsPending(fd)
  THEN /\ evPending' = [evPending EXCEPT ![fd] = @ \ mask]
       /\ UNCHANGED evAssoc
  ELSE /\ evAssoc' = [evAssoc EXCEPT ![fd] = evMask[fd]]
       /\ UNCHANGED evPending

UnregisterPort(fd, mask) ==
  /\ ~evAborted /\ evMask[fd] # {}
  /\ PortDelEvent(fd, mask)
  /\ evMask' = [evMask EXCEPT ![fd] = @ \ mask]
  /\ UNCHANGED <<evOpen, evAborted>>

\* loopyInternalDelEvent gives up if the kernel refuses to associate it.
UnregisterAborts(fd) ==
  /\ ~evAborted /\ evMask[fd] # {} /\ ~IsPending(fd)
  /\ evAborted' = TRUE
  /\ UNCHANGED <<evOpen, evMask, evAssoc, evPending>>

\* What the poll associates again: nothing that was deleted since.
Reassociated == [fd \in EvFds |-> IF IsPending(fd) THEN evPending[fd] ELSE evAssoc[fd]]

\* loopyInternalPoll: the pending ones are associated again, which is fatal
\* for one that is closed, or that the kernel refuses.
PollAborts ==
  /\ ~evAborted
  /\ \E fd \in EvFds : IsPending(fd)
  /\ evAborted' = TRUE
  /\ UNCHANGED <<evOpen, evMask, evAssoc, evPending>>

\* Then the port reports some, and forgets them, or times out or is
\* interrupted.
PollPort(fired) ==
  /\ ~evAborted
  /\ \A fd \in EvFds : IsPending(fd) => fd \in evOpen
  /\ fired \subseteq {fd \in evOpen : Reassociated[fd] # {}}
  /\ Cardinality(fired) <= EvBatch
  /\ evAssoc' = [fd \in EvFds |-> IF fd \in fired THEN {} ELSE Reassociated[fd]]
  /\ evPending' = [fd \in EvFds |-> IF fd \in fired THEN Reassociated[fd] ELSE {}]
  /\ UNCHANGED <<evOpen, evMask, evAborted>>

\* External: a descriptor that is not registered is closed, which ends its
\* association; its number is used again.
CloseFd(fd) ==
  /\ fd \in evOpen /\ evMask[fd] = {}
  /\ evOpen' = evOpen \ {fd}
  /\ evAssoc' = [evAssoc EXCEPT ![fd] = {}]
  /\ UNCHANGED <<evMask, evPending, evAborted>>

OpenFd(fd) ==
  /\ fd \notin evOpen
  /\ evOpen' = evOpen \union {fd}
  /\ UNCHANGED <<evMask, evAssoc, evPending, evAborted>>

EvNext ==
  \/ \E fd \in EvFds :
       \/ \E mask \in SUBSET EvActions \ {{}} : RegisterPort(fd, mask) \/ UnregisterPort(fd, mask)
       \/ UnregisterAborts(fd) \/ CloseFd(fd) \/ OpenFd(fd)
  \/ PollAborts
  \/ \E fired \in SUBSET EvFds : PollPort(fired)

EvSpec == EvInit /\ [][EvNext]_evVars

-----------------------------------------------------------------------------
(* Properties                                                               *)

\* What is registered is watched, by the kernel or from the next poll on, over
\* every order of reports, registrations and closes: never both ("each fd
\* association is EITHER (a) represented only via the in-kernel association OR
\* (b) represented by pending_fds"), and no more are pending than there is
\* room for.
PortArmed ==
  /\ \A fd \in EvFds : /\ evMask[fd] \subseteq evAssoc[fd] \union evPending[fd]
                       /\ evAssoc[fd] = {} \/ ~IsPending(fd)
  /\ Cardinality({fd \in EvFds : IsPending(fd)}) <= EvBatch

\* "We rely on the fact that our caller has already updated the mask"
\* (loopyAdapterSolaris.c): what is not registered is not watched, and so no
\* closed descriptor is associated again.  Neither holds: the caller updates
\* the mask afterwards.
PortWatchesOnlyRegistered ==
  \A fd \in EvFds : evAssoc[fd] \union evPending[fd] \subseteq evMask[fd]
PortPendingOpen == \A fd \in EvFds : IsPending(fd) => fd \in evOpen
=============================================================================
