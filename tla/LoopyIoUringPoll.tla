-------------------------- MODULE LoopyIoUringPoll ---------------------------
(***************************************************************************)
(* loopyAdapterIouring.c: readiness of descriptors.  A poll request is     *)
(* good for one completion, so loopyInternalPoll makes a new one for each  *)
(* completion it sees; loopyInternalAddEvent and DelEvent remove a request *)
(* of the descriptor and make one with the new mask.  Requests of a        *)
(* descriptor carry the same user_data, so a removal takes any one of      *)
(* them; a removed request completes with -ECANCELED.  The submission      *)
(* queue may be full, and io_uring_enter may fail: the entry then stays in *)
(* the queue.  Clients change masks outside of loopyInternalPoll or in     *)
(* callbacks of file operations that it makes.  The kernel is external.    *)
(***************************************************************************)
EXTENDS Integers, Sequences, SequencesExt, FiniteSets, Bags

CONSTANTS
  UpFds,
  UpQueueSize,    (* entries of the submission queue                         *)
  UpSetSize,      (* l->setSize: completions that a poll looks at            *)
  UpMaxRequests   (* bound: entries, requests and completions at one time    *)

ASSUME UpAssumption == UpSetSize \in Nat

VARIABLES
  upMask,         (* pollMasks (and the mask of l->events)                   *)
  upRing,         (* sq: entries [op, fd, mask]; flight: bag of the requests *)
                  (* the kernel has, <<fd, mask>>; cq: completions           *)
                  (* <<fd, events>>, or <<fd, {"cancel"}>>                   *)
  upPoll,         (* loopyInternalPoll: "out", "submit" or "reap"            *)
  upLeft,         (* completions it still looks at                           *)
  upReady,        (* what each descriptor is ready for                       *)
  upLost          (* history: descriptors that could not be armed again      *)

upVars == <<upMask, upRing, upPoll, upLeft, upReady, upLost>>
Events == {"in", "out"}
Canceled == {"cancel"}
PollAdd(f, mask) == [op |-> "add", fd |-> f, mask |-> mask]
PollRemove(f) == [op |-> "remove", fd |-> f, mask |-> {}]

UpInit ==
  /\ upMask = [f \in UpFds |-> {}]
  /\ upRing = [sq |-> << >>, flight |-> EmptyBag, cq |-> << >>]
  /\ upPoll = "out" /\ upLeft = 0
  /\ upReady = [f \in UpFds |-> {}] /\ upLost = {}

UpRoom == Len(upRing.sq) + BagCardinality(upRing.flight) + Len(upRing.cq) < UpMaxRequests
UpMayCall == upPoll # "submit" /\ UpRoom
PollsOf(ring, f) == {r \in BagToSet(ring.flight) : r[1] = f}

\* External: what becomes of a ring whose first entry the kernel takes.
TakenPoll(ring) ==
  LET e == Head(ring.sq)
      sq == Tail(ring.sq)
  IN IF e.op = "add"
     THEN {[sq |-> sq, flight |-> ring.flight (+) SetToBag({<<e.fd, e.mask>>}), cq |-> ring.cq]}
     ELSE IF PollsOf(ring, e.fd) = {}
     THEN {[sq |-> sq, flight |-> ring.flight, cq |-> ring.cq]}
     ELSE {[sq |-> sq, flight |-> ring.flight (-) SetToBag({r}),
            cq |-> Append(ring.cq, <<e.fd, Canceled>>)] : r \in PollsOf(ring, e.fd)}

\* ioUringAddPoll and ioUringRemovePoll: the outcomes of an entry.  There is no
\* room for it; io_uring_enter fails; or the kernel takes the first entry, which
\* is this one unless others were left.
Refused(ring) == [ring |-> ring, ok |-> FALSE, queued |-> FALSE]
SubmitPoll(ring, e) ==
  LET new == [sq |-> Append(ring.sq, e), flight |-> ring.flight, cq |-> ring.cq] IN
  IF Len(ring.sq) >= UpQueueSize THEN {Refused(ring)}
  ELSE {[ring |-> new, ok |-> FALSE, queued |-> TRUE]} \cup
       {[ring |-> r, ok |-> TRUE, queued |-> TRUE] : r \in TakenPoll(new)}

\* loopyInternalAddEvent: an old request is removed if there is a mask, also if
\* the new one is then refused.
UringAddEvent(f, mask) ==
  /\ UpMayCall
  /\ \E old \in IF upMask[f] # {} THEN SubmitPoll(upRing, PollRemove(f)) ELSE {Refused(upRing)} :
     \E new \in SubmitPoll(old.ring, PollAdd(f, upMask[f] \cup mask)) :
       /\ upRing' = new.ring
       /\ upMask' = IF new.ok THEN [upMask EXCEPT ![f] = @ \cup mask] ELSE upMask
       /\ upLost' = IF new.ok THEN upLost \ {f} ELSE upLost
  /\ UNCHANGED <<upPoll, upLeft, upReady>>

\* loopyInternalDelEvent, which does not look whether the rest was armed.
UringDelEvent(f, mask) ==
  /\ UpMayCall
  /\ upMask[f] \cap mask # {}
  /\ \E old \in SubmitPoll(upRing, PollRemove(f)) :
     \E new \in IF upMask[f] \ mask = {} THEN {old}
                ELSE SubmitPoll(old.ring, PollAdd(f, upMask[f] \ mask)) :
       upRing' = new.ring
  /\ upMask' = [upMask EXCEPT ![f] = @ \ mask]
  /\ UNCHANGED <<upPoll, upLeft, upReady, upLost>>

\* A descriptor becomes ready or is used up,
ReadyChanges(f, ready) ==
  /\ ready # upReady[f]
  /\ upReady' = [upReady EXCEPT ![f] = ready]
  /\ UNCHANGED <<upMask, upRing, upPoll, upLeft, upLost>>

\* and the kernel completes a request for it.
PollCompletes(r) ==
  /\ BagIn(r, upRing.flight) /\ r[2] \cap upReady[r[1]] # {}
  /\ upRing' = [sq |-> upRing.sq, flight |-> upRing.flight (-) SetToBag({r}),
                cq |-> Append(upRing.cq, <<r[1], r[2] \cap upReady[r[1]]>>)]
  /\ UNCHANGED <<upMask, upPoll, upLeft, upReady, upLost>>

\* loopyInternalPoll enters the kernel,
UringPoll ==
  /\ upPoll = "out"
  /\ upPoll' = "submit"
  /\ UNCHANGED <<upMask, upRing, upLeft, upReady, upLost>>

\* which takes the entries that wait one by one,
PollTakes ==
  /\ upPoll = "submit" /\ upRing.sq # << >>
  /\ upRing' \in TakenPoll(upRing)
  /\ UNCHANGED <<upMask, upPoll, upLeft, upReady, upLost>>

\* and comes back with or without an error; the errors that are not of the
\* moment end the poll.
PollEntered(look) ==
  /\ upPoll = "submit"
  /\ LET n == Len(upRing.cq) IN upLeft' = IF ~look THEN 0 ELSE IF n <= UpSetSize THEN n ELSE UpSetSize
  /\ upPoll' = IF upLeft' = 0 THEN "out" ELSE "reap"
  /\ UNCHANGED <<upMask, upRing, upReady, upLost>>

\* Then the completions.  An event is reported for each (-ECANCELED is -125,
\* whose lowest bit is that of IORING_POLL_IN), and a new request made if the
\* descriptor still has a mask; nobody looks whether that succeeds.
PollReaps ==
  /\ upPoll = "reap"
  /\ LET f == Head(upRing.cq)[1]
         rest == [sq |-> upRing.sq, flight |-> upRing.flight, cq |-> Tail(upRing.cq)]
     IN \E new \in IF upMask[f] = {} THEN {Refused(rest)} ELSE SubmitPoll(rest, PollAdd(f, upMask[f])) :
          /\ upRing' = new.ring
          /\ upLost' = IF new.queued \/ upMask[f] = {} THEN upLost \ {f} ELSE upLost \cup {f}
  /\ upLeft' = upLeft - 1
  /\ upPoll' = IF upLeft' = 0 THEN "out" ELSE "reap"
  /\ UNCHANGED <<upMask, upReady>>

UpNext ==
  \/ \E f \in UpFds :
       \/ \E mask \in SUBSET Events \ {{}} : UringAddEvent(f, mask) \/ UringDelEvent(f, mask)
       \/ \E ready \in SUBSET Events : ReadyChanges(f, ready)
  \/ \E r \in BagToSet(upRing.flight) : PollCompletes(r)
  \/ UringPoll \/ PollTakes \/ PollReaps
  \/ \E look \in BOOLEAN : PollEntered(look)

UpSpec == UpInit /\ [][UpNext]_upVars

-----------------------------------------------------------------------------
(* Properties                                                               *)

\* The descriptor is watched for the mask, or will be.
InKernel(ring, f, mask) == \E r \in BagToSet(ring.flight) : r[1] = f /\ mask \subseteq r[2]
InQueues(ring, f, mask) ==
  \/ \E e \in Range(ring.sq) : e.op = "add" /\ e.fd = f /\ mask \subseteq e.mask
  \/ \E c \in Range(ring.cq) : c[1] = f
Armed(ring, f, mask) == InKernel(ring, f, mask) \/ InQueues(ring, f, mask)

\* No readiness is missed: whatever order of changes, completions and polls,
\* and although io_uring_enter fails, a descriptor with a mask has a request
\* for it in the kernel or in the submission queue, or a completion whose
\* processing makes one; the exception is one for which that processing found
\* the queue full (loopyInternalAddEvent, DelEvent, loopyInternalPoll).
PollArmed == \A f \in UpFds \ upLost : upMask[f] # {} => Armed(upRing, f, upMask[f])

\* What is registered is watched between polls (loopyInternalAddEvent returned
\* true).  It does not hold: io_uring_enter takes the first entry, which is an
\* older one after an earlier failure, and the requests that DelEvent and the
\* poll make may be refused without notice.
RegisteredWatched ==
  upPoll = "out" =>
    \A f \in UpFds : upMask[f] # {} =>
      InKernel(upRing, f, upMask[f]) \/ \E c \in Range(upRing.cq) : c[1] = f

\* loopyAdapterIouring.c of loopyInternalAddEvent: "If already monitoring
\* this fd, remove old poll first", so that one request is left.
\* It does not hold: the completion of the removed request is taken for an
\* event, after which the descriptor is armed a second time.
OneRequest ==
  \A f \in UpFds :
    Cardinality(PollsOf(upRing, f)) <= 1 /\ \A r \in PollsOf(upRing, f) : upRing.flight[r] = 1
=============================================================================
