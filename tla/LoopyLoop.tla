----------------------------- MODULE LoopyLoop -----------------------------
(***************************************************************************)
(* loopy.c with the epoll adapter (loopyAdapterLinux.c): the event loop.   *)
(*                                                                         *)
(* One thread runs loopyMain: a before-sleep callback, one poll, the       *)
(* callbacks of the descriptors that fired, the timers that are due, an    *)
(* after-sleep callback, and again until somebody calls loopyStop or       *)
(* loopyDelete.  Every callback may call back into the loop: register and  *)
(* unregister descriptors (which may move the events array), close a       *)
(* descriptor and get the same number again, add and cancel timers, stop   *)
(* or delete the loop, or run it recursively.  The kernel makes            *)
(* descriptors ready, and time passes, at any moment.                      *)
(*                                                                         *)
(* The C stack is modelled as a stack of activations of loopyDo, each with *)
(* its program counter and the local variables of loopyDo and              *)
(* loopyProcessEvents.                                                     *)
(***************************************************************************)
EXTENDS Integers, Sequences, FiniteSets

CONSTANTS
  Fds,           (* descriptors the client may register                      *)
  Acts,          (* the actions it registers, a subset of {"R", "W"}         *)
  Reopens,       (* those it closes and opens again                          *)
  InitSize,      (* loopyNew(setSize)                                        *)
  Resizes,       (* arguments of loopyResizeSetSize                          *)
  Modes,         (* "all": loopyMain is called, "file": loopyMainFdOnly      *)
  Delays,        (* delays of timers, in clock ticks                         *)
  MaxTimers,     (* bound on the number of distinct deadlines in the wheel   *)
  MaxDoublings,  (* bound on doublings of setSize in one call                *)
  MaxDepth,      (* bound on nested activations of loopyMain                 *)
  NestIn,        (* callbacks from which the client calls loopyMain          *)
  DeleteIn,      (* callbacks from which the client calls loopyDelete        *)
  NestedDelete,  (* TRUE: the client deletes the loop while it runs nested,
                    which the code does not survive: see LoopOutlivesFrames  *)
  HangUps,       (* TRUE: the peer of a descriptor may hang up               *)
  ThreadStops    (* TRUE: another thread may call loopyStop                  *)

Callbacks == {"before", "read", "write", "timer", "after"}

ASSUME FdsAssumption == Fds \subseteq Nat /\ IsFiniteSet(Fds) /\ Reopens \subseteq Fds
ASSUME ActsAssumption == Acts \subseteq {"R", "W"}
ASSUME SizeAssumption == InitSize \in Nat \ {0} /\ Resizes \subseteq Nat
ASSUME DelaysAssumption == Delays \subseteq Nat
ASSUME BoundsAssumption == MaxTimers \in Nat /\ MaxDoublings \in Nat /\ MaxDepth \in Nat \ {0}
ASSUME ClientAssumption ==
  /\ Modes \subseteq {"all", "file"}
  /\ NestIn \subseteq Callbacks /\ DeleteIn \subseteq Callbacks
  /\ NestedDelete \in BOOLEAN /\ HangUps \in BOOLEAN /\ ThreadStops \in BOOLEAN

VARIABLES
  mask,          (* l->events[fd].mask                                       *)
  interest,      (* the epoll set: what the kernel watches for each fd       *)
  heap,          (* l->fdHeap, as the set of descriptors it holds            *)
  maxfd,         (* l->maxfd                                                 *)
  setSize,       (* l->setSize, the length of l->events and l->fired         *)
  arena,         (* which block of memory l->events points to                *)
  fired,         (* l->fired, what the last poll put there                   *)
  wheel,         (* l->timer is not NULL                                     *)
  timers,        (* ticks left of each pending timer; 0 is due, -1 is due for
                    10 microseconds or more                                  *)
  stop,          (* l->stop                                                  *)
  pendingDelete, (* l->pendingDelete                                         *)
  depth,         (* l->processingDepth                                       *)
  live,          (* FALSE once the loop structure was torn down              *)
  asked,         (* history: the activations on the stack that a callback has
                    asked to stop                                            *)
  top,           (* number of activations of loopyDo on the C stack          *)
  frame,         (* those activations: 1 is the outermost, top the running   *)
  ready,         (* kernel: what each descriptor is ready for ("H": hung up) *)
  reused         (* history: descriptors closed and opened again since the
                    last poll, while its events are processed                *)

regVars   == <<mask, interest, heap, maxfd>>
sizeVars  == <<setSize, arena>>
timerVars == <<wheel, timers>>
endVars   == <<stop, pendingDelete, depth, live, asked>>
stackVars == <<top, frame>>
envVars   == <<ready, reused>>
loopVars  == <<regVars, sizeVars, fired, timerVars, endVars, stackVars, envVars>>

Event     == [fd : Fds, mask : SUBSET {"R", "W"}]
NoEvent   == [fd |-> -1, mask |-> {}]
Levels    == 1 .. MaxDepth
TickRange == {-1, 0} \cup UNION {0 .. d : d \in Delays}
Pcs       == {"none", "test", "enter", "poll", "dispatch", "writetest", "timers",
              "leave", "exit"} \cup Callbacks

\* The local variables of loopyDo and loopyProcessEvents: `mode`, `hasTimers`,
\* `shortest` ({} for 0, the ticks left otherwise), `numevents`, `j`, the fd
\* and mask of the event at hand (`cur`), and `fe` (the block it points into).
Frame ==
  [pc : Pcs, mode : {"all", "file"}, hasTimers : BOOLEAN, shortest : SUBSET TickRange,
   numevents : Nat, j : Nat, cur : Event \cup {NoEvent}, fe : Nat]
NewFrame(m, p) ==
  [pc |-> p, mode |-> m, hasTimers |-> FALSE, shortest |-> {},
   numevents |-> 0, j |-> 1, cur |-> NoEvent, fe |-> 0]
NoFrame == NewFrame("all", "none")

LoopTypeOK ==
  /\ mask \in [Fds -> SUBSET Acts]
  /\ interest \in [Fds -> SUBSET Acts]
  /\ heap \subseteq Fds
  /\ maxfd \in Fds \cup {-1}
  /\ setSize \in Nat \ {0}
  /\ arena \in Nat
  /\ fired \in Seq(Event)
  /\ wheel \in BOOLEAN
  /\ timers \subseteq TickRange
  /\ stop \in BOOLEAN /\ pendingDelete \in BOOLEAN /\ live \in BOOLEAN
  /\ depth \in 0 .. MaxDepth
  /\ asked \subseteq Levels
  /\ top \in 0 .. MaxDepth
  /\ frame \in [Levels -> Frame]
  /\ ready \in [Fds -> SUBSET {"R", "W", "H"}]
  /\ reused \subseteq Fds

-----------------------------------------------------------------------------
\* loopyNew / loopyInit: nothing registered, no timer wheel, not running.
LoopInit ==
  /\ mask = [fd \in Fds |-> {}]
  /\ interest = [fd \in Fds |-> {}]
  /\ heap = {}
  /\ maxfd = -1
  /\ setSize = InitSize
  /\ arena = 0
  /\ fired = << >>
  /\ wheel = FALSE
  /\ timers = {}
  /\ stop = FALSE
  /\ pendingDelete = FALSE
  /\ depth = 0
  /\ live = TRUE
  /\ asked = {}
  /\ top = 0
  /\ frame = [i \in Levels |-> NoFrame]
  /\ ready = [fd \in Fds |-> {}]
  /\ reused = {}

-----------------------------------------------------------------------------
(* What the client may call, from outside the loop or from a callback.      *)

F == frame[top]
At(p) == live /\ top > 0 /\ F.pc = p
ClientTurn == live /\ (top > 0 => F.pc \in Callbacks)
PeekMax(h) == IF h = {} THEN -1 ELSE CHOOSE m \in h : \A n \in h : n <= m

\* Mutant: a single doubling, whatever the descriptor.
ConformOnce(fd) ==
  \/ fd < setSize /\ UNCHANGED sizeVars
  \/ /\ fd >= setSize
     /\ setSize' = setSize * 2
     /\ arena' \in {arena, arena + 1}

\* fdConformStorageBounds and fdStorageResize: setSize doubles until it
\* exceeds fd (half of the new size does not); realloc may or may not move
\* the array.
Conform(fd) ==
  \/ fd < setSize /\ UNCHANGED sizeVars
  \/ /\ fd >= setSize
     /\ setSize' \in fd + 1 .. 2 * fd
     /\ \E k \in 1 .. MaxDoublings : setSize' = setSize * 2^k
     /\ arena' \in {arena, arena + 1}

\* loopyResizeSetSize: the new size is asserted to be larger.
Resize(n) ==
  /\ ClientTurn
  /\ n > setSize
  /\ setSize' = n
  /\ arena' \in {arena, arena + 1}
  /\ UNCHANGED <<regVars, fired, timerVars, endVars, stackVars, envVars>>

\* loopyRegisterRead, loopyRegisterWrite: loopyInternalAddEvent merges the
\* new action into the kernel's interest (ADD or MOD), then the mask, the heap
\* and maxfd follow.  A failing epoll_ctl leaves only the larger storage.
Register(fd, a) ==
  /\ ClientTurn
  /\ Conform(fd)
  /\ \/ /\ interest' = [interest EXCEPT ![fd] = mask[fd] \cup {a}]
        /\ mask' = [mask EXCEPT ![fd] = @ \cup {a}]
        /\ heap' = IF mask[fd] = {} THEN heap \cup {fd} ELSE heap
        /\ maxfd' = PeekMax(heap')
     \/ UNCHANGED regVars
  /\ UNCHANGED <<fired, timerVars, endVars, stackVars, envVars>>

\* loopyRegisterWriteIfNoneExists
RegisterWriteIfNoneExists(fd) ==
  "W" \in Acts /\ "W" \notin mask[fd] /\ Register(fd, "W")

\* Mutant: EPOLL_CTL_DEL although one of two actions stays registered.
DelEventAll(fd, as) == interest' = [interest EXCEPT ![fd] = {}]

\* loopyInternalDelEvent: MOD while an action is left, DEL otherwise.
InternalDelEvent(fd, as) == interest' = [interest EXCEPT ![fd] = mask[fd] \ as]

\* loopyUnregisterRead, loopyUnregisterWrite, loopyUnregisterReadWrite
Unregister(fd, as) ==
  /\ ClientTurn
  /\ fd < setSize
  /\ mask[fd] # {}
  /\ InternalDelEvent(fd, as)
  /\ mask' = [mask EXCEPT ![fd] = @ \ as]
  /\ IF mask'[fd] = {}
       THEN heap' = heap \ {fd} /\ maxfd' = PeekMax(heap')
       ELSE UNCHANGED <<heap, maxfd>>
  /\ UNCHANGED <<sizeVars, fired, timerVars, endVars, stackVars, envVars>>

\* The client closes a descriptor it has unregistered, and a new file gets the
\* same number: nothing that was ready is.
Reopen(fd) ==
  /\ ClientTurn
  /\ mask[fd] = {}
  /\ ready' = [ready EXCEPT ![fd] = {}]
  /\ reused' = IF depth = 0 THEN {} ELSE reused \cup {fd}
  /\ UNCHANGED <<regVars, sizeVars, fired, timerVars, endVars, stackVars>>

\* loopyRegisterTimer creates the wheel when it is first needed.
RegisterTimer(d) ==
  /\ ClientTurn
  /\ Cardinality(timers \cup {d}) <= MaxTimers
  /\ wheel' = TRUE
  /\ timers' = timers \cup {d}
  /\ UNCHANGED <<regVars, sizeVars, fired, endVars, stackVars, envVars>>

\* loopyUnregisterTimer
UnregisterTimer(t) ==
  /\ ClientTurn
  /\ t \in timers
  /\ timers' = timers \ {t}
  /\ UNCHANGED <<wheel, regVars, sizeVars, fired, endVars, stackVars, envVars>>

\* loopyStop, which is meant for every activation on the stack.
Stop ==
  /\ ClientTurn
  /\ top > 0
  /\ stop' = TRUE
  /\ asked' = 1 .. top
  /\ UNCHANGED <<pendingDelete, depth, live>>
  /\ UNCHANGED <<regVars, sizeVars, fired, timerVars, stackVars, envVars>>

\* Mutant: deletion is never deferred.
DeleteNow ==
  /\ ClientTurn
  /\ top > 0 => F.pc \in DeleteIn
  /\ top > 1 => NestedDelete
  /\ live' = FALSE
  /\ UNCHANGED <<stop, pendingDelete, depth, asked>>
  /\ UNCHANGED <<regVars, sizeVars, fired, timerVars, stackVars, envVars>>

\* loopyDelete: deferred while events are processed, else loopyDeinit (and the
\* structure is freed, or zeroed if it was not heap allocated).
Delete ==
  /\ ClientTurn
  /\ top > 0 => F.pc \in DeleteIn
  /\ top > 1 => NestedDelete
  /\ IF depth > 0
       THEN pendingDelete' = TRUE /\ stop' = TRUE /\ asked' = 1 .. top /\ UNCHANGED live
       ELSE live' = FALSE /\ UNCHANGED <<pendingDelete, stop, asked>>
  /\ UNCHANGED <<depth, regVars, sizeVars, fired, timerVars, stackVars, envVars>>

\* loopyMain or loopyMainFdOnly is called; loopyDo resets the stop flag,
\* although a callback that runs it may have asked for a stop before.
Main(m) ==
  /\ ClientTurn
  /\ top < MaxDepth
  /\ top > 0 => F.pc \in NestIn /\ (NestedDelete \/ ~pendingDelete)
  /\ top' = top + 1
  /\ frame' = [frame EXCEPT ![top + 1] = NewFrame(m, "test")]
  /\ stop' = FALSE
  /\ UNCHANGED <<pendingDelete, depth, live, asked>>
  /\ UNCHANGED <<regVars, sizeVars, fired, timerVars, envVars>>

-----------------------------------------------------------------------------
(* loopyDo and loopyProcessEvents                                           *)

Goto(p) == [frame EXCEPT ![top].pc = p]
NextEvent == [frame EXCEPT ![top].pc = "dispatch", ![top].j = @ + 1,
                           ![top].cur = NoEvent, ![top].fe = 0]
NextTimer == CHOOSE t \in timers : \A u \in timers : t <= u

\* Mutant: the flag is reset at the top of every iteration.
LoopTestReset ==
  /\ At("test")
  /\ stop' = FALSE
  /\ frame' = Goto("before")
  /\ UNCHANGED <<pendingDelete, depth, live, asked>>
  /\ UNCHANGED <<top, regVars, sizeVars, fired, timerVars, envVars>>

\* while (!l->stop)
LoopTest ==
  /\ At("test")
  /\ frame' = Goto(IF stop THEN "exit" ELSE "before")
  /\ UNCHANGED <<top, regVars, sizeVars, fired, timerVars, endVars, envVars>>

\* Mutant: the loop goes on to poll although the callback stopped it.
BeforeReturnUnchecked ==
  /\ At("before")
  /\ frame' = Goto("enter")
  /\ UNCHANGED <<top, regVars, sizeVars, fired, timerVars, endVars, envVars>>

\* The before-sleep callback returns; it may have stopped the loop.
BeforeReturn ==
  /\ At("before")
  /\ frame' = Goto(IF stop THEN "exit" ELSE "enter")
  /\ UNCHANGED <<top, regVars, sizeVars, fired, timerVars, endVars, envVars>>

\* loopyProcessEvents up to its poll, which is skipped when there is neither a
\* descriptor nor a timer wheel.
Enter ==
  /\ At("enter")
  /\ depth' = depth + 1
  /\ LET hasTimers == wheel /\ F.mode = "all" IN
       frame' = [frame EXCEPT
         ![top].hasTimers = hasTimers,
         ![top].shortest  = IF hasTimers /\ timers # {} THEN {NextTimer} ELSE {},
         ![top].pc        = IF maxfd >= 0 \/ hasTimers THEN "poll" ELSE "timers"]
  /\ UNCHANGED <<stop, pendingDelete, live, asked, top>>
  /\ UNCHANGED <<regVars, sizeVars, fired, timerVars, envVars>>

\* What epoll reports for a watched descriptor, and what loopyInternalPoll
\* makes of it: a hangup or an error is always reported, and becomes WRITE.
Reported(fd) == IF interest[fd] = {} THEN {} ELSE ready[fd] \cap (interest[fd] \cup {"H"})
FiredMask(fd) ==
  (Reported(fd) \cap {"R", "W"}) \cup (IF "H" \in Reported(fd) THEN {"W"} ELSE {})
FiredFds == {fd \in Fds : Reported(fd) # {}}
Orders(S) == {s \in [1 .. Cardinality(S) -> S] : \A i, k \in DOMAIN s : s[i] = s[k] => i = k}

\* epoll_wait returns every ready descriptor, in some order; the entries are
\* copied to l->fired (what lies behind them is visible only to an outer
\* activation, whose numevents may be larger).
PollEvents ==
  /\ At("poll")
  /\ FiredFds # {}
  /\ \E order \in Orders(FiredFds) :
       LET n   == Len(order)
           new == [i \in 1 .. n |-> [fd |-> order[i], mask |-> FiredMask(order[i])]]
       IN /\ fired' = IF top = 1 THEN new ELSE new \o SubSeq(fired, n + 1, Len(fired))
          /\ frame' = [frame EXCEPT ![top].pc = "dispatch", ![top].numevents = n, ![top].j = 1]
  /\ reused' = {}
  /\ UNCHANGED <<top, ready, regVars, sizeVars, timerVars, endVars>>

\* epoll_wait returns nothing: the timeout, which is truncated to milliseconds
\* and so may end within the last tick before the deadline.
PollTimeout ==
  /\ At("poll")
  /\ FiredFds = {}
  /\ \E t \in F.shortest : t <= 1
  /\ frame' = Goto("timers")
  /\ reused' = {}
  /\ UNCHANGED <<top, ready, regVars, sizeVars, fired, timerVars, endVars>>

\* A signal ends epoll_wait (EINTR) when nothing is ready.
PollInterrupted ==
  /\ At("poll")
  /\ FiredFds = {}
  /\ frame' = Goto("timers")
  /\ reused' = {}
  /\ UNCHANGED <<top, ready, regVars, sizeVars, fired, timerVars, endVars>>

\* Mutant: a callback is invoked without looking at the registered mask.
DispatchUnchecked ==
  /\ At("dispatch")
  /\ IF F.j > F.numevents THEN frame' = Goto("timers")
     ELSE LET e == fired[F.j] IN
       frame' = [frame EXCEPT
         ![top].cur = e, ![top].fe = arena,
         ![top].pc = IF "R" \in e.mask THEN "read" ELSE "writetest"]
  /\ UNCHANGED <<top, regVars, sizeVars, fired, timerVars, endVars, envVars>>

\* Mutant: the last event of the batch is left out.
DispatchShort ==
  /\ At("dispatch")
  /\ IF F.j >= F.numevents THEN frame' = Goto("timers")
     ELSE LET e == fired[F.j] IN
       frame' = [frame EXCEPT
         ![top].cur = e, ![top].fe = arena,
         ![top].pc = IF "R" \in mask[e.fd] \cap e.mask THEN "read" ELSE "writetest"]
  /\ UNCHANGED <<top, regVars, sizeVars, fired, timerVars, endVars, envVars>>

\* The loop over l->fired: the read callback is invoked if the descriptor is
\* (still) registered for reading.
Dispatch ==
  /\ At("dispatch")
  /\ IF F.j > F.numevents THEN frame' = Goto("timers")
     ELSE LET e == fired[F.j] IN
       frame' = [frame EXCEPT
         ![top].cur = e, ![top].fe = arena,
         ![top].pc = IF "R" \in mask[e.fd] \cap e.mask THEN "read" ELSE "writetest"]
  /\ UNCHANGED <<top, regVars, sizeVars, fired, timerVars, endVars, envVars>>

\* Mutant: the pointer into the old array is kept.
ReadReturnNoRefetch ==
  /\ At("read")
  /\ frame' = Goto("writetest")
  /\ UNCHANGED <<top, regVars, sizeVars, fired, timerVars, endVars, envVars>>

\* The read callback returns; `fe` is fetched again if the array has moved.
ReadReturn ==
  /\ At("read")
  /\ frame' = [frame EXCEPT ![top].pc = "writetest",
                            ![top].fe = IF arena # F.fe THEN arena ELSE F.fe]
  /\ UNCHANGED <<top, regVars, sizeVars, fired, timerVars, endVars, envVars>>

\* if (fe->mask & write) the write callback is invoked, else the next event.
WriteTest ==
  /\ At("writetest")
  /\ frame' = IF "W" \in mask[F.cur.fd] \cap F.cur.mask
                THEN Goto("write")
                ELSE NextEvent
  /\ UNCHANGED <<top, regVars, sizeVars, fired, timerVars, endVars, envVars>>

WriteReturn ==
  /\ At("write")
  /\ frame' = NextEvent
  /\ UNCHANGED <<top, regVars, sizeVars, fired, timerVars, endVars, envVars>>

\* Mutant: timers only run when the poll has timed out.
TimersRunIdleOnly(f) == f.hasTimers /\ ~stop /\ f.shortest # {} /\ f.numevents = 0

\* When loopyProcessEvents calls timerWheelProcessTimerEvents.
TimersRun(f) ==
  /\ f.hasTimers
  /\ ~stop
  /\ f.shortest # {}
  /\ f.numevents = 0 \/ f.shortest = {-1}

\* timerWheelProcessTimerEvents takes what is due out of the wheel and invokes
\* the callbacks, here as one.
Timers ==
  /\ At("timers")
  /\ IF TimersRun(F) /\ \E t \in timers : t <= 0
       THEN timers' = {t \in timers : t > 0} /\ frame' = Goto("timer")
       ELSE frame' = Goto("leave") /\ UNCHANGED timers
  /\ UNCHANGED <<wheel, top, regVars, sizeVars, fired, endVars, envVars>>

TimerReturn ==
  /\ At("timer")
  /\ frame' = Goto("leave")
  /\ UNCHANGED <<top, regVars, sizeVars, fired, timerVars, endVars, envVars>>

\* Mutant: an early return that forgets to decrement the depth.
LeaveKeepDepth ==
  /\ At("leave")
  /\ depth' = IF stop THEN depth ELSE depth - 1
  /\ frame' = [frame EXCEPT ![top] = NewFrame(F.mode, IF stop THEN "test" ELSE "after")]
  /\ fired' = IF top = 1 THEN << >> ELSE fired
  /\ reused' = IF top = 1 THEN {} ELSE reused
  /\ UNCHANGED <<stop, pendingDelete, live, asked, top>>
  /\ UNCHANGED <<regVars, sizeVars, timerVars, ready>>

\* loopyProcessEvents returns (its locals, and the fired events unless an outer
\* activation can see them, are forgotten), and the after-sleep callback runs unless the
\* loop has been stopped.
Leave ==
  /\ At("leave")
  /\ depth' = depth - 1
  /\ frame' = [frame EXCEPT ![top] = NewFrame(F.mode, IF stop THEN "test" ELSE "after")]
  /\ fired' = IF top = 1 THEN << >> ELSE fired
  /\ reused' = IF top = 1 THEN {} ELSE reused
  /\ UNCHANGED <<stop, pendingDelete, live, asked, top>>
  /\ UNCHANGED <<regVars, sizeVars, timerVars, ready>>

AfterReturn ==
  /\ At("after")
  /\ frame' = Goto("test")
  /\ UNCHANGED <<top, regVars, sizeVars, fired, timerVars, endVars, envVars>>

\* Mutant: a deferred deletion is not completed.
ExitNoDelete ==
  /\ At("exit")
  /\ top' = top - 1
  /\ frame' = [frame EXCEPT ![top] = NoFrame]
  /\ asked' = asked \ {top}
  /\ UNCHANGED <<stop, pendingDelete, depth, live>>
  /\ UNCHANGED <<regVars, sizeVars, fired, timerVars, envVars>>

\* Mutant: loopyDo clears the flag when it returns.
ExitResetsStop ==
  /\ At("exit")
  /\ top' = top - 1
  /\ frame' = [frame EXCEPT ![top] = NoFrame]
  /\ live' = ~pendingDelete
  /\ asked' = asked \ {top}
  /\ stop' = FALSE
  /\ UNCHANGED <<pendingDelete, depth>>
  /\ UNCHANGED <<regVars, sizeVars, fired, timerVars, envVars>>

\* loopyDo completes a deferred deletion and returns.
Exit ==
  /\ At("exit")
  /\ top' = top - 1
  /\ frame' = [frame EXCEPT ![top] = NoFrame]
  /\ live' = ~pendingDelete
  /\ asked' = asked \ {top}
  /\ UNCHANGED <<stop, pendingDelete, depth>>
  /\ UNCHANGED <<regVars, sizeVars, fired, timerVars, envVars>>

-----------------------------------------------------------------------------
(* The environment                                                          *)

\* The kernel: a file becomes ready, or its peer hangs up.
BecomeReady(fd, a) ==
  /\ live
  /\ a \notin ready[fd]
  /\ ready' = [ready EXCEPT ![fd] = @ \cup {a}]
  /\ UNCHANGED <<reused, regVars, sizeVars, fired, timerVars, endVars, stackVars>>

\* A callback reads or writes until the file would block.
Consume(fd, a) ==
  /\ ClientTurn
  /\ a \in ready[fd]
  /\ ready' = [ready EXCEPT ![fd] = @ \ {a}]
  /\ UNCHANGED <<reused, regVars, sizeVars, fired, timerVars, endVars, stackVars>>

\* Time passes, for the wheel and for the deadlines the frames have read.
Older(S) == {IF t > -1 THEN t - 1 ELSE t : t \in S}
Tick ==
  /\ live
  /\ timers # {} \/ \E i \in Levels : frame[i].shortest # {}
  /\ timers' = Older(timers)
  /\ frame' = [i \in Levels |-> [frame[i] EXCEPT !.shortest = Older(@)]]
  /\ UNCHANGED <<wheel, top, regVars, sizeVars, fired, endVars, envVars>>

\* loopyStop from another thread.
ThreadStop ==
  /\ ThreadStops
  /\ live
  /\ stop' = TRUE
  /\ UNCHANGED <<pendingDelete, depth, live, asked>>
  /\ UNCHANGED <<regVars, sizeVars, fired, timerVars, stackVars, envVars>>

ClientOp ==
  \/ \E n \in Resizes : Resize(n)
  \/ \E fd \in Fds, a \in Acts : Register(fd, a) \/ Consume(fd, a)
  \/ \E fd \in Fds : RegisterWriteIfNoneExists(fd)
  \/ \E fd \in Reopens : Reopen(fd)
  \/ \E fd \in Fds, as \in SUBSET Acts \ {{}} : Unregister(fd, as)
  \/ \E d \in Delays : RegisterTimer(d)
  \/ \E t \in timers : UnregisterTimer(t)
  \/ Stop \/ Delete
  \/ \E m \in Modes : Main(m)

LoopStep ==
  \/ LoopTest \/ BeforeReturn \/ Enter
  \/ PollEvents \/ PollTimeout
  \/ Dispatch \/ ReadReturn \/ WriteTest \/ WriteReturn
  \/ Timers \/ TimerReturn \/ Leave \/ AfterReturn \/ Exit

Environment ==
  \/ \E fd \in Fds, a \in Acts \cup (IF HangUps THEN {"H"} ELSE {}) : BecomeReady(fd, a)
  \/ Tick
  \/ PollInterrupted
  \/ ThreadStop

LoopNext == ClientOp \/ LoopStep \/ Environment

\* The loop's thread keeps running, and its callbacks return.  Nothing is
\* assumed of the kernel, of signals, of the clock or of the client.
LoopSpec == LoopInit /\ [][LoopNext]_loopVars /\ WF_loopVars(LoopStep)

-----------------------------------------------------------------------------
(* Properties                                                               *)

\* Whatever the order of (failed) registrations and partial unregistrations,
\* the kernel watches exactly what the client has registered, the heap holds
\* the registered descriptors, and maxfd is the largest of them or -1 (which
\* decides whether loopyProcessEvents polls at all).
Registered == {fd \in Fds : mask[fd] # {}}
RegistryInv ==
  /\ \A fd \in Fds : interest[fd] = mask[fd]
  /\ heap = Registered
  /\ maxfd = PeekMax(Registered)

\* The arrays are large enough for every descriptor that is registered or has
\* fired, and for the number of events one poll can return.
StorageInv ==
  /\ \A fd \in Registered : fd < setSize
  /\ \A i \in DOMAIN fired : fired[i].fd < setSize
  /\ Len(fired) <= setSize

\* When loopyProcessEvents reads fe->mask after the read callback, `fe` points
\* into the current events array, even if the callback made it move.
EventPointerFresh == At("writetest") => F.fe = arena

\* processingDepth counts the activations that are inside loopyProcessEvents.
Processing == {i \in 1 .. top : frame[i].pc \in Pcs \ {"none", "test", "before", "enter", "after", "exit"}}
DepthInv == depth = Cardinality(Processing)

\* The loop structure is not torn down while an activation of loopyDo, which
\* will read it again, is on the stack.  (It is when loopyDelete is called from
\* a sleep callback, or in a nested loopyMain, which frees the loop when it
\* returns, whoever called it.)
LoopOutlivesFrames == top > 0 => live

\* Once a callback has stopped the loop it does not poll again.
StopHeeded == stop /\ top > 0 => F.pc \notin {"enter", "poll"}

\* A stop that a callback asked for is not forgotten by any activation that was
\* on the stack, although a loopyMain that runs from the callback afterwards
\* resets the flag: that one only returns by another stop, so that whoever it
\* returns to finds the flag set and does not poll again.
StopNotForgotten == top > 0 /\ top \in asked => stop /\ F.pc \notin {"enter", "poll"}

\* A callback never runs for an action that an earlier callback of the same
\* batch has unregistered.
Invoked(p) == top > 0 /\ top' = top /\ F.pc # p /\ frame'[top].pc = p
NoCallbackAfterUnregister ==
  [][/\ Invoked("read")  => "R" \in mask[frame'[top].cur.fd]
     /\ Invoked("write") => "W" \in mask[frame'[top].cur.fd]]_loopVars

\* An event is only delivered to the file it happened to: not to a new file
\* that got the descriptor's number after the poll.
NoStaleDispatch ==
  [][Invoked("read") \/ Invoked("write") => frame'[top].cur.fd \notin reused]_loopVars

\* A descriptor that stays registered and ready gets its callback, however
\* many others are ready, unless the loop is stopped or deleted.
CallbackFor(fd, a) == top > 0 /\ F.cur.fd = fd /\ F.pc = (IF a = "R" THEN "read" ELSE "write")
Ended == stop \/ ~live \/ top = 0
ReadyDelivered ==
  \A fd \in Fds, a \in Acts :
    (top > 0 /\ a \in mask[fd] \cap ready[fd])
      ~> (CallbackFor(fd, a) \/ a \notin mask[fd] \cap ready[fd] \/ Ended)

\* A descriptor registered for reading whose peer has hung up is readable (a
\* read returns end of file), and its read callback runs.
HangUpDelivered ==
  \A fd \in Fds :
    (top > 0 /\ "R" \in mask[fd] /\ "H" \in ready[fd])
      ~> (CallbackFor(fd, "R") \/ "R" \notin mask[fd] \/ "H" \notin ready[fd] \/ Ended)

\* A timer that is overdue fires, even when descriptors are always ready.
TimerDelivered ==
  (top > 0 /\ frame[1].mode = "all" /\ -1 \in timers) ~> (-1 \notin timers \/ Ended)

\* The loop returns when its flag is set, whoever sets it, unless a callback runs
\* loopyMain, which resets the flag.  Even then an activation that a callback
\* asked to stop returns: it is held up only while callbacks run loopyMain.
StopReturns ==
  /\ (stop /\ top > 0) ~> (top = 0 \/ ~stop)
  /\ \A k \in Levels : (top = k /\ k \in asked) ~> (top # k)

\* A deferred deletion is carried out.
DeleteCompletes == pendingDelete ~> ~live
=============================================================================
