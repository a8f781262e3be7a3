# A verification development for loopy

loopy is an event loop library in C: descriptors, timers and callbacks on one
thread, and around that core a wakeup handle for other threads, a thread pool,
channels, pools, rate limits, streams and many thin wrappers of system calls.
This directory holds TLA+ models of its components, TLC configurations that check
them on small instances, and proofs that TLAPS checks for all instances: every
safety property that a passing run checks is also a theorem (two of them under the
hypotheses that section 4 names). Line numbers
below and in `PROJECT.json` refer to the files under `src/src/`.

## 1. Inventory

| Component | State | Operations | What is hard | What makes it correct |
|---|---|---|---|---|
| Event loop (`loopy.c`, `loopyInternal.h`) | events array (mask per descriptor), fired array, max-heap of descriptors, `maxfd`, `setSize`, `stop`, `pendingDelete`, `processingDepth`, timer wheel | register, unregister, resize, timers, `loopyStop`, `loopyDelete`, `loopyMain` / `loopyMainFdOnly`, the body of `loopyDo` and `loopyProcessEvents` | every callback may call back into the loop: move the array under a pointer, unregister what has fired, delete or stop the loop | bookkeeping agrees with the kernel; arrays large enough; no callback after unregistration; deletion deferred until no frame needs the loop, then done; stop heeded; ready descriptors and due timers served |
| epoll adapter (`loopyAdapterLinux.c`) | the kernel's interest set | add, delete, poll | merging actions, hangups, EINTR, timeout truncation | interest equals the registered masks; what is ready is reported |
| Async wakeup (`loopyAsync.c`) | `pending` flag, eventfd counter or pipe | `loopyAsyncSend` (any thread), drain, clear, callback, free | lost and doubled wakeups | at most one wakeup token; no send without a later callback |
| Thread pool (`loopyWork.c`) | pending list, completed list, counters, `shutdown`, one mutex and one condition variable | queue, cancel, cancel all, worker loop, completion delivery on the loop, new, free | lost signals, cancel against a worker, coalesced completions, joining sleepers | items conserved, delivered once, cancellation final, free returns |
| Channels (`loopyChannel.c`) | SPSC ring with cached counters; MPMC ring with mutex; `closed`; pending async operations | send, receive, try, async, select, close, length | stale cached counters, wrap-around, close racing a send or a wait | a bounded FIFO; closed means drained; closing releases every waiter |
| Max-heap (`loopyMaxHeap.c`) | heap array, position map | insert, pop, remove, clear | duplicates and negative values have no place in the map; positions must follow every swap | a multiset with its maximum; no position of an absent value |
| Timers (`loopyTimer.c`) | handles over the timer wheel | create, fire, cancel | cancelling itself or others from a callback | freed once, never called after cancel |
| Idle, prepare, check (`loopyIdle.c`) | three lists, one manager, a wake-up timer | start, stop, restart, free, the two walks | callbacks change the list that is walked | the loop neither blocks beside an idle handle nor spins without one |
| Signals, child processes (`loopySignal.c`, `loopyProcess.c`) | blocked set and signalfd; list of children | register, oneshot, unregister, free; spawn, reap, free | coalesced signals, registration from callbacks, failing spawns | a registered signal is never fatal; no exit lost or doubled |
| File watching, file locks (`loopyWatch.c`, `loopyFSPoll.c`, `loopyFlock.c`) | table of watches; entries with the last state; locks | add, remove; poll; lock, convert, unlink | stale events of reused slots; files changing during callbacks; a path that names another file | an event reaches the watch it was for; no change swallowed; no lock left behind |
| Streams, UDP, pipes (`loopyStream.c`, `loopyUDP.c`, `loopyPipe.c`) | write queues, watchers, connection and shutdown flags | connect, read, write, shutdown, close | partial writes, writing and closing from callbacks | order, exactly one report, what is queued is watched |
| Concurrency pool (`loopyConcurrencyPool.c`) | counters per user and for the pool, limits | acquire (several paths), release, users | reservation in two steps with rollback, limits that change | slots accounted for at every moment |
| Connection pool (`loopyConnPool.c`) | idle list, connections lent, waiters | acquire, release, check, clean up | hand-over to waiters, failing validation | every connection in one place, every waiter answered once |
| Rate and concurrency limiters (`loopyRateLimit.c`) | tokens, window entries, counters | check, peek, reset; acquire, release | atomics beside a mutex, clock steps | the rate over every interval; nobody sleeps beside a free slot |
| Publish/subscribe (`loopyPubSub.c`) | patterns, subscriptions, queues | subscribe, publish, receive, acknowledge | publication against unsubscription, full queues | queues exact, no list names a freed subscription |
| Cluster registry (`loopyClusterRegistry.c`) | nodes, versioned entries | register, heartbeat, set, delete, process | clock read before the lock, writes without it | versions grow; entries go only when due or deleted |
| DNS, filesystem requests (`loopyDNS.c`, `loopyFS.c`) | requests between threads and loop | resolve, cancel; run, cancel, complete | cancellation against a worker, free against both | one place, one callback, the result tells what happened |
| io_uring adapter (`loopyAdapterIouring.c`) | table of operations, two queues, poll masks, groups of buffers | submit, cancel, poll, make and free a pool | table moved by a callback, failing submission, multishot, stale completions, receives that outlive their pool | each operation completes once; registered descriptors stay armed; a callback gets the buffer that was written |
| kqueue and event port adapters | filters; associations and pending descriptors | add, delete, poll | partial failure; descriptors to re-associate | registered descriptors stay armed |
| Sockets, TLS, metrics, mmap, TTY, system information, random numbers, select adapter | little or none | system calls | - | - |

How they interact. `loopyDo` calls the adapter's poll and then the callbacks.
Everything else is a client of registration: an async handle is a descriptor
registered for reading; the thread pool and the asynchronous channel operations
own an async handle, and workers signal it; timers live in the wheel that
`loopyProcessEvents` runs after the descriptors. Two kinds of component remain.
*Services* (pools, limiters, publish/subscribe, cluster registry, DNS, filesystem
requests, channels) are called from any thread or have threads of their own.
*Handles* (timers, idle handles, signals, processes, watches, streams, UDP, pipes)
belong to the loop's thread; what is hard about them is that their callbacks call
back into them, and that the kernel acts meanwhile. Where a callback makes the code
use memory that it has freed, the model says so and the behaviour ends there.

The behaviours that a unit test hardly reaches are listed, each at its line, in
`PROJECT.json` under `hazards`.

## 2. Modules

| Module | Models | Composition |
|---|---|---|
| `AsyncSignal` | abstract: what an async handle promises | |
| `LoopyAsync` | `loopyAsync.c`, each atomic access a step | implements `AsyncSignal` |
| `LoopyLoop` | `loopy.c` with `loopyAdapterLinux.c` | |
| `LoopyLoopProofs` | proofs about `LoopyLoop`: registry and storage, then the activations | |
| `LoopyWork` | `loopyWork.c` | EXTENDS `LoopyAsync`; workers are its senders |
| `LoopyWorkProofs` | proofs about `LoopyAsync`, then about `LoopyWork` | the second use the first |
| `ChannelFifo` | abstract: a bounded FIFO | |
| `LoopyChannelSPSC` | the lock-free ring | implements `ChannelFifo` |
| `LoopyChannelMPMC` | the ring with mutex and condition variables | implements `ChannelFifo` |
| `LoopyChannelSPSCProofs`, `LoopyChannelMPMCProofs` | proofs about the two rings | |
| `LoopyLemmas` | lemmas: least elements, remainders by a divisor that is not a numeral, linked and flattened lists, sums over finite sets | used by the proofs |
| `LoopyChannelAsync` | asynchronous channel operations, select, close and free, over an atomic ring | |
| `LoopyConcurrencyPool`, `LoopyConnPool`, `LoopyRateLimit`, `LoopyConcurrencyLimiter`, `LoopyPubSub`, `LoopyClusterRegistry`, `LoopyDNS`, `LoopyFS` | the file of that name (both limiters: `loopyRateLimit.c`) | services, one disjunct each of `MCComponents` |
| `LoopyServices` | what groups of services promise together | EXTENDS them all |
| `LoopyMaxHeap`, `LoopyTimer`, `LoopyIdle`, `LoopySignal`, `LoopyProcess`, `LoopyWatch`, `LoopyFSPoll`, `LoopyFlock`, `LoopyStream`, `LoopyUDP`, `LoopyPipe` | the file of that name | handles, one disjunct each of `MCComponents` |
| `LoopyHandles` | what groups of handles and adapters promise together | EXTENDS them all |
| `LoopyHandlesProofs` | proofs about the handles | |
| `LoopyServicesProofs` | proofs about the services | |
| `LoopyAdaptersProofs` | proofs about the adapters other than epoll | |
| `LoopyIoUring`, `LoopyIoUringPoll`, `LoopyIoUringBuffers` | `loopyAdapterIouring.c`: operations; poll requests; buffer pools | `MCComponents` |
| `LoopyEvport`, `LoopyKqueue` | `loopyAdapterSolaris.c`, `loopyAdapterBSD.c` | `MCComponents` |
| `MCComponents` | chooses one component at the start and runs it | EXTENDS `LoopyServices`, `LoopyHandles` |
| other `MC*` | the instances TLC runs (that of the SPSC ring needs no module, only a configuration) | |

**LoopyLoop.** The C stack is a stack of activations of `loopyDo`; a frame holds
its program counter and the locals that survive a callback (`numevents`, `j`, the
event at hand, the pointer `fe`, the deadline read before the poll). While the
running frame is in a callback (`ClientTurn`) the client may do anything the API
offers, any number of times, then the callback returns (`BeforeReturn`,
`ReadReturn`, `WriteReturn`, `TimerReturn`, `AfterReturn`). `realloc` may move the
array (`arena` names the block) or not. The heap is the set of its elements (its
array and position map belong to a module of their own). Time is ticks left
until a deadline; `-1` is overdue by the 10 microseconds the code compares with.
A timer callback invocation stands for all the timers due at that moment.
`Reopen` is the client closing an unregistered descriptor whose number is then
given to a new file. `NestIn` and `DeleteIn` name the callbacks from which the
client runs the loop again or deletes it, and `NestedDelete` lets it do both at
once; `asked` is history: which activations a callback has asked to stop. Metrics calls have no effect on control and are left out.

**LoopyAsync.** `loopyAsyncSend` is a call, a compare-and-swap and a write;
`asyncEventCallback` is a drain, a store to `pending` and the callback. `owed`
is history: which senders' calls no callback has covered.

**LoopyWork.** Critical sections of the mutex are steps. A worker that found
nothing to do keeps the mutex until `pthread_cond_wait` ("towait"), because the
error path of `loopyWorkNew` writes `shutdown` and broadcasts without it.
`loopyWorkFree` is called between events of the loop.

**LoopyChannelSPSC.** Counters live in `0 .. Wrap - 1`, where `Wrap` stands for
2^64 and is a multiple of the number of slots as 2^64 is. Each step touches one
location the other thread writes; acquire/release ordering makes interleaving
semantics adequate. A third thread asks for the length in two steps.

**LoopyChannelMPMC.** Critical sections are steps; inside one, `closed` is read
once, so the store outside the mutex commutes with it. A timed wait that ends by
timeout does not swallow a signal, as in glibc. POSIX allows it to; the code
returns without looking at the ring again, so under such an implementation a
second waiter could sleep beside an element until its own timeout.

**LoopyChannelAsync.** Posting an operation (a push under `asyncMutex`) and waking
the loop are two steps of any thread; the loop takes the whole list and tries each
operation once. The ring is a sequence with the statuses of `loopyChannelTrySend`
and `TryRecv`, whose own interleavings the two ring modules check.

**Services.** A section under a lock is a step, and so is each access to an atomic
that decides something; a compare-and-swap loop is one step when what it decided
on is what it swaps. Time is a clock that may advance at any moment; the cluster
registry reads the time of day, and its clock may also be set back. Three
restrictions are the models' own, no header states them: a user of the
concurrency pool is not removed under a running call, a subscriber acknowledges
only what it received, and a client does not use a node or a subscription that it
has given up; section 3 says what the code does otherwise. Everything else that
the API offers happens, also in the middle of a call: a connection pool is freed
while connections are out, the constructor of the DNS resolver fails with workers
running, memory fails. Where the code breaks a promise, of a header or its own, the
property is stated beside the module's others with "It does not hold".

**Handles.** A frame variable says which callback is running; while it does, the
client may call anything, also what leaves the code with a freed structure: an idle
callback frees the next handle, an exit callback the last process, a write callback
closes its stream, a signal's, a watch's or a datagram's callback frees its handle.
The module then records it (`idDangling`, `prGone`, `wtFault` and others) and its
behaviour ends where the code would follow the pointer; its properties speak of
what comes before. Registration with the loop may fail wherever the code ignores
the result. The kernel's part (a child exits, a file
changes, an operation completes, bytes are taken) are actions marked external.

**LoopyIoUring.** The seventy submission functions share one shape, an entry, a
slot, `io_uring_enter`, and are one action; kinds differ in what the kernel makes
of them. `io_uring_enter` may fail and leave the entry in the queue.
`LoopyIoUringBuffers` models the calls that poll until they are answered: making
and freeing a pool of buffers, while receives of that group are armed or completed;
the kernel takes the entries of the queue one by one, so a failing `io_uring_enter`
may have taken some of them. `LoopyIoUringPoll` models the requests by which
descriptors are watched: a submission that finds the queue full or whose
`io_uring_enter` fails, in registration, in unregistration and when a completion is
followed by a new request.

**LoopyMaxHeap.** The two loops that sift an element are rounds: one that would end
the loop changes nothing, and the number of rounds is large enough for every loop
to have ended (the proof shows it).

**MCComponents.** These components share no state, so the run exercises one of
them at a time, chosen in the initial state; the others rest. This is one run and
not twenty-five because nothing is gained by interleaving what cannot interfere.

## 3. Runs

| Run | Instance | Question |
|---|---|---|
| `loop_registry` | descriptors 1 and 2, both actions, `setSize` 1, a resize to 3, both closed and reopened, stops from another thread; 3.4 M states | bookkeeping, storage, the moved array, unregistration inside a batch |
| `loop_life` | descriptors 0 and 1, one timer, stop and delete from read and timer callbacks, a nested `loopyMain` from the timer's; 0.3 M states | deferred deletion, stop and its memory over the nested loop, delivery of events and timers |
| `work` | 2 workers, 3 items, queue limit 2, failing creation; 0.13 M states | the pool and the async handle under it |
| `spsc` | capacity 3, counters wrap at 8, 10 elements; 0.24 M states | FIFO, no shared slot, close |
| `mpmc` | 2 senders, 3 receivers, capacity 2, 3 elements each; 31 k states | FIFO, no lost signal, closed means drained, close |
| `components` | nine services and sixteen handles and adapters, one at a time: 1 to 4 threads or 2 to 4 handles each; 1.12 M states | the invariants below |
| `loop_sleep_delete`, `loop_thread_stop`, `loop_stale_event`, `loop_hangup`, `work_new_fails`, `spsc_close` | the smallest instance that shows it | a comment or document and the code disagree |

What `components` checks, each conjunct stated in its module:

| Property | Says |
|---|---|
| `SlotsAccounted` | the pool's counter is the sum of the users' plus what is between two updates; under a global limit it never exceeds it, whatever is rolled back |
| `ConnPoolExact` | connections neither lost nor lent twice; each request that was queued or served answered once, at the latest by free; also when the pool is freed with connections out, up to the first use of the freed pool |
| `AdmissionExact` | no bucket or sliding window grants more than it should over any interval; no thread sleeps beside a free slot of the concurrency limiter. Nothing about fixed windows, nor about how many the concurrency limiter lets in |
| `PubSubExact` | queues neither lose nor repeat; counts right; no list names a freed subscription |
| `RequestsExact` | DNS queries, file requests and asynchronous channel operations are in one place, have one callback (cancelled queries too), and are reported as what happened; a free leaves no DNS worker asleep |
| `ConfigKept` (action property) | versions grow over all keys; an entry goes only if it was deleted or is due by the latest time the clock has shown |
| `HeapIsMultiset` | the heap is the multiset of its values, ordered, and its map names no absent value |
| `CallbacksExact` | timers freed once, until a freed one is cancelled; the wake-up timer only beside an active idle handle, and beside one unless its last registration failed; walks over live handles until a callback frees the next or the last; a registered signal is blocked and read, a one-shot called once |
| `ExitNotLost` | no exit is reported twice, and none is lost until a failed spawn has made orphans, although signals coalesce |
| `FilesExact` | inotify events reach only a watch with their descriptor, watches are alive unless their descriptor was shared or their file deleted; polled changes are compared with what the owner was told; no lock without a handle, no caller's file closed |
| `TransfersExact` | a stream's bytes in order, no request reported twice unless the stream is closed in a drain; datagrams reported once and in order save those sent past a queue; what is queued is watched unless its registration failed or its descriptor was replaced; a pipe is read only into a live buffer. Nothing about what a pipe writes |
| `AdaptersExact` | each io_uring operation is on its way until its last callback; a pooled receive hands out the memory that was written, and the kernel holds no freed buffer; registered descriptors stay armed with event ports and kqueue, and with io_uring unless a completion found the submission queue full |

Why the bounds are enough. Registry properties relate one descriptor to the
arrays and to one other descriptor (the maximum, an event later in the batch):
two descriptors give every such pair, and sizes 1, 2, 3 and 4 the boundaries of
a doubling, including two doublings in one call. `loop_life` needs a second
descriptor that is always ready (to starve the other, or the timer), one
timer, and two activations: the one that was asked to stop and the one that resets
the flag. In the pool, two workers and a loop thread are enough for every race
between two sides of a hand-over with a third actor interfering; the third item
makes the queue refuse and lets completions coalesce. In the SPSC ring ten elements
take the slots around more than twice and the counters around once; in the MPMC
ring the third receiver overtakes a woken one while another sleeps.
In `components` a race needs two threads and a third party: two callers and the
clock or a limit (pool, limiters), two callers and a worker or loop (requests),
four threads for the concurrency limiter, so that one waits, one is woken, one
overtakes and one releases. Handles come in twos and threes: the one whose
callback runs, the one it acts on, and the one after. The heap holds four values
of six, negative ones and duplicates among them (too few for the branch of a
removal that moves an element up, `loopyMaxHeap.c:339`, which the proof covers);
two stream writes of one and two pieces let one be cut while the other waits or
is added by a callback; three operations let the table of io_uring
grow during a callback; two pools and two receives let a receive outlive its pool
and meet the next one of its group, or a queue that an earlier failure left full. The clock of the cluster registry reaches one tick past
its timeouts, and is set back from there.
`MaxDoublings`, `MaxTimers`, `MaxDepth`, `MaxSends`, `MaxItems` and the constants
whose comment says "bound" are the named bounds; a call that would exceed one is
not made.

CHECK_DEADLOCK is FALSE everywhere because clients may stop calling: a loop may
be deleted, a pool freed, a channel closed and left.

**Fairness.** The loop's thread keeps running and callbacks return
(`WF(LoopStep)`); nothing is assumed of the kernel, of signals, of the clock or
of the client. In `LoopyAsync` a thread inside `loopyAsyncSend` finishes. In the
pool a thread that wants the mutex again and again while it is free again and
again gets it (strong fairness, since "towait" holds the mutex); nobody need
call the API, and spurious wakeups need not occur. In the channels a thread that
is inside a call keeps running and gets the mutex; sleepers need not wake up by
themselves. `components` checks safety only: what must eventually happen there is
stated as "somebody is on the way" (`NoStrandedWaiter`, `DnsExact`, `ExitNotLost`).

**Disagreements found.** Each is a run that TLC refutes and an entry under
`findings`: deletion from a sleep callback is not deferred (`loopy.c:577`); a
stop from another thread neither wakes the poll nor survives the entry to
`loopyMain` (`loopy.c:266`); an event is delivered to a new file under an old
number (`loopy.c:480`); a hangup on a read-only registration reaches nobody
(`loopyAdapterLinux.c:188`); a failing `loopyWorkNew` may never return
(`loopyWork.c:157`); a blocking SPSC receive may say CLOSED with an element left
(`loopyChannel.c:736`).

**Observations without a run.** Named properties are stated in the modules, with
the sentence of the header they come from where there is one, and TLC refutes
them when they are added to the configuration. (`components` itself keeps to what
holds.)

- Loop: a nested `loopyMain` completes a deferred deletion while the outer
  activation still needs the loop (`MaxDepth = 2`, `NestedDelete = TRUE` violates
  `LoopOutlivesFrames`); the after-sleep callback runs after the events, while
  `loopy.h:975-976` says before; a poll timeout beyond 24.8 days is truncated to a
  negative `int` (`loopyAdapterLinux.c:161`).
- Thread pool: `loopyWorkFree` discards completed items without their after-work
  callback; an after-work callback that frees the pool frees what
  `workProcessCompleted` is using.
- Channels: `loopyChannelLen` from a third thread may wrap below zero
  (`LenPlausible`, `loopyChannel.c:267`); asynchronous operations are taken in
  reverse order (`AsyncInOrder`, `:870`), and a receive is called back with EMPTY
  when nothing is there (`ReceiveWaitsForData`); `select` without a timeout on a
  closed SPSC channel never returns.
- Concurrency pool: `maxUsers` is tested outside the lock (`UsersBounded`); a user
  removed while another thread is inside a call with it is used after its free
  (`loopyConcurrencyPool.h` does not forbid it).
- Connection pool: a connection released after `loopyConnPoolFree` reads the freed
  pool, while `loopyConnPool.h:470-472` says that it is destroyed then (`ReleaseSafe`,
  `loopyConnPool.c:449`); `acquireTimeoutUs` is read nowhere, so a request is never
  called back with NULL after that time, as `loopyConnPool.h:302-306` and `:541-546`
  say; a request for which there is no memory is dropped while
  `loopyConnPoolAcquireAsync` returns true (`NoRequestLost`, `:263`); an idle
  connection that fails validation stays counted active (`ActiveCountAgrees`); a
  release that makes room serves no waiter (`NoWaitBesideRoom`).
- Limiters: the fixed window's undo may land in the next window
  (`FixedWindowKept`, `loopyRateLimit.c:449`, against `loopyRateLimit.h:129`); the slow
  path of the concurrency limiter may exceed the limit (`ConcurrencyKept`, `:952`,
  against `loopyRateLimit.h:149`).
- Publish/subscribe: acknowledging the tail while it is not the head clears the
  tail pointer, and the next message replaces the queue (`loopyPubSub.c:501`; the
  model's clients acknowledge in order); automatic acknowledgement returns
  pointers into a message that has been freed (`:474`); a full queue that does not
  drop grows beyond its limit; the subscription limit is tested outside the lock.
- Cluster registry: the clock is the time of day, so an entry that is set after the
  clock went back may be removed at once (`EntryLivesItsTime`,
  `loopyClusterRegistry.c:68`); a node that is seen after the pass read the clock is
  declared failed (`FailedOnlyLate`, `:953`); an entry is read after the lock was
  released (`:576`).
- Timers: cancelling a timer that was freed, a one-shot that has fired or one
  cancelled before, reads and frees freed memory, while `loopyTimer.h:306` says
  "idempotent" (`CancelIdempotent`).
- Idle handles: a callback that frees the next handle, or the last one of all, or an
  idle callback that frees itself and returns false, leaves the walk with freed memory
  (`WalkSafe`, `loopyIdle.c:213-245`); a wake-up timer that cannot be registered is not
  reported and not tried again until the count changes (`PollsAtOnce`, `:193`).
- Signals: `loopySignalFree` from a callback frees what `signalEventCallback` goes on
  with (`HandlerSafe`).
- Child processes: a failing spawn is freed without having been listed, takes the list
  and the manager with it, and the other processes are orphans whose exits nobody
  reports (`ExitReported`, `loopyProcess.c:401`); freeing the last process in its exit
  callback, as the header's example does, frees the manager that
  `processCheckChildren` is using, and freeing orphans follows pointers to freed ones
  (`ProcessesSafe`).
- File watching: two watches of one path, which `loopyWatch.h:174-175` allows, share a
  descriptor of the kernel: events go to the first, and removing either ends both; a
  watch whose file is deleted stays active and hears nothing more, since IN_IGNORED is
  not looked for (`WatchesAlive`, `loopyWatch.c:207`, `:340`); `loopyWatchFree` from a
  callback with events of the batch left uses the freed table (`WatcherSafe`).
- File locks: the lock file is unlinked before it is unlocked, so two processes can
  hold it (`LockfileExclusive`).
- DNS: a cancelled query is called back, against `loopyDNS.h:379-381` and `:419-420`
  (`CancelledSilent`); the failing constructor sets `shutdown` and broadcasts without
  the mutex, and may join a worker that sleeps (`NewReturns`, `loopyDNS.c:233`).
- Streams: `loopyStreamClose` inside a write callback frees what the loop over the
  queue uses (`CloseSafeInCallbacks`, `loopyStream.h:221-222`); a request added by a
  callback of a queue that is drained after an error is freed without a report
  (`WriteReported`); a failed registration is not noticed (`:146`, `:562`), and
  connecting to an IPv6 address replaces the descriptor under a reader or a queue that
  was registered with the old one (`ReaderWatched`, `:464`).
- UDP: `loopyUDPTrySend` and the batch sends overtake what is queued
  (`DatagramsInOrder`, `loopyUDP.c:696`); a failed registration is not noticed
  (`QueueWatched`, `:619`, `:666`); `loopyUDPFree` in a send callback frees what
  `udpProcessSendQueue` uses (`FreeSafeInCallbacks`).
- Pipes: the rest of a write that was taken in part is lost and reported as 0
  (`PipeWriteComplete`); a closed end may stay watched (`PipeClosedNotWatched`), so that
  the loop calls back with a freed pipe, and closing a pipe in its write callback frees
  what the callback's caller writes to (`PipeCloseSafe`, `loopyPipe.c:544`).
- Filesystem: the pool made for each asynchronous request is never freed
  (`PoolsReleased`).
- io_uring: a submission reported as failed may be executed (`FailedNotExecuted`);
  the callback of a zero-copy send comes before the kernel is done
  (`LastCallMeansDone`); a slot is leaked when the table moves during its callback
  (`SlotsReleased`); a registered descriptor may be without a request between polls
  after a failed submission that nobody looks at, for good if the queue was full
  (`RegisteredWatched`, `loopyAdapterIouring.c:2067`, `:2306`); a descriptor may have
  several poll requests (`OneRequest`).
- Buffer pools: a buffer that a receive used is not provided again, so a pool serves
  `bufferCount` receives, while `loopyIoUringBufferPool.h:70` says "Buffer automatically
  returned to pool after callback returns" (`BuffersReturned`); a receive that outlives
  its pool may take a buffer of the group's next one and be called back without an
  address, before `loopyIoUringBufferPoolNew` has entered it in the table
  (`PooledExact` states the case); after a failed submission the kernel may be given
  the buffers of a pool that was freed (`loopyAdapterIouring.c:6521`).
- Polled files: a new interval whose timer cannot be registered ends the polling
  without a report (`loopyFSPoll.c:358`).
- Event ports: what is unregistered may still be watched (`PortWatchesOnlyRegistered`),
  and a descriptor that was closed may be associated again, which aborts the program
  (`PortPendingOpen`, `loopyAdapterSolaris.c:297`). kqueue: `FiltersOnlyRegistered`.

## 4. Proofs

Seven modules hold the theorems and one more (`LoopyLemmas`) lemmas that several
of them need. Every theorem is for all values of the constants that satisfy the
named assumptions; TLC's runs check the same formulas on small instances.

| Property | Run | Theorem |
|---|---|---|
| `TokenInv`, `NoLostWakeup` | `work` | `OneWakeupToken`, `WakeupNeverLost`; in the pool `WorkWakeupsKept` |
| `LoopTypeOK`, `RegistryInv`, `StorageInv`, `EventPointerFresh`, `DepthInv` | `loop_registry`, `loop_life` | `LoopTypeCorrect`, `RegistryConsistent`, `StorageSufficient`, `EventPointerNeverStale`, `DepthIsCount` |
| `NoCallbackAfterUnregister` (action property) | `loop_registry` | `UnregisteredNeverCalled` |
| `StopNotForgotten` | `loop_life` | `StopIsRemembered` |
| `StopHeeded`, `LoopOutlivesFrames` | `loop_life` | `StopIsHeeded`, `DeletionIsDeferred`, under hypotheses |
| `PoolConsistent`, `CancelIsFinal`, `CompletionSignalled` | `work` | `WorkPoolConsistent`, `WorkCancelIsFinal`, `WorkCompletionSignalled` |
| `RingConsistent`, `ImplementsFifo` | `spsc` | `SpscRingConsistent`, `SpscImplementsFifo` |
| `WaitersServed`, `ClosedMeansDrained`, `ImplementsFifo` | `mpmc` | `MpmcWaitersServed`, `MpmcClosedMeansDrained`, `MpmcImplementsFifo` |
| `ExitNotLost`, `FilesExact`, `HeapIsMultiset`, `CallbacksExact`, `TransfersExact` | `components` | `ExitsReportedOnce`, `FilesAreExact`, `MaxHeapIsMultiset`, `CallbacksAreExact`, `TransfersAreExact` |
| `ConnPoolExact`, `PubSubExact`, `ConfigKept` (action property), `RequestsExact`, `SlotsAccounted`, `AdmissionExact` | `components` | `ConnPoolIsExact`, `PubSubIsExact`, `ConfigIsKept`, `RequestsAreExact`, `SlotsAreAccounted`, `AdmissionIsExact` |
| `AdaptersExact` | `components` | `AdaptersAreExact` |

The first part of `LoopyWorkProofs` is about the async handle (any finite set of threads, `SendersAssumption`; any number of
sends each, `MaxSendsAssumption`). `NoLostWakeup` is not inductive: that a wakeup
is on its way depends on the flag, the descriptor's counter and on where each
sender stands between its exchange and its write. `TokenInv` says that there is at
most one wakeup (being written, waiting, or being drained) and that the flag is
set exactly while there is one; with the types, `NoLostWakeup`, the count of
callbacks and "a freed handle is not used" (`AsyncInv`) it is preserved by each atomic step.
`AsyncRefinesSignal` maps the steps to those of `AsyncSignal` (the safety part of
the refinement that TLC checks with its fairness).

`LoopyLoopProofs` (`FdsAssumption`: finitely many descriptors, all natural numbers;
`SizeAssumption`: the initial size is at least one). `RegistryInv` is inductive
with the types of the registry alone: only registration and unregistration touch
it, and each is shown to move mask, kernel interest, heap and `maxfd` together,
the failing `epoll_ctl` included. `StorageInv` needs the registry's invariant: a
poll reports only descriptors the kernel watches, hence registered ones, hence
ones that fit, and a nested poll overwrites a prefix of the array an outer batch
still reads.

The second part of `LoopyLoopProofs` adds the activations (`BoundsAssumption`, `DelaysAssumption`,
`ActsAssumption`, `ClientAssumption`). The inductive invariant `LoopInv` joins the
types, the two invariants above, `DepthInv` and `EventPointerFresh` with
`StackInv`: activations above the running one hold no batch, those below it are
inside a callback, and no batch is longer than the fired events. It is needed
because returning from a nested `loopyMain` resumes the activation below: that
it is in a callback is what makes the count right and its event pointer unused
until it is fetched again. Each action is shown to be one of a few kinds of move
of the running activation (`Moves`), and one lemma shows that every such move
keeps the stack in order; call, return and the passing of time have lemmas of
their own. A second lemma (`StepLeads`) says where a step of the loop may lead and
what entitles it: to `loopyProcessEvents` only without a stop, to the poll only
from there, to a callback only for an action that is registered at that moment.
From it follow that no unregistered action is called (at any nesting), and what is
known of stops and deletions. A stop is remembered at any nesting and whatever other
threads do (`AskedInv`): a nested `loopyMain` resets the flag, but returns only when
it is set again, so the activation that was asked finds it set. Two results have
hypotheses, which are the code's own limits: stops must come from callbacks for the
loop not to poll after one (`~ThreadStops`: another thread's stop may come between
the test and the poll); and a deletion is deferred if it is asked for in a read,
write or timer callback (in a sleep callback it is not: the finding of
`loop_sleep_delete`) while no `loopyMain` runs nested (`~NestedDelete`: a nested one
completes the deletion under the outer activation). `DeferredInv` adds that a
deletion is pending only under the outermost activation.

The second part of `LoopyWorkProofs` (any finite set of workers, any items, any queue limit). Every
step of the pool is a step of its async handle or leaves it alone (`WorkUsesAsync`),
so `AsyncInv` holds in the pool by the lemmas of the first part and the pool
implements `AsyncSignal` (`WorkRefinesSignal`). `WorkInv` joins it with `WorkerInv`
(what a worker holds at each point, and who has the mutex), `StageInv` (how
construction, running and free restrict workers and lists), `ItemInOnePlace`,
`CountsAgree`, `ProgressInv` (how far an item came, by where it is), `CancelIsFinal`
and `CompletionSignalled`. That an item is in one place is the statement that four
cardinalities (places in either list, workers that hold it, callbacks) add up to
one; each step moves one of them by one and another back.

`LoopyChannelSPSCProofs` (every capacity, every number of elements, counters that
wrap at any multiple of the slots). `SpscInv` has three parts besides the types: the
counters are those of the elements sent and received, wrapped, and each cached one
is the other side's of an earlier moment, never so early that a full ring would look
free (`CounterInv`); where a thread copies there is room, or an element (`PlaceInv`), and each slot between the two holds the element that is due
there (`SlotInv`). What makes slots distinct is a fact of remainders: two numbers
less than `Slots` apart have different ones, also across the wrap because `Slots`
divides `Wrap`; the solver knows remainders of numerals only, hence `LoopyLemmas`.
That `Slots`, a power of two, is larger than the capacity is an assumption TLC
evaluates (`SlotsAssumption`), since the exponent is uninterpreted to the prover.

`LoopyChannelMPMCProofs` (any finite sets of senders and receivers). To be inductive
`WaitersServed` counts, where "somebody is on the way" would do for its purpose: its
part `NoLostSignal` says that while anybody sleeps, at least as many threads are on
their way to the mutex as there are elements (for receivers) or free slots (for
senders); a receive that overtakes takes an element away together with the need for
its signal. `MpmcInv` joins it and the types with the ring (`RingInv`), the closing
thread (`CloseInv`), what senders hold (`SenderInv`) and `ClosedMeansDrained`. Both rings implement `ChannelFifo`, whole: it states no
fairness.

`LoopyHandlesProofs`, `LoopyServicesProofs` and `LoopyAdaptersProofs` prove, for any
number of handles, threads, keys, connections and messages:

- *timers* (`TmInv`): no timer has been freed that is still allocated; what holds
  until a client cancels a freed one (`tmStale`).
- *idle handles* (`IdInv`): the counters follow the set of active handles and the
  wake-up timer the counter, unless it was refused; handles are in the list of their
  kind once; a walk goes towards a handle that is still listed, whatever the callback
  unlinked, or `idDangling` says what was freed under it.
- *signals* (`SgInv`): the flag saved before the callback is still right for a
  one-shot registration that has had its call.
- *child processes* (`PrInv`, `PrListInv`): a new process is not in the list, an old
  child is not replaced, and as long as the list is not empty there is a manager to keep
  a signal. `PrListInv` is inductive until a failed spawn takes the list of others; what
  survives that is that no exit is reported twice.
- *connection pool* (`CnInv`): idle and lent connections are disjoint and counted,
  waiting requests are those asked for, not lost and not answered, also while
  `loopyConnPoolFree` answers them one by one. What the maintenance passes keep of the
  list is a recursive function; its facts follow by least counterexample.
- *publish/subscribe* (`PsInv`): for each queue `QueueOK`, which adds to `QueueExact`
  that the tail pointer is set exactly while the queue is not empty and that only the
  head can have been seen, so that an acknowledgement unlinks the head (the client
  rule stated in the module); for the threads `CallInv`: a drawn number is nobody
  else's and in no queue the publisher has still to visit, and those are on and
  occur once, because the lists of different patterns share nothing; for the hub
  `HubInv`.
- *concurrency limiter* (`EnoughComing`): while anybody waits, the slots taken and
  the threads that are woken, hold the mutex or are about to signal are together at
  least as many as there are slots.
- *cluster registry* (`CrInv`): no pass has read a time later than the latest the clock
  has shown, which a clock that is set back leaves alone; no entry has a version still
  to be drawn.
- *DNS queries* (`DnInv`): a query is in one list at one position, or with one worker,
  or has ended; while workers wait, the others are at least as many as the queries
  that are pending, so that no signal is missing. Before the constructor is done no
  query is accepted, so its failure (`dnLife`) strands at most workers, which the
  property excepts.
- *file requests* (`FsInv`): what is known of a request at each point of its way; an
  item that a cancellation marked never runs, so the result says what happened.
- *asynchronous channel operations* (`CaInv`): those on the two lists are there once
  and have been told nothing, all others one thing; a send was told OK exactly if its
  element entered the channel.
- *concurrency pool* (`CpInv`): the sums over users and over threads in a call move
  together, step by step (the lemmas on sums are in `LoopyLemmas`). Under a global
  limit the counter is exact; without one it is exact modulo its width. `CpAssumption`
  excludes requests so large that the sum with the limit overflows `size_t`, which
  the code does not test for.
- *rate limits* (`RlInv`): tokens and what was granted since any earlier request are
  paid for by the capacity and by the time since that request; for the leaky bucket
  all but less than one request drained in advance; the sliding window holds the last
  grants. The fixed window keeps no such rate (`FixedWindowKept` is refuted).
- *watched files* (`WtInv`): an event that waits tells of the file its watch descriptor
  stood for, and the kernel does not use descriptors again; `wtShaky` names those that
  two watches share or whose file was deleted; *polled files* (`FpInv`);
  *file locks* (`FkInv`): what a handle whose lock is still asked for may have.
- *streams and datagrams* (`StInv`, `UdInv`): requests are numbered as they are made,
  the queue holds the last of them, what was sent came before, and nothing that waits
  has been reported but what a drain is past (streams) or the first one in its own
  callback (datagrams). A datagram may leave before an earlier one only if it was sent
  past a queue (`udPast`); what waits is watched, or `stLost` and `udLost` say that a
  registration failed or a descriptor was replaced.
- *max-heap* (`MhInv`, `Sifting`): the map names a value only if it is in the array.
  While an element moves up, it alone may exceed its parent and what is below it does
  not exceed the parent either; likewise downwards. The place moves in one direction
  in each round that does not find the heap ordered, so the loops have ended in time.
- *io_uring operations* (`UoInv`): an operation is in the submission queue, in the
  kernel, or past its last completion, the only one without `more`; each has had one
  slot, which keeps its number until it is used again; where an operation is follows
  from what its client was told.
- *pools of buffers* (`IbInv`): of a group there is at most one operation on its pools
  under way, and it is the one that is waited for; the kernel's list and the
  completions name buffers of the current pool only. That fails after a submission
  that was given up while its entry stayed in the queue: `ibTainted` names the groups
  of such pools, and `PooledExact` says what still holds of them.
- *readiness under io_uring* (`UpInv`): one relation carries the proof, `Keeps(old, new)`:
  what was armed is armed after it, and no completion is gone. It is transitive and holds
  of every entry that the kernel takes and every submission, failing ones included; only
  the processing of a completion loses something, the completion itself, and makes a
  request for it or enters the descriptor in `upLost`.
- *event ports* (`EvInv`), *kqueue* (`KqInv`): "a registered descriptor stays armed" is
  inductive with the types.

What stays with TLC. Liveness (`ReadyDelivered`, `TimerDelivered`, `StopReturns`,
`DeleteCompletes`, `EveryItemDelivered`, `FreeReturns`, `CloseUnblocks`) and the
fairness part of `ImplementsSignal`, whose safety part is `WorkRefinesSignal`: the proof
system does not reason about fairness. That the slots of the SPSC ring exceed its capacity
(`SlotsAssumption`) is evaluated by TLC for the instances. Every other property of a passing run is
a theorem too.

## 5. Not modelled, and the plan

`PROJECT.json` lists every component with its status and what a partly modelled
one leaves out. Left out for good, with the reason:

- thin wrappers of system calls without state between calls: sockets, mmap,
  terminal, system information, random numbers, socket options, UDP
  segmentation, byte-range locks, most filesystem operations (one action stands
  for all that are one call), what each io_uring operation asks the kernel for;
- metrics and statistics (no influence on control);
- the select adapter (two sets copied before each call);
- TLS: mbedTLS is a submodule whose source is not here, and what is here drives it;
- the timer wheel, the topic tree and the allocator (datakit, a submodule): external;
- unit tests, stress tools, benchmarks and examples, which are more than half of the
  repository's lines: they are clients of the library, not parts of it.

What could be added next: a composition of the stream with the loop, in which what is
watched is the registry of `LoopyLoop` and not a set of the stream's own.
