---------------------------- MODULE LoopyHandles ----------------------------
(***************************************************************************)
(* The handles that a loop's thread uses and the adapters other than       *)
(* epoll, and what groups of them that solve one problem promise together. *)
(***************************************************************************)
EXTENDS LoopyMaxHeap, LoopyTimer, LoopyIdle, LoopySignal, LoopyProcess, LoopyWatch,
        LoopyFSPoll, LoopyFlock, LoopyStream, LoopyUDP, LoopyPipe, LoopyIoUring, LoopyIoUringPoll,
        LoopyIoUringBuffers, LoopyEvport, LoopyKqueue

\* Callbacks that cancel, free, stop and register one another: a timer is freed
\* once and called only while it lives, until a client cancels a freed one; the
\* loop does not block beside an active idle handle unless its timer could not be
\* registered, and walks over live handles until a callback frees the next or
\* the last one; a registered signal is blocked and read, and a one-shot is
\* called back once (loopyTimer.c, loopyIdle.c, loopySignal.c).
CallbacksExact == TimerFreedOnce /\ IdleExact /\ SignalsExact

\* What is known of files: an inotify event goes only to a watch that has its
\* descriptor, and a watch is alive in the kernel unless its descriptor was
\* shared or its file deleted; a polled entry compares with what its owner was
\* told last, and its timer runs unless a change of the interval lost it; a
\* process without a handle has no lock (loopyWatch.c, loopyFSPoll.c,
\* loopyFlock.c).
FilesExact == WatchExact /\ PollExact /\ FlockExact

\* A stream's bytes and its half-close leave in the order of the calls, and no
\* request is reported twice unless the stream is closed in a queue being
\* drained; loopyUDPSend's datagrams are reported once unless the handle is freed
\* in a callback, and leave in order save those that were sent past a queue;
\* what waits is watched unless its registration failed or its descriptor was
\* replaced; a pipe's reader has a buffer and an open end.  Of what a pipe
\* writes nothing is said (loopyStream.c, loopyUDP.c, loopyPipe.c).
TransfersExact == StreamOrder /\ StreamWatched /\ SendsExact /\ PipeReadSafe

\* No completion of an io_uring operation is lost or doubled, and a callback is
\* handed the buffer that the kernel wrote to, with the exceptions OperationsExact
\* and PooledExact state; a registered descriptor is watched or about to
\* be, unless io_uring's submission queue was full when its completion was
\* processed (loopyAdapterIouring.c, loopyAdapterSolaris.c, loopyAdapterBSD.c).
AdaptersExact == OperationsExact /\ PooledExact /\ PollArmed /\ PortArmed /\ FiltersArmed
=============================================================================
