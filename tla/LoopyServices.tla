--------------------------- MODULE LoopyServices ----------------------------
(***************************************************************************)
(* The services that any thread may call, and what groups of them that     *)
(* solve one problem promise together.                                     *)
(***************************************************************************)
EXTENDS LoopyConcurrencyPool, LoopyConnPool, LoopyRateLimit, LoopyConcurrencyLimiter,
        LoopyPubSub, LoopyClusterRegistry, LoopyDNS, LoopyFS, LoopyChannelAsync

\* Of the limiters of loopyRateLimit.c, the token bucket, the leaky bucket and
\* the sliding window exceed their rate over no stretch of time, and nobody who
\* may enter by the concurrency limit is left asleep.  Nothing is said here of
\* how many a fixed window or a concurrency limit lets in: both may let in more
\* than their maximum (FixedWindowKept and ConcurrencyKept do not hold).
AdmissionExact == RateKept /\ NoStrandedWaiter

\* Requests that complete elsewhere, DNS queries, file operations and the
\* asynchronous operations of a channel, report exactly what happened to them,
\* however threads, callbacks and cancellations interleave.
RequestsExact == DnsExact /\ FsExact /\ AsyncOpsExact
=============================================================================
