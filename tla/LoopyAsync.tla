---------------------------- MODULE LoopyAsync -----------------------------
(***************************************************************************)
(* loopyAsync.c: waking the event loop from other threads.                 *)
(*                                                                         *)
(* A sender publishes its data, then calls loopyAsyncSend: an atomic       *)
(* compare-and-swap of `pending` from 0 to 1 and, only if that succeeds, a *)
(* write to the eventfd (or self-pipe).  The loop thread sees the          *)
(* descriptor readable, drains it, clears `pending` and runs the callback. *)
(* Each of these is a separate atomic step: any of them may interleave     *)
(* with the steps of every other thread.                                   *)
(***************************************************************************)
EXTENDS Naturals, FiniteSets

CONSTANTS
  Senders,    (* the threads that call loopyAsyncSend              *)
  MaxSends    (* bound on the number of calls of loopyAsyncSend    *)

ASSUME SendersAssumption == IsFiniteSet(Senders)
ASSUME MaxSendsAssumption == MaxSends \in Nat

VARIABLES
  alive,      (* FALSE once loopyAsyncFree has closed the descriptor and
                 released the handle                                       *)
  pending,    (* async->pending                                            *)
  wakeups,    (* value of the eventfd counter / bytes in the pipe          *)
  spc,        (* where each sender is in loopyAsyncSend                    *)
  lpc,        (* where the loop thread is in asyncEventCallback            *)
  owed,       (* history: senders with a call that no callback has covered *)
  sends,      (* history: calls of loopyAsyncSend                          *)
  calls       (* history: invocations of the user callback                 *)

asyncVars == <<alive, pending, wakeups, spc, lpc, owed, sends, calls>>

AsyncTypeOK ==
  /\ alive \in BOOLEAN
  /\ pending \in {0, 1}
  /\ wakeups \in Nat
  /\ spc \in [Senders -> {"idle", "cas", "write"}]
  /\ lpc \in {"poll", "drain", "clear", "call", "cb"}
  /\ owed \subseteq Senders
  /\ sends \in 0 .. MaxSends
  /\ calls \in Nat

-----------------------------------------------------------------------------
\* loopyAsyncNew: the handle starts registered, with nothing pending.
AsyncInit ==
  /\ alive = TRUE
  /\ pending = 0
  /\ wakeups = 0
  /\ spc = [s \in Senders |-> "idle"]
  /\ lpc = "poll"
  /\ owed = {}
  /\ sends = 0
  /\ calls = 0

\* loopyAsyncSend is called.  A caller must not use a handle that was freed.
SendCall(s) ==
  /\ alive
  /\ spc[s] = "idle"
  /\ sends < MaxSends
  /\ spc' = [spc EXCEPT ![s] = "cas"]
  /\ owed' = owed \cup {s}
  /\ sends' = sends + 1
  /\ UNCHANGED <<alive, pending, wakeups, lpc, calls>>

\* Mutant: a plain store, after which every caller writes.
SendStore(s) ==
  /\ spc[s] = "cas"
  /\ pending' = 1
  /\ spc' = [spc EXCEPT ![s] = "write"]
  /\ UNCHANGED <<alive, wakeups, lpc, owed, sends, calls>>

\* The compare-and-exchange: the winner goes on to write, a loser returns.
SendCas(s) ==
  /\ spc[s] = "cas"
  /\ pending' = 1
  /\ spc' = [spc EXCEPT ![s] = IF pending = 0 THEN "write" ELSE "idle"]
  /\ UNCHANGED <<alive, wakeups, lpc, owed, sends, calls>>

\* write() to the descriptor; an EINTR result is retried and changes nothing.
SendWrite(s) ==
  /\ spc[s] = "write"
  /\ wakeups' = wakeups + 1
  /\ spc' = [spc EXCEPT ![s] = "idle"]
  /\ UNCHANGED <<alive, pending, lpc, owed, sends, calls>>

-----------------------------------------------------------------------------
\* The loop's poll reports the descriptor readable and dispatches
\* asyncEventCallback (the registration is level triggered).
PollReadable ==
  /\ alive
  /\ lpc = "poll"
  /\ wakeups > 0
  /\ lpc' = "drain"
  /\ UNCHANGED <<alive, pending, wakeups, spc, owed, sends, calls>>

\* Mutant: the descriptor is not read.
NoDrain ==
  /\ lpc = "drain"
  /\ lpc' = "clear"
  /\ UNCHANGED <<alive, pending, wakeups, spc, owed, sends, calls>>

\* Reading an eventfd takes its whole counter; the pipe is read until empty.
Drain ==
  /\ lpc = "drain"
  /\ wakeups' = 0
  /\ lpc' = "clear"
  /\ UNCHANGED <<alive, pending, spc, owed, sends, calls>>

\* Mutant: the flag stays set after the callback.
NoClearPending ==
  /\ lpc = "clear"
  /\ lpc' = "call"
  /\ UNCHANGED <<alive, pending, wakeups, spc, owed, sends, calls>>

\* atomic_store(&async->pending, 0)
ClearPending ==
  /\ lpc = "clear"
  /\ pending' = 0
  /\ lpc' = "call"
  /\ UNCHANGED <<alive, wakeups, spc, owed, sends, calls>>

\* The user callback starts: it sees what every caller published before.
CallbackStart ==
  /\ lpc = "call"
  /\ lpc' = "cb"
  /\ owed' = {}
  /\ calls' = calls + 1
  /\ UNCHANGED <<alive, pending, wakeups, spc, sends>>

CallbackReturn ==
  /\ lpc = "cb"
  /\ lpc' = "poll"
  /\ UNCHANGED <<alive, pending, wakeups, spc, owed, sends, calls>>

\* loopyAsyncFree, on the loop thread between events or from inside the
\* callback itself.  The caller owes the handle that no send is under way.
AsyncFree ==
  /\ alive
  /\ lpc \in {"poll", "cb"}
  /\ \A s \in Senders : spc[s] = "idle"
  /\ alive' = FALSE
  /\ UNCHANGED <<pending, wakeups, spc, lpc, owed, sends, calls>>

SenderStep(s) == SendCas(s) \/ SendWrite(s)
AsyncLoopStep == PollReadable \/ Drain \/ ClearPending \/ CallbackStart \/ CallbackReturn

AsyncNext ==
  \/ \E s \in Senders : SendCall(s) \/ SenderStep(s)
  \/ AsyncLoopStep
  \/ AsyncFree

\* A thread inside loopyAsyncSend and the loop thread both keep running (the
\* callback returns); nobody is obliged to call loopyAsyncSend or to free.
AsyncFairness ==
  /\ \A s \in Senders : WF_asyncVars(SenderStep(s))
  /\ WF_asyncVars(AsyncLoopStep)

AsyncSpec == AsyncInit /\ [][AsyncNext]_asyncVars /\ AsyncFairness

-----------------------------------------------------------------------------
(* Properties *)

\* The wakeup token is in exactly one place.  `pending` is set if and only if
\* either a sender that won the compare-and-swap is about to write, or the
\* descriptor holds one wakeup, or the loop is between its drain and its
\* clear; and no two of these hold together, so the eventfd counter never
\* exceeds 1 and the pipe never fills however many threads signal.
TokenInv ==
  /\ wakeups \in {0, 1}
  /\ \A s, t \in Senders : spc[s] = "write" /\ spc[t] = "write" => s = t
  /\ \A s \in Senders : spc[s] = "write" =>
       pending = 1 /\ wakeups = 0 /\ lpc \notin {"drain", "clear"}
  /\ wakeups = 1 => pending = 1 /\ lpc # "clear"
  /\ lpc = "drain" => wakeups = 1
  /\ lpc = "clear" => pending = 1
  /\ pending = 1 =>
       wakeups = 1 \/ lpc = "clear" \/ \E s \in Senders : spc[s] = "write"

\* No lost wakeup: while some call of loopyAsyncSend has not been covered by
\* a callback, the callback is on its way: the caller has yet to try the
\* compare-and-swap, a wakeup is being written or waits in the descriptor, or
\* the loop is past its drain and has yet to invoke the callback.
NoLostWakeup ==
  owed # {} =>
    \/ wakeups > 0
    \/ lpc \in {"clear", "call"}
    \/ \E s \in Senders : spc[s] \in {"cas", "write"}

\* Coalescing never invents work: each invocation of the callback, past or on
\* its way, uses up a call of loopyAsyncSend of its own, and so does each
\* caller that has yet to try the compare-and-swap.
Undecided == {s \in Senders : spc[s] = "cas"}
CallbacksBounded ==
  calls + pending + (IF lpc = "call" THEN 1 ELSE 0) + Cardinality(Undecided) <= sends

\* loopyAsyncFree finds the loop thread outside the part of asyncEventCallback
\* that uses the handle, so that the callback may free its own handle.
FreedHandleUnused == ~alive => lpc \in {"poll", "cb"} /\ Undecided = {}

\* The flag-and-descriptor protocol implements the abstract signal, its
\* liveness included.
Abstract == INSTANCE AsyncSignal
ImplementsSignal == Abstract!SignalSpec
=============================================================================
