---------------------------- MODULE AsyncSignal ----------------------------
(***************************************************************************)
(* What a loopyAsync handle promises to the threads that signal it, without *)
(* the pending flag or the file descriptor: every loopyAsyncSend() is       *)
(* covered by a callback that starts after the call, several sends may be   *)
(* covered by one callback, and there are never more callbacks than sends.  *)
(***************************************************************************)
EXTENDS Naturals

CONSTANT Senders

VARIABLES
  alive,   (* the handle has not been freed                     *)
  owed,    (* senders with a call no callback has covered yet   *)
  sends,   (* number of calls of loopyAsyncSend so far          *)
  calls    (* number of callback invocations so far             *)

signalVars == <<alive, owed, sends, calls>>

SignalInit ==
  /\ alive = TRUE
  /\ owed = {}
  /\ sends = 0
  /\ calls = 0

\* A thread calls loopyAsyncSend.
Signal(s) ==
  /\ alive
  /\ owed' = owed \cup {s}
  /\ sends' = sends + 1
  /\ UNCHANGED <<alive, calls>>

\* The callback starts on the loop thread; it sees the effects of every call
\* made so far.  It may run with nothing owed (a send whose write came after
\* an earlier callback had already covered it), but each run uses up a send.
Callback ==
  /\ alive
  /\ calls < sends
  /\ calls' = calls + 1
  /\ owed' = {}
  /\ UNCHANGED <<alive, sends>>

\* The handle is freed: what is still owed will not be delivered.
Close ==
  /\ alive
  /\ alive' = FALSE
  /\ UNCHANGED <<owed, sends, calls>>

SignalNext == (\E s \in Senders : Signal(s)) \/ Callback \/ Close

\* A callback that is owed to some sender eventually starts.
SignalSpec ==
  /\ SignalInit
  /\ [][SignalNext]_signalVars
  /\ WF_signalVars(Callback /\ owed # {})
=============================================================================
