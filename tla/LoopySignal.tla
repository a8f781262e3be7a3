----------------------------- MODULE LoopySignal -----------------------------
(***************************************************************************)
(* loopySignal.c, as built on Linux: registered signals are blocked and    *)
(* read from a signalfd by the loop.  Signals arrive at any moment; one    *)
(* that is not blocked takes its default action.  Callbacks register and   *)
(* unregister signals, and may free the handler, where the model ends: the *)
(* code goes on with what was freed.  The system calls of registration may *)
(* fail.                                                                   *)
(***************************************************************************)
EXTENDS Integers, FiniteSets

CONSTANT SgSignals

NoSignal == 0

ASSUME SgAssumption == NoSignal \notin SgSignals

VARIABLES
  sgReg,          (* signals[s]: "no", "oneshot" or "always"                 *)
  sgMask,         (* sh->mask, and the mask that the signalfd has            *)
  sgBlocked,      (* signals that the process blocks                         *)
  sgPending,      (* blocked signals that have arrived                       *)
  sgRun,          (* the signal whose callback is running                    *)
  sgOneshot,      (* isOneshot, saved before the callback                    *)
  sgDangling,     (* the handler was freed by a callback that still runs     *)
  sgCalls,        (* history: callbacks since the registration was made      *)
  sgDefaulted     (* history: a signal arrived and was not blocked           *)

sgVars == <<sgReg, sgMask, sgBlocked, sgPending, sgRun, sgOneshot, sgDangling, sgCalls, sgDefaulted>>

Registered(s) == sgReg[s] # "no"

SgInit ==
  /\ sgReg = [s \in SgSignals |-> "no"]
  /\ sgMask = {} /\ sgBlocked = {} /\ sgPending = {}
  /\ sgRun = NoSignal /\ sgOneshot = FALSE /\ sgDangling = FALSE
  /\ sgCalls = [s \in SgSignals |-> 0]
  /\ sgDefaulted = {}

\* signalRegisterInternal: block, then update the signalfd, each undone when
\* the next fails.
SignalRegister(s, kind) ==
  /\ ~Registered(s)
  /\ sgMask' = sgMask \cup {s}
  /\ sgBlocked' = sgBlocked \cup {s}
  /\ sgReg' = [sgReg EXCEPT ![s] = kind]
  /\ sgCalls' = [sgCalls EXCEPT ![s] = 0]
  /\ UNCHANGED <<sgPending, sgRun, sgOneshot, sgDefaulted, sgDangling>>

\* signalfd failed after the signal was blocked; unblocking it delivers what
\* arrived meanwhile.
SignalRegisterFails(s, arrived) ==
  /\ ~Registered(s)
  /\ sgDefaulted' = IF arrived THEN sgDefaulted \cup {s} ELSE sgDefaulted
  /\ UNCHANGED <<sgReg, sgMask, sgBlocked, sgPending, sgRun, sgOneshot, sgCalls, sgDangling>>

\* loopySignalUnregister: unblocked, so what is pending takes its default
\* action, before the signalfd forgets it.
Unregistered(s) ==
  /\ sgReg' = [sgReg EXCEPT ![s] = "no"]
  /\ sgMask' = sgMask \ {s}
  /\ sgBlocked' = sgBlocked \ {s}
  /\ sgDefaulted' = sgDefaulted \cup (sgPending \cap {s})
  /\ sgPending' = sgPending \ {s}
SignalUnregister(s) ==
  /\ Registered(s)
  /\ Unregistered(s)
  /\ UNCHANGED <<sgRun, sgOneshot, sgCalls, sgDangling>>

\* loopySignalFree unregisters every signal; a handler may be made again.
SignalFree ==
  /\ sgDangling' = (sgRun # NoSignal)
  /\ sgReg' = [s \in SgSignals |-> "no"]
  /\ sgMask' = {} /\ sgBlocked' = {} /\ sgPending' = {}
  /\ sgDefaulted' = sgDefaulted \cup sgPending
  /\ UNCHANGED <<sgRun, sgOneshot, sgCalls>>

\* signalEventCallback reads one signal from the signalfd and calls back.
SignalRead(s) ==
  /\ sgRun = NoSignal
  /\ s \in sgPending \cap sgMask
  /\ sgPending' = sgPending \ {s}
  /\ IF Registered(s)
     THEN /\ sgRun' = s
          /\ sgOneshot' = (sgReg[s] = "oneshot")
          /\ sgCalls' = [sgCalls EXCEPT ![s] = IF @ < 2 THEN @ + 1 ELSE @]
     ELSE UNCHANGED <<sgRun, sgOneshot, sgCalls>>
  /\ UNCHANGED <<sgReg, sgMask, sgBlocked, sgDefaulted, sgDangling>>

\* The callback returns: a one-shot signal that is registered, still or
\* again, is unregistered.
SignalReturn ==
  /\ sgRun # NoSignal
  /\ IF sgOneshot /\ Registered(sgRun)
     THEN Unregistered(sgRun)
     ELSE UNCHANGED <<sgReg, sgMask, sgBlocked, sgPending, sgDefaulted>>
  /\ sgRun' = NoSignal
  /\ UNCHANGED <<sgOneshot, sgCalls, sgDangling>>

\* Somebody sends the process a signal.
Raise(s) ==
  /\ IF s \in sgBlocked
     THEN sgPending' = sgPending \cup {s} /\ UNCHANGED sgDefaulted
     ELSE sgDefaulted' = sgDefaulted \cup {s} /\ UNCHANGED sgPending
  /\ UNCHANGED <<sgReg, sgMask, sgBlocked, sgRun, sgOneshot, sgCalls, sgDangling>>

SgNext ==
  /\ ~sgDangling
  /\ \/ \E s \in SgSignals :
          \/ \E kind \in {"oneshot", "always"} : SignalRegister(s, kind)
          \/ \E arrived \in BOOLEAN : SignalRegisterFails(s, arrived)
          \/ SignalUnregister(s) \/ SignalRead(s) \/ Raise(s)
     \/ SignalReturn \/ SignalFree

SgSpec == SgInit /\ [][SgNext]_sgVars

-----------------------------------------------------------------------------
(* Properties                                                               *)

\* A registered signal is blocked and readable, so that it cannot take its
\* default action, one that is not registered is neither, and a one-shot
\* registration calls back once even if the callback registers it again.
SignalsExact ==
  /\ \A s \in SgSignals : Registered(s) <=> s \in sgMask
  /\ sgBlocked = sgMask /\ sgPending \subseteq sgMask
  /\ \A s \in SgSignals : sgReg[s] = "oneshot" => sgCalls[s] <= 1 /\ (sgCalls[s] = 1 => sgRun = s)

\* The callback runs "making it safe to use loopy APIs" (loopySignal.h).  It does
\* not hold of loopySignalFree: signalEventCallback goes on with the handler.
HandlerSafe == ~sgDangling
=============================================================================
