---------------------------- MODULE LoopyProcess -----------------------------
(***************************************************************************)
(* loopyProcess.c: child processes.  One manager per loop lists them and   *)
(* handles SIGCHLD; it comes with the first process and goes when its list *)
(* is empty.  Children exit at any moment, several at once with one        *)
(* signal.  Exit callbacks spawn and free processes, any of them; where    *)
(* the code then uses freed memory the behaviour ends here.  Pipes,        *)
(* options and exit codes are left out; loopyProcessKill changes nothing   *)
(* here, the child may exit without it.                                    *)
(***************************************************************************)
EXTENDS Integers, Sequences, SequencesExt, FiniteSets

CONSTANT PrProcs

NoProc == "none"

ASSUME PrAssumption == NoProc \notin PrProcs

VARIABLES
  prState,        (* the handle: "none", "owned" or "freed"                  *)
  prList,         (* the chain of processes from mgr->processList            *)
  prStray,        (* chains that no manager has any more                     *)
  prMgr,          (* the loop has a manager                                  *)
  prChild,        (* the child: "none", "runs", "zombie" or "reaped"         *)
  prSigchld,      (* SIGCHLD is pending on the signalfd                      *)
  prReaping,      (* processCheckChildren is running                         *)
  prGone,         (* and its manager has been destroyed                      *)
  prRun,          (* the process whose exit callback is running              *)
  prExits,        (* history: exit callbacks of each process                 *)
  prOrphaned,     (* history: a failed spawn took the list of others         *)
  prFault         (* freed memory was used                                   *)

prVars == <<prState, prList, prStray, prMgr, prChild, prSigchld, prReaping, prGone, prRun,
            prExits, prOrphaned, prFault>>
prChains == <<prList, prStray>>
prCalls == <<prRun, prExits>>
prFaults == <<prOrphaned, prFault>>

PrInit ==
  /\ prState = [p \in PrProcs |-> "none"]
  /\ prList = << >> /\ prStray = {} /\ prMgr = FALSE
  /\ prChild = [p \in PrProcs |-> "none"]
  /\ prSigchld = FALSE /\ prReaping = FALSE /\ prGone = FALSE /\ prRun = NoProc
  /\ prExits = [p \in PrProcs |-> 0]
  /\ prOrphaned = FALSE /\ prFault = FALSE

\* Client code runs in other callbacks of the loop or in an exit callback.
PrMayCall == prReaping => prRun # NoProc

\* loopyProcessSpawn.
Spawn(p) ==
  /\ PrMayCall /\ prState[p] = "none"
  /\ prMgr' = TRUE
  /\ prState' = [prState EXCEPT ![p] = "owned"]
  /\ prChild' = [prChild EXCEPT ![p] = "runs"]
  /\ prList' = <<p>> \o prList
  /\ UNCHANGED <<prStray, prSigchld, prReaping, prGone, prCalls, prFaults>>

\* There is memory for the manager and not for the process.
SpawnNoMemory ==
  /\ PrMayCall
  /\ prMgr' = TRUE
  /\ UNCHANGED <<prState, prChains, prChild, prSigchld, prReaping, prGone, prCalls, prFaults>>

\* loopyProcessFree with a manager: a process without a predecessor is taken
\* for the head of the list, also one that another list began with or that was
\* never in one; what followed it is then the list.
ChainOf(p) ==
  IF \E c \in {prList} \cup prStray : p \in Range(c)
  THEN CHOOSE c \in {prList} \cup prStray : p \in Range(c)
  ELSE <<p>>
UnlinkProcess(p) ==
  LET chain == ChainOf(p)
      rest == RemoveFirst(chain, p) IN
  /\ prList' = IF chain = prList \/ Head(chain) = p THEN rest ELSE prList
  /\ prStray' = IF chain = prList THEN prStray
                ELSE ((prStray \ {chain}) \cup {IF Head(chain) = p THEN prList ELSE rest}) \ {<< >>}
  /\ prMgr' = (prList' # << >>)
  /\ prSigchld' = (prSigchld /\ prMgr')
  /\ prGone' = (prGone \/ (prReaping /\ ~prMgr'))

\* No pipe or no fork: the process is freed before it is in a list, and with it
\* the manager.
SpawnFails(p) ==
  /\ PrMayCall /\ prState[p] = "none"
  /\ UnlinkProcess(p)
  /\ prState' = [prState EXCEPT ![p] = "freed"]
  /\ prOrphaned' = (prOrphaned \/ prList # << >>)
  /\ UNCHANGED <<prChild, prReaping, prCalls, prFault>>

\* loopyProcessFree by the client; a child that runs goes on.
NeighbourFreed(p) ==
  LET c == ChainOf(p) IN
  \E i, j \in DOMAIN c : c[i] = p /\ j \in {i - 1, i + 1} /\ prState[c[j]] = "freed"
ProcessFree(p) ==
  /\ PrMayCall /\ prState[p] = "owned"
  /\ IF prMgr THEN ~NeighbourFreed(p) /\ UnlinkProcess(p)
     ELSE UNCHANGED <<prChains, prMgr, prSigchld, prGone>>
  /\ prState' = [prState EXCEPT ![p] = "freed"]
  /\ UNCHANGED <<prChild, prReaping, prCalls, prFaults>>

\* A child exits.  The signal waits if the manager blocks it, and is ignored
\* otherwise.
ChildExits(p) ==
  /\ prChild[p] = "runs"
  /\ prChild' = [prChild EXCEPT ![p] = "zombie"]
  /\ prSigchld' = prMgr
  /\ UNCHANGED <<prState, prChains, prMgr, prReaping, prGone, prCalls, prFaults>>

\* The loop reads the signal,
Sigchld ==
  /\ prSigchld /\ ~prReaping
  /\ prSigchld' = FALSE
  /\ prReaping' = TRUE
  /\ UNCHANGED <<prState, prChains, prMgr, prChild, prGone, prCalls, prFaults>>

\* and every child that has exited is collected; one that is in the list is
\* marked and its callback runs.
MeetsFreed(p) ==
  \E i \in DOMAIN prList : prState[prList[i]] = "freed" /\ \A j \in 1 .. i : prList[j] # p
Reap(p) ==
  /\ prReaping /\ prRun = NoProc
  /\ prChild[p] = "zombie"
  /\ ~prGone /\ ~MeetsFreed(p)
  /\ prChild' = [prChild EXCEPT ![p] = "reaped"]
  /\ IF p \in Range(prList)
     THEN prRun' = p /\ prExits' = [prExits EXCEPT ![p] = @ + 1]
     ELSE UNCHANGED <<prRun, prExits>>
  /\ UNCHANGED <<prState, prChains, prMgr, prSigchld, prReaping, prGone, prFaults>>

ExitReturn ==
  /\ prRun # NoProc
  /\ prRun' = NoProc
  /\ UNCHANGED <<prState, prChains, prMgr, prChild, prSigchld, prReaping, prGone, prExits, prFaults>>

\* Mutant: some children are collected.
ReapSome ==
  /\ prReaping /\ prRun = NoProc
  /\ prReaping' = FALSE /\ prGone' = FALSE
  /\ UNCHANGED <<prState, prChains, prMgr, prChild, prSigchld, prCalls, prFaults>>

\* waitpid finds no child that has exited.
ReapDone ==
  /\ prReaping /\ prRun = NoProc
  /\ \A p \in PrProcs : prChild[p] # "zombie"
  /\ prReaping' = FALSE /\ prGone' = FALSE
  /\ UNCHANGED <<prState, prChains, prMgr, prChild, prSigchld, prCalls, prFaults>>

\* In the place of a free or of a collection the code follows a pointer to a
\* process that was freed, or to the manager that an exit callback destroyed.
UseFreedProcess ==
  /\ \/ PrMayCall /\ prMgr /\ \E p \in PrProcs : prState[p] = "owned" /\ NeighbourFreed(p)
     \/ /\ prReaping /\ prRun = NoProc
        /\ \E p \in PrProcs : prChild[p] = "zombie" /\ (prGone \/ MeetsFreed(p))
  /\ prFault' = TRUE
  /\ UNCHANGED <<prState, prChains, prMgr, prChild, prSigchld, prReaping, prGone, prCalls, prOrphaned>>

PrNext ==
  /\ ~prFault
  /\ \/ \E p \in PrProcs : Spawn(p) \/ SpawnFails(p) \/ ProcessFree(p) \/ ChildExits(p) \/ Reap(p)
     \/ SpawnNoMemory \/ Sigchld \/ ExitReturn \/ ReapDone \/ UseFreedProcess

PrSpec == PrInit /\ [][PrNext]_prVars

-----------------------------------------------------------------------------
(* Properties                                                               *)

\* No exit is reported twice, and none is lost until a failed spawn has made
\* orphans: the manager lists exactly the processes that clients own, and while
\* one of them has an uncollected child the signal is pending or the collection
\* is under way, one signal standing for many exits, while exit callbacks spawn
\* and free processes (processCheckChildren, loopyProcessFree).
ExitNotLost ==
  /\ \A p \in PrProcs : prExits[p] <= 1 /\ (prExits[p] = 1 => prChild[p] = "reaped")
  /\ ~prOrphaned =>
       /\ Range(prList) = {p \in PrProcs : prState[p] = "owned"}
       /\ \A p \in Range(prList) : prChild[p] = "zombie" => prSigchld \/ prReaping

\* The exit callback will be called (loopyProcess.h): the manager lists every
\* process that its owner has not freed.  It does not hold: a spawn that fails
\* is freed without being listed and takes the list and the manager with it.
ExitReported == \A p \in PrProcs : prState[p] = "owned" => p \in Range(prList)

\* An exit callback may free its process ("Later, in exit callback:
\* loopyProcessFree(process);", loopyProcess.h).  It does not hold for the last
\* one: the manager goes with it, and processCheckChildren goes on with that.
ProcessesSafe == ~prFault
=============================================================================
