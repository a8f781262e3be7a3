----------------------------- MODULE LoopyFlock ------------------------------
(***************************************************************************)
(* loopyFlock.c: flock() locks, and the lock file pattern on top of them.  *)
(* Several processes open one path; the path names a file until it is      *)
(* unlinked, after which the next open makes a new one.  The kernel's      *)
(* flock() locks files, not paths: one exclusive holder, or any number of  *)
(* shared ones; a holder that asks for the other kind gives up what it has *)
(* first.  Byte ranges (fcntl) are left out.  A process has one            *)
(* descriptor, its own or that of a lock file, with one handle at a time,  *)
(* and converts and closes only its own.                                   *)
(***************************************************************************)
EXTENDS Integers, FiniteSets

CONSTANTS
  FkProcs,        (* processes                                               *)
  FkMaxFiles      (* bound on the files that the path names in turn          *)

VARIABLES
  fkPath,         (* the file the path names, 0 for none                     *)
  fkMade,         (* files made so far                                       *)
  fkFile,         (* the file each process has open, 0 for none              *)
  fkMine,         (* processes that opened it themselves: ~ownsFd            *)
  fkLock,         (* the lock it has on it: "none", "shared" or "exclusive"  *)
  fkWant,         (* the lock a call of flock() is waiting for               *)
  fkHandle,       (* its loopyFlock: "none", "plain", "lockfile", "unlinked" *)
  fkValid         (* processes whose handle has valid set                    *)

fkVars == <<fkPath, fkMade, fkFile, fkMine, fkLock, fkWant, fkHandle, fkValid>>

FkInit ==
  /\ fkPath = 0 /\ fkMade = 0
  /\ fkFile = [p \in FkProcs |-> 0]
  /\ fkLock = [p \in FkProcs |-> "none"]
  /\ fkWant = [p \in FkProcs |-> "none"]
  /\ fkHandle = [p \in FkProcs |-> "none"]
  /\ fkMine = {} /\ fkValid = {}

\* External: when flock() grants a lock.
Grantable(p, type) ==
  \A q \in FkProcs \ {p} :
    fkFile[q] = fkFile[p] /\ fkLock[q] # "none" => type = "shared" /\ fkLock[q] = "shared"

\* open(path, O_RDWR | O_CREAT)
OpenPath(p) ==
  /\ fkFile[p] = 0
  /\ IF fkPath = 0
     THEN fkMade < FkMaxFiles /\ fkMade' = fkMade + 1 /\ fkPath' = fkMade + 1
     ELSE UNCHANGED <<fkMade, fkPath>>
  /\ fkFile' = [fkFile EXCEPT ![p] = fkPath']

\* External: a client opens the file for itself, and closes it.
OpenOwn(p) ==
  /\ OpenPath(p)
  /\ fkMine' = fkMine \cup {p}
  /\ UNCHANGED <<fkLock, fkWant, fkHandle, fkValid>>
CloseOwn(p) ==
  /\ p \in fkMine /\ fkHandle[p] = "none"
  /\ fkFile' = [fkFile EXCEPT ![p] = 0]
  /\ fkMine' = fkMine \ {p}
  /\ UNCHANGED <<fkPath, fkMade, fkLock, fkWant, fkHandle, fkValid>>

\* loopyFlockNew on a descriptor of the caller: a handle in the making.
FlockNew(p, type) ==
  /\ p \in fkMine /\ fkHandle[p] = "none"
  /\ fkHandle' = [fkHandle EXCEPT ![p] = "plain"]
  /\ fkWant' = [fkWant EXCEPT ![p] = type]
  /\ UNCHANGED <<fkPath, fkMade, fkFile, fkMine, fkLock, fkValid>>

\* loopyFlockNewLockfile
NewLockfile(p) ==
  /\ OpenPath(p)
  /\ fkHandle' = [fkHandle EXCEPT ![p] = "lockfile"]
  /\ fkWant' = [fkWant EXCEPT ![p] = "exclusive"]
  /\ UNCHANGED <<fkMine, fkLock, fkValid>>

\* flock() succeeds and the handle is valid,
FlockGranted(p) ==
  /\ fkWant[p] # "none" /\ Grantable(p, fkWant[p])
  /\ fkLock' = [fkLock EXCEPT ![p] = fkWant[p]]
  /\ fkWant' = [fkWant EXCEPT ![p] = "none"]
  /\ fkValid' = fkValid \cup {p}
  /\ UNCHANGED <<fkPath, fkMade, fkFile, fkMine, fkHandle>>

\* or fails, because it would block or was interrupted: a handle in the making
\* is freed, and the lock file closed; one whose lock was to be converted is
\* left without a lock.
FlockFails(p) ==
  /\ fkWant[p] # "none"
  /\ fkWant' = [fkWant EXCEPT ![p] = "none"]
  /\ IF p \in fkValid
     THEN UNCHANGED <<fkFile, fkHandle>>
     ELSE /\ fkFile' = [fkFile EXCEPT ![p] = IF p \in fkMine THEN @ ELSE 0]
          /\ fkHandle' = [fkHandle EXCEPT ![p] = "none"]
  /\ UNCHANGED <<fkPath, fkMade, fkMine, fkLock, fkValid>>

\* loopyFlockUpgrade and loopyFlockDowngrade, which know only the descriptor.
Convert(p, type) ==
  /\ fkHandle[p] = "plain" /\ p \in fkValid /\ fkWant[p] = "none"
  /\ fkLock[p] \notin {"none", type}
  /\ fkLock' = [fkLock EXCEPT ![p] = "none"]
  /\ fkWant' = [fkWant EXCEPT ![p] = type]
  /\ UNCHANGED <<fkPath, fkMade, fkFile, fkMine, fkHandle, fkValid>>

\* loopyFlockFreeLockfile: the path is unlinked, whatever it names by now,
Unlink(p) ==
  /\ fkHandle[p] = "lockfile" /\ p \in fkValid
  /\ fkPath' = 0
  /\ fkHandle' = [fkHandle EXCEPT ![p] = "unlinked"]
  /\ UNCHANGED <<fkMade, fkFile, fkMine, fkLock, fkWant, fkValid>>

\* and then, as for other handles, loopyFlockFree releases; it closes what the
\* handle owns.  A lock file whose path could not be kept is not unlinked.
FlockFree(p) ==
  /\ p \in fkValid /\ fkWant[p] = "none"
  /\ fkLock' = [fkLock EXCEPT ![p] = "none"]
  /\ fkFile' = [fkFile EXCEPT ![p] = IF p \in fkMine THEN @ ELSE 0]
  /\ fkHandle' = [fkHandle EXCEPT ![p] = "none"]
  /\ fkValid' = fkValid \ {p}
  /\ UNCHANGED <<fkPath, fkMade, fkMine, fkWant>>

FkNext ==
  \E p \in FkProcs :
    \/ OpenOwn(p) \/ CloseOwn(p) \/ NewLockfile(p)
    \/ \E type \in {"shared", "exclusive"} : FlockNew(p, type) \/ Convert(p, type)
    \/ FlockGranted(p) \/ FlockFails(p)
    \/ Unlink(p) \/ FlockFree(p)

FkSpec == FkInit /\ [][FkNext]_fkVars

-----------------------------------------------------------------------------
(* Properties                                                               *)

\* A lock that nobody answers for is never left behind, nor a file closed that
\* the caller opened: whether a call succeeds, fails or converts, a process that
\* has no handle has no lock, and the file only if it opened it itself; and who
\* got a lock file has it until it frees it, beside no other lock on the file
\* (loopyFlockNew, loopyFlockNewLockfile, loopyFlockFree).
FlockExact ==
  \A p \in FkProcs :
    /\ fkHandle[p] = "none" =>
         fkLock[p] = "none" /\ p \notin fkValid /\ (fkFile[p] # 0 => p \in fkMine)
    /\ p \in fkMine => fkFile[p] # 0
    /\ fkHandle[p] \in {"lockfile", "unlinked"} /\ p \in fkValid => fkLock[p] = "exclusive"
    /\ fkLock[p] = "exclusive" =>
         \A q \in FkProcs \ {p} : fkFile[q] = fkFile[p] => fkLock[q] = "none"

\* At most one process has the lock file: single-instance enforcement, as
\* loopyFlock.h says it is used for.  It does not hold: the path is unlinked
\* before the lock is released, whoever waits for the lock gets one on a file
\* without a name, and the next process makes a new file.
LockfileExclusive ==
  Cardinality({p \in FkProcs : fkHandle[p] = "lockfile" /\ fkLock[p] = "exclusive"}) <= 1
=============================================================================
