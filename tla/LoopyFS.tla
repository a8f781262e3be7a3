------------------------------- MODULE LoopyFS -------------------------------
(***************************************************************************)
(* loopyFS.c as built without io_uring: requests that run at once in the   *)
(* caller or, with a callback, in a thread pool made for the request (see  *)
(* LoopyWork, of which this keeps the steps that a request can see).       *)
(* Most operations are one system call, which succeeds or fails: "call".   *)
(* Two are loops of system calls, while other processes change what they   *)
(* work on: "scan" of a directory and "copy" of a file.  Names, flags and  *)
(* error texts are left out.  A client frees a request when it is          *)
(* completed, in its callback or later.                                    *)
(***************************************************************************)
EXTENDS Integers, FiniteSets, FiniteSetsExt

CONSTANTS
  FsRequests,
  FsMaxEntries,   (* bound: entries of the directory                         *)
  FsPieces        (* the source of a copy, in pieces of 65536 bytes          *)

ASSUME FsAssumption == FsMaxEntries \in Nat /\ FsPieces \in Nat

FsKinds == {"call", "scan", "copy"}

VARIABLES
  fsReq,          (* the requests                                            *)
  fsPools,        (* thread pools that exist                                 *)
  fsDir,          (* entries the directory has                               *)
  fsCalls         (* history: callbacks of each request                      *)

fsVars == <<fsReq, fsPools, fsDir, fsCalls>>

\* pc is how far the request is; cancelled is req->cancelled and item the flag
\* of its work item; ran, yes and n are history: a system call was made,
\* loopyFSCancel said true, pieces or entries done; room is direntCount's array.
NoRequest == [pc |-> "none", kind |-> "call", async |-> FALSE, cancelled |-> FALSE, item |-> FALSE,
              result |-> "none", ran |-> FALSE, yes |-> FALSE, n |-> 0, room |-> 0]

FsInit ==
  /\ fsReq = [r \in FsRequests |-> NoRequest]
  /\ fsPools = 0
  /\ fsDir \in 0 .. FsMaxEntries
  /\ fsCalls = [r \in FsRequests |-> 0]

FsAt(r, pc) == fsReq[r].pc = pc
SetRequest(r, request) == fsReq' = [fsReq EXCEPT ![r] = request]
Finish(q, result) == [q EXCEPT !.pc = "finished", !.result = result]

\* loopyFSOpen, Read and the others without a callback: fsRunSync.
RequestSync(r, kind) ==
  /\ FsAt(r, "none")
  /\ SetRequest(r, [NoRequest EXCEPT !.pc = "start", !.kind = kind])
  /\ UNCHANGED <<fsPools, fsDir, fsCalls>>

\* With one: fsRunAsync makes a pool and queues the work,
RequestAsync(r, kind) ==
  /\ FsAt(r, "none")
  /\ SetRequest(r, [NoRequest EXCEPT !.pc = "queued", !.kind = kind, !.async = TRUE])
  /\ fsPools' = fsPools + 1
  /\ UNCHANGED <<fsDir, fsCalls>>

\* or fails, with or without the pool, and the request is freed.  So it is if
\* a path cannot be copied.
RequestRefused(r, pooled) ==
  /\ FsAt(r, "none")
  /\ SetRequest(r, [NoRequest EXCEPT !.pc = "freed"])
  /\ fsPools' = IF pooled THEN fsPools + 1 ELSE fsPools
  /\ UNCHANGED <<fsDir, fsCalls>>

\* loopyFSCancel: the flag first,
MarkCancelled(r) ==
  /\ fsReq[r].async /\ fsReq[r].pc \notin {"none", "completed", "freed"}
  /\ ~fsReq[r].cancelled
  /\ SetRequest(r, [fsReq[r] EXCEPT !.cancelled = TRUE])
  /\ UNCHANGED <<fsPools, fsDir, fsCalls>>

\* then loopyWorkCancel, which finds the item if it still waits.
CancelWork(r) ==
  /\ fsReq[r].cancelled /\ FsAt(r, "queued") /\ ~fsReq[r].item
  /\ SetRequest(r, [fsReq[r] EXCEPT !.item = TRUE, !.yes = TRUE])
  /\ UNCHANGED <<fsPools, fsDir, fsCalls>>

\* A worker takes the item,
TakeRequest(r) ==
  /\ FsAt(r, "queued")
  /\ SetRequest(r, [fsReq[r] EXCEPT !.pc = "start"])
  /\ UNCHANGED <<fsPools, fsDir, fsCalls>>

\* and fsWorkCallback begins, unless the item was cancelled; a request that is
\* marked by now does nothing.
StartRequest(r) ==
  /\ FsAt(r, "start")
  /\ LET q == fsReq[r] IN
     SetRequest(r, IF q.item \/ q.cancelled THEN Finish(q, "ECANCELED") ELSE [q EXCEPT !.pc = "run"])
  /\ UNCHANGED <<fsPools, fsDir, fsCalls>>

\* One system call does it.
RunCall(r, ok) ==
  /\ FsAt(r, "run") /\ fsReq[r].kind = "call"
  /\ SetRequest(r, [Finish(fsReq[r], IF ok THEN "ok" ELSE "error") EXCEPT !.ran = TRUE])
  /\ UNCHANGED <<fsPools, fsDir, fsCalls>>

\* LOOPY_FS_SCANDIR: the entries are counted and an array is made for them,
ScanCount(r, ok) ==
  /\ FsAt(r, "run") /\ fsReq[r].kind = "scan"
  /\ SetRequest(r, IF ok THEN [fsReq[r] EXCEPT !.pc = "fill", !.room = fsDir, !.ran = TRUE]
                     ELSE [Finish(fsReq[r], "error") EXCEPT !.ran = TRUE])
  /\ UNCHANGED <<fsPools, fsDir, fsCalls>>

\* and what the directory has now is filled in, as far as there is room.
ScanFill(r) ==
  /\ FsAt(r, "fill")
  /\ SetRequest(r, [Finish(fsReq[r], "ok") EXCEPT !.n = Min({fsDir, fsReq[r].room})])
  /\ UNCHANGED <<fsPools, fsDir, fsCalls>>

\* LOOPY_FS_COPYFILE: the files are opened, or not,
CopyOpen(r, ok) ==
  /\ FsAt(r, "run") /\ fsReq[r].kind = "copy"
  /\ SetRequest(r, IF ok THEN [fsReq[r] EXCEPT !.pc = "copy", !.ran = TRUE]
                     ELSE [Finish(fsReq[r], "error") EXCEPT !.ran = TRUE])
  /\ UNCHANGED <<fsPools, fsDir, fsCalls>>

\* and piece after piece is read and written: until the end, a read that
\* fails or a write that is not complete.
CopyPiece(r, outcome) ==
  /\ FsAt(r, "copy")
  /\ LET q == fsReq[r] IN
     CASE outcome = "fails" -> SetRequest(r, Finish(q, "error"))
       [] outcome = "whole" /\ q.n < FsPieces -> SetRequest(r, [q EXCEPT !.n = @ + 1])
       [] outcome = "whole" /\ q.n = FsPieces -> SetRequest(r, Finish(q, "ok"))
  /\ UNCHANGED <<fsPools, fsDir, fsCalls>>

\* fsAfterWorkCallback, in the loop; a request that ran at once returns.
CompleteRequest(r) ==
  /\ FsAt(r, "finished")
  /\ SetRequest(r, [fsReq[r] EXCEPT !.pc = "completed",
                                !.result = IF fsReq[r].item THEN "ECANCELED" ELSE @])
  /\ fsCalls' = IF fsReq[r].async THEN [fsCalls EXCEPT ![r] = @ + 1] ELSE fsCalls
  /\ UNCHANGED <<fsPools, fsDir>>

\* loopyFSRequestFree
RequestFree(r) ==
  /\ FsAt(r, "completed")
  /\ SetRequest(r, [fsReq[r] EXCEPT !.pc = "freed"])
  /\ UNCHANGED <<fsPools, fsDir, fsCalls>>

\* External: somebody makes or removes an entry.
DirChanges(n) ==
  /\ n # fsDir
  /\ fsDir' = n
  /\ UNCHANGED <<fsReq, fsPools, fsCalls>>

FsNext ==
  \/ \E r \in FsRequests :
       \/ \E kind \in FsKinds : RequestSync(r, kind) \/ RequestAsync(r, kind)
       \/ \E ok \in BOOLEAN : RequestRefused(r, ok) \/ RunCall(r, ok) \/ ScanCount(r, ok) \/ CopyOpen(r, ok)
       \/ \E outcome \in {"whole", "fails"} : CopyPiece(r, outcome)
       \/ MarkCancelled(r) \/ CancelWork(r) \/ TakeRequest(r) \/ StartRequest(r)
       \/ ScanFill(r) \/ CompleteRequest(r) \/ RequestFree(r)
  \/ \E n \in 0 .. FsMaxEntries : DirChanges(n)

FsSpec == FsInit /\ [][FsNext]_fsVars

-----------------------------------------------------------------------------
(* Properties                                                               *)

\* What the client is told is what happened, however cancellation, the worker
\* and the rest of the system interleave: ECANCELED exactly if nothing was
\* executed, always if loopyFSCancel said true; one callback; a copy that
\* succeeded is whole; a directory that grew after it was counted does not
\* overflow the array.
FsExact ==
  \A r \in FsRequests : LET q == fsReq[r] IN
    /\ q.result # "none" => (q.result = "ECANCELED" <=> ~q.ran)
    /\ q.yes => ~q.ran
    /\ q.pc = "completed" => fsCalls[r] = IF q.async THEN 1 ELSE 0
    /\ q.kind = "copy" /\ q.result = "ok" => q.n = FsPieces
    /\ q.kind = "scan" => q.n <= q.room

\* loopyFS.h: "Non-blocking file operations using the thread pool".  The pool
\* of a request should go with it; it does not hold, since nothing frees it.
PoolsReleased ==
  (\A r \in FsRequests : fsReq[r].pc \in {"none", "freed"}) => fsPools = 0
=============================================================================
