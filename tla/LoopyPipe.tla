------------------------------ MODULE LoopyPipe ------------------------------
(***************************************************************************)
(* loopyPipe.c: a pipe whose ends are read and written through the loop.   *)
(* The kernel's buffer has room for some bytes; the far ends are other     *)
(* users of the descriptors, who fill and empty it, and may keep them open *)
(* when the pipe has closed its own.  The handle has one `loop` field for  *)
(* both ends.  Where the code uses a pipe that was freed the behaviour     *)
(* ends.                                                                   *)
(***************************************************************************)
EXTENDS Integers, FiniteSets

CONSTANTS
  PiRoom,         (* bytes the kernel's buffer can take                      *)
  PiSizes,        (* lengths of a write                                      *)
  PiMaxWrites     (* bound: asynchronous writes                              *)

VARIABLES
  piOpen,         (* the ends that are open, of "read" and "write"           *)
  piFreed,
  piLoop,         (* pipe->loop is set                                       *)
  piReadCb,       (* readCallback is set                                     *)
  piBuffer,       (* readBuffer is allocated                                 *)
  piWatch,        (* the ends the loop watches                               *)
  piFilled,       (* bytes in the kernel's buffer                            *)
  piWrite,        (* the write whose writeCallback is set, 0 if none         *)
  piFrame,        (* the client's callback that runs: "none", "read", "write"*)
  piFault,        (* history: a callback of the loop used a freed pipe       *)
  piLeft,         (* history: bytes of each write not taken by the kernel    *)
  piDone,         (* history: writes reported with status 0                  *)
  piNext          (* history: number of the next write                       *)

piVars == <<piOpen, piFreed, piLoop, piReadCb, piBuffer, piWatch, piFilled, piWrite,
            piFrame, piFault, piLeft, piDone, piNext>>
piHist == <<piLeft, piDone, piNext, piFault>>
PiIds == 1..PiMaxWrites

PiInit ==
  /\ piOpen = {"read", "write"} /\ piFreed = FALSE /\ piLoop = FALSE
  /\ piReadCb = FALSE /\ piBuffer = FALSE /\ piWatch = {} /\ piFilled = 0
  /\ piWrite = 0 /\ piFrame = "none" /\ piFault = FALSE
  /\ piLeft = [i \in PiIds |-> 0] /\ piDone = {} /\ piNext = 1

PiMayCall == ~piFreed

\* loopyPipeReadStart; if the loop refuses, all of it is taken back.
PipeReadStart(registered) ==
  /\ PiMayCall /\ "read" \in piOpen
  /\ piBuffer' = registered /\ piReadCb' = registered /\ piLoop' = registered
  /\ piWatch' = IF registered THEN piWatch \cup {"read"} ELSE piWatch
  /\ UNCHANGED <<piOpen, piFreed, piFilled, piWrite, piFrame, piHist>>

\* loopyPipeReadStop
PipeReadStop ==
  /\ PiMayCall /\ piLoop /\ "read" \in piOpen
  /\ piWatch' = piWatch \ {"read"}
  /\ piBuffer' = FALSE /\ piReadCb' = FALSE /\ piLoop' = FALSE
  /\ UNCHANGED <<piOpen, piFreed, piFilled, piWrite, piFrame, piHist>>

\* The read end is ready: pipeReadEventCallback.
PipeReadable ==
  /\ ~piFreed /\ piFrame = "none" /\ "read" \in piWatch
  /\ piFilled > 0 \/ "write" \notin piOpen
  /\ IF piReadCb THEN piFrame' = "read" /\ piFilled' = 0 ELSE UNCHANGED <<piFrame, piFilled>>
  /\ UNCHANGED <<piOpen, piFreed, piLoop, piReadCb, piBuffer, piWatch, piWrite, piHist>>

\* loopyPipeWriteAsync.  The kernel takes what it has room for; if that is
\* all of it the callback is called at once.  Otherwise the write end is
\* watched (or the loop refuses, and the call fails).  A write that the kernel
\* refuses changes nothing here.
PipeWriteAsync(size, registered) ==
  /\ PiMayCall /\ "write" \in piOpen /\ piNext \in PiIds
  /\ LET taken == IF size <= PiRoom - piFilled THEN size ELSE PiRoom - piFilled IN
     /\ piFilled' = piFilled + taken
     /\ piLeft' = [piLeft EXCEPT ![piNext] = size - taken]
     /\ IF taken = size
        THEN /\ piDone' = piDone \cup {piNext}
             /\ UNCHANGED <<piLoop, piWrite, piWatch>>
        ELSE /\ piLoop' = registered
             /\ piWrite' = IF registered THEN piNext ELSE 0
             /\ piWatch' = IF registered THEN piWatch \cup {"write"} ELSE piWatch
             /\ UNCHANGED piDone
  /\ piNext' = piNext + 1
  /\ UNCHANGED <<piOpen, piFreed, piReadCb, piBuffer, piFrame, piFault>>

\* The write end is ready: pipeWriteEventCallback reports success,
PipeWritable ==
  /\ ~piFreed /\ piFrame = "none" /\ "write" \in piWatch
  /\ piFilled < PiRoom \/ "read" \notin piOpen
  /\ piWatch' = IF piLoop /\ "write" \in piOpen THEN piWatch \ {"write"} ELSE piWatch
  /\ IF piWrite # 0 THEN piDone' = piDone \cup {piWrite} /\ piFrame' = "write"
                    ELSE UNCHANGED <<piDone, piFrame>>
  /\ UNCHANGED <<piOpen, piFreed, piLoop, piReadCb, piBuffer, piFilled, piWrite, piFault, piLeft, piNext>>

\* and forgets the callback, also one that was set meanwhile, in a pipe that
\* its client may have closed.
PipeReturn ==
  /\ piFrame # "none"
  /\ piWrite' = IF piFrame = "write" THEN 0 ELSE piWrite
  /\ piFault' = (piFrame = "write" /\ piFreed)
  /\ piFrame' = "none"
  /\ UNCHANGED <<piOpen, piFreed, piLoop, piReadCb, piBuffer, piWatch, piFilled, piLeft, piDone, piNext>>

\* An end that is still watched becomes ready after the pipe was freed:
\* both callbacks look at the pipe first.
PipeUseFreed ==
  /\ piFreed /\ ~piFault /\ piFrame = "none" /\ piWatch # {}
  /\ piFault' = TRUE
  /\ UNCHANGED <<piOpen, piFreed, piLoop, piReadCb, piBuffer, piWatch, piFilled, piWrite, piFrame,
                 piLeft, piDone, piNext>>

\* loopyPipeCloseRead and loopyPipeCloseWrite
PipeCloseEnd(end) ==
  /\ PiMayCall /\ end \in piOpen
  /\ piOpen' = piOpen \ {end}
  /\ piWatch' = IF piLoop THEN piWatch \ {end} ELSE piWatch
  /\ IF end = "read" THEN piBuffer' = FALSE /\ piReadCb' = FALSE /\ UNCHANGED piWrite
                     ELSE piWrite' = 0 /\ UNCHANGED <<piBuffer, piReadCb>>
  /\ UNCHANGED <<piFreed, piLoop, piFilled, piFrame, piHist>>

\* loopyPipeClose
PipeClose ==
  /\ PiMayCall
  /\ piFreed' = TRUE /\ piOpen' = {}
  /\ piWatch' = IF piLoop THEN piWatch \ piOpen ELSE piWatch
  /\ piBuffer' = FALSE /\ piReadCb' = FALSE /\ piWrite' = 0
  /\ UNCHANGED <<piLoop, piFilled, piFrame, piHist>>

PiNext ==
  \/ \E b \in BOOLEAN :
       \/ PipeReadStart(b)
       \/ \E n \in PiSizes : PipeWriteAsync(n, b)
  \/ \E end \in {"read", "write"} : PipeCloseEnd(end)
  \/ PipeReadStop \/ PipeReadable \/ PipeWritable \/ PipeReturn \/ PipeUseFreed \/ PipeClose

PiSpec == PiInit /\ [][PiNext]_piVars

-----------------------------------------------------------------------------
(* Properties                                                               *)

\* The read end, whatever is called in between and from its own callback:
\* while the loop can call pipeReadEventCallback with a callback set, there
\* is a buffer to read into and an open end to read from.
PipeReadSafe ==
  /\ piReadCb => piBuffer /\ "read" \in piOpen /\ "read" \in piWatch
  /\ piBuffer => piReadCb
  /\ piFreed => ~piReadCb /\ piWrite = 0

\* loopyPipe.h of loopyPipeWriteAsync: "The callback is invoked when the write
\* completes or on error".  A write that was reported with status 0 has
\* been taken by the kernel to the last byte.  It does not hold: the rest of
\* a write that was taken in part is not kept, and its callback says 0.
PipeWriteComplete == \A i \in piDone : piLeft[i] = 0

\* A closed end is not watched by the loop, which would call back for another
\* file of that number.  It does not hold: a registration that fails for one end
\* clears pipe->loop, with which closing the other end would unregister it.
PipeClosedNotWatched == piWatch \subseteq piOpen

\* loopyPipe.h of loopyPipeClose: "Close both ends and free the pipe", after
\* which the loop does not use it.  It does not hold, for that reason and
\* because pipeWriteEventCallback writes to a pipe that its client closed.
PipeCloseSafe == ~piFault
=============================================================================
