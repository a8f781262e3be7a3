----------------------------- MODULE LoopyStream -----------------------------
(***************************************************************************)
(* loopyStream.c: one connecting or connected stream on the loop's thread. *)
(* The loop's callbacks write the queue piece by piece, read, finish a     *)
(* connection and a half-close; between the pieces they call the client,   *)
(* whose calls come from these callbacks or from elsewhere on the thread.  *)
(* A client callback made inside a client's call (by a connection or a     *)
(* shutdown that is immediate, by loopyStreamClose) makes no calls of its  *)
(* own, and clients connect a stream that is not connected or connecting.  *)
(* Addresses and data are left out, and listening streams with them.       *)
(* Where the code goes on with a stream that a client closed in a callback *)
(* the behaviour ends.                                                     *)
(***************************************************************************)
EXTENDS Integers, Sequences, SequencesExt, FiniteSets

CONSTANTS
  StMaxWrites,    (* bound: requests                                         *)
  StSizes         (* lengths of a request                                    *)

ASSUME StAssumption == StMaxWrites \in Nat /\ StSizes \subseteq Nat

VARIABLES
  stConnected, stConnecting, stReadable, stWritable, stReading,
  stShutdownPending, stClosed,
  stQueue,        (* the requests from writeHead, each with what is left     *)
  stSize,         (* writeQueueSize                                          *)
  stNoFd,         (* fd is -1, after loopyStreamConnect found no socket      *)
  stWatch,        (* what the loop watches the descriptor for                *)
  stLost,         (* history: what it was to watch and does not, because it  *)
                  (* could not be registered or the descriptor was replaced  *)
  stFrame,        (* the callback that is running: "none", one of the        *)
                  (* client's, or "writing" in streamWriteCallback itself    *)
  stDrain,        (* the request streamDrainWriteQueue is at, and whether it *)
                  (* saw one after it                                        *)
  stFailed,       (* history: a connection failed; no request since          *)
  stSent,         (* history: the requests whose bytes were sent, in order   *)
  stFdsSent,      (* history: requests whose descriptors were sent           *)
  stNext,         (* history: number of the next request                     *)
  stCalls         (* history: completion callbacks of each request           *)

stVars == <<stConnected, stConnecting, stReadable, stWritable, stReading,
            stShutdownPending, stClosed, stQueue, stSize, stNoFd, stWatch, stLost,
            stFrame, stDrain, stFailed, stSent, stFdsSent, stNext, stCalls>>
stConn == <<stConnected, stConnecting, stFailed, stNoFd>>
stWatched == <<stWatch, stLost>>
stRead == <<stReadable, stReading>>
stHist == <<stSent, stFdsSent, stNext, stCalls>>
StIds == 1..StMaxWrites
Idle == [at |-> 0, more |-> FALSE]

\* loopyStreamFromFd or loopyStreamNewTcp.
StInit ==
  /\ stConnected \in BOOLEAN /\ stConnecting = FALSE
  /\ stReadable = TRUE /\ stWritable = TRUE /\ stReading = FALSE
  /\ stShutdownPending = FALSE /\ stClosed = FALSE
  /\ stQueue = << >> /\ stSize = 0 /\ stNoFd = FALSE /\ stWatch = {} /\ stLost = {}
  /\ stFrame = "none" /\ stDrain = Idle /\ stFailed = FALSE
  /\ stSent = << >> /\ stFdsSent = {} /\ stNext = 1
  /\ stCalls = [i \in StIds |-> 0]

\* Client code runs: elsewhere on the thread or in one of its callbacks.
StMayCall == ~stClosed /\ stFrame # "writing"

\* loopyRegisterRead and loopyRegisterWrite, beside what is watched; nobody
\* looks at their result.
Register(action, watched) ==
  \/ ~stNoFd /\ stWatch' = watched \cup {action} /\ stLost' = stLost \ {action}
  \/ stWatch' = watched /\ stLost' = stLost \cup {action}

\* streamUpdateWriteWatcher, after the step has set what it looks at.
UpdateWriteWatcher(watched) ==
  IF stQueue' # << >> \/ stShutdownPending' \/ stConnecting'
  THEN Register("write", watched)
  ELSE stWatch' = watched \ {"write"} /\ UNCHANGED stLost

\* loopyStreamWrite and, with descriptors, loopyStreamWriteWithFd.
Write(n, fds) ==
  /\ StMayCall /\ ~stNoFd /\ stWritable /\ stNext \in StIds
  /\ stQueue' = Append(stQueue, [id |-> stNext, left |-> n, fds |-> fds])
  /\ stSize' = stSize + n
  /\ stNext' = stNext + 1 /\ stFailed' = FALSE
  /\ UNCHANGED <<stConnected, stConnecting, stNoFd, stRead, stWritable, stShutdownPending, stClosed,
                 stFrame, stDrain, stSent, stFdsSent, stCalls>>
  /\ UpdateWriteWatcher(stWatch)

\* Mutant: it does not look at the queue.
TryWriteBeside ==
  /\ StMayCall /\ stWritable /\ stConnected /\ stNext \in StIds
  /\ stSent' = Append(stSent, stNext)
  /\ stNext' = stNext + 1
  /\ stCalls' = [stCalls EXCEPT ![stNext] = 1]
  /\ UNCHANGED <<stConn, stRead, stWritable, stShutdownPending, stClosed, stQueue,
                 stSize, stWatched, stFrame, stDrain, stFdsSent>>

\* loopyStreamTryWrite sends something; if the queue is not empty, nothing.
TryWrite ==
  /\ StMayCall /\ stWritable /\ stConnected /\ stNext \in StIds
  /\ stQueue = << >>
  /\ stSent' = Append(stSent, stNext)
  /\ stNext' = stNext + 1
  /\ stCalls' = [stCalls EXCEPT ![stNext] = 1]
  /\ UNCHANGED <<stConn, stRead, stWritable, stShutdownPending, stClosed, stQueue,
                 stSize, stWatched, stFrame, stDrain, stFdsSent>>

\* loopyStreamConnect: at once, or later; a failure at once changes nothing.
Connect ==
  /\ StMayCall /\ ~stNoFd /\ ~stConnected /\ ~stConnecting
  /\ \/ stConnected' = TRUE /\ UNCHANGED <<stConnecting, stWatched>>
     \/ stConnecting' = TRUE /\ Register("write", stWatch) /\ UNCHANGED stConnected
  /\ UNCHANGED <<stFailed, stNoFd, stRead, stWritable, stShutdownPending, stClosed, stQueue,
                 stSize, stFrame, stDrain, stHist>>

\* With an IPv6 address the descriptor is replaced first, or there is none any
\* more; what the loop watched the old one for is not watched for on the new.
Connect6 ==
  /\ StMayCall /\ ~stNoFd /\ ~stConnected /\ ~stConnecting
  /\ \/ /\ stConnected' \in BOOLEAN /\ stNoFd' \in BOOLEAN /\ (stNoFd' => ~stConnected')
        /\ stWatch' = {} /\ stLost' = stLost \cup stWatch
        /\ UNCHANGED stConnecting
     \/ /\ stConnecting' = TRUE
        /\ \/ stWatch' = {"write"} /\ stLost' = (stLost \cup stWatch) \ {"write"}
           \/ stWatch' = {} /\ stLost' = stLost \cup stWatch \cup {"write"}
        /\ UNCHANGED <<stConnected, stNoFd>>
  /\ UNCHANGED <<stFailed, stRead, stWritable, stShutdownPending, stClosed, stQueue,
                 stSize, stFrame, stDrain, stHist>>

\* The descriptor is ready to be written while connecting, whichever of the
\* two callbacks is registered: streamConnectCallback.
ConnectDone(ok) ==
  /\ ~stClosed /\ stFrame = "none" /\ "write" \in stWatch /\ stConnecting
  /\ stConnecting' = FALSE /\ stConnected' = ok /\ stFailed' = ~ok
  /\ stFrame' = "connect"
  /\ UNCHANGED <<stRead, stWritable, stShutdownPending, stClosed, stQueue, stSize,
                 stNoFd, stDrain, stHist>>
  /\ IF ok THEN UpdateWriteWatcher(stWatch \ {"write"})
     ELSE stWatch' = stWatch \ {"write"} /\ UNCHANGED stLost

\* loopyStreamReadStart (or ReadStartWithFd) and loopyStreamReadStop
ReadStart ==
  /\ StMayCall /\ ~stNoFd /\ stReadable
  /\ stReading' = TRUE
  /\ Register("read", stWatch)
  /\ UNCHANGED <<stConn, stReadable, stWritable, stShutdownPending, stClosed,
                 stQueue, stSize, stFrame, stDrain, stHist>>

ReadStop ==
  /\ StMayCall /\ stReading
  /\ stReading' = FALSE
  /\ stWatch' = stWatch \ {"read"} /\ UNCHANGED stLost
  /\ UNCHANGED <<stConn, stReadable, stWritable, stShutdownPending, stClosed,
                 stQueue, stSize, stFrame, stDrain, stHist>>

\* streamReadCallback: data, the end of it, or an error for the client.
ReadReady(eof) ==
  /\ ~stClosed /\ stFrame = "none" /\ "read" \in stWatch
  /\ stReading
  /\ stReadable' = (stReadable /\ ~eof)
  /\ stFrame' = "read"
  /\ UNCHANGED <<stConn, stReading, stWritable, stShutdownPending, stClosed,
                 stQueue, stSize, stWatched, stDrain, stHist>>

\* streamWriteCallback begins,
WriteReady ==
  /\ ~stClosed /\ stFrame = "none" /\ "write" \in stWatch /\ ~stConnecting
  /\ stFrame' = "writing"
  /\ UNCHANGED <<stConn, stRead, stWritable, stShutdownPending, stClosed, stQueue,
                 stSize, stWatched, stDrain, stHist>>

\* the kernel takes n bytes of the first request; descriptors go with the
\* first of them; a request that is sent is removed and reported,
WriteSome(n) ==
  /\ stFrame = "writing" /\ stConnected /\ stQueue # << >>
  /\ LET r == Head(stQueue) IN
     /\ n <= r.left
     /\ stSize' = stSize - n
     /\ stSent' = Append(stSent, r.id)
     /\ stFdsSent' = IF r.fds THEN stFdsSent \cup {r.id} ELSE stFdsSent
     /\ IF n = r.left
        THEN /\ stQueue' = Tail(stQueue)
             /\ stCalls' = [stCalls EXCEPT ![r.id] = @ + 1]
             /\ stFrame' = "write"
        ELSE /\ stQueue' = <<[id |-> r.id, left |-> r.left - n, fds |-> FALSE]>> \o Tail(stQueue)
             /\ UNCHANGED <<stCalls, stFrame>>
  /\ UNCHANGED <<stConn, stRead, stWritable, stShutdownPending, stClosed, stWatched,
                 stDrain, stNext>>

\* it takes none for now,
WriteBlocked ==
  /\ stFrame = "writing" /\ stConnected /\ stQueue # << >>
  /\ stFrame' = "none"
  /\ UNCHANGED <<stConn, stRead, stWritable, stShutdownPending, stClosed, stQueue,
                 stSize, stWatched, stDrain, stHist>>

\* streamDrainWriteQueue reports the request at i, after it looked for the
\* next one,
DrainCall(i) ==
  /\ stDrain' = [at |-> i, more |-> i < Len(stQueue)]
  /\ stCalls' = [stCalls EXCEPT ![stQueue[i].id] = @ + 1]

\* or it fails: the whole queue is reported,
WriteError ==
  /\ stFrame = "writing" /\ stQueue # << >>
  /\ stFrame' = "drain"
  /\ DrainCall(1)
  /\ UNCHANGED <<stConn, stRead, stWritable, stShutdownPending, stClosed, stQueue,
                 stSize, stWatched, stSent, stFdsSent, stNext>>

\* request after request, and forgotten.
DrainReturn ==
  /\ stFrame = "drain" /\ ~stClosed
  /\ UNCHANGED <<stConn, stRead, stWritable, stShutdownPending, stClosed, stSent,
                 stFdsSent, stNext>>
  /\ IF stDrain.more
     THEN DrainCall(stDrain.at + 1) /\ UNCHANGED <<stQueue, stSize, stWatched, stFrame>>
     ELSE /\ stQueue' = << >> /\ stSize' = 0
          /\ stDrain' = Idle /\ stFrame' = "none"
          /\ UpdateWriteWatcher(stWatch)
          /\ UNCHANGED stCalls

\* The request's callback returns into the loop over the queue.
WriteReturn ==
  /\ stFrame = "write" /\ ~stClosed
  /\ stFrame' = "writing"
  /\ UNCHANGED <<stConn, stRead, stWritable, stShutdownPending, stClosed, stQueue,
                 stSize, stWatched, stDrain, stHist>>

\* The queue is empty: a half-close that waited for this is made.
WriteEnd ==
  /\ stFrame = "writing" /\ stQueue = << >>
  /\ UNCHANGED <<stConn, stRead, stClosed, stQueue, stSize, stDrain, stHist>>
  /\ IF stShutdownPending
     THEN /\ stWritable' = FALSE /\ stShutdownPending' = FALSE
          /\ stFrame' = "shutdown"
          /\ UNCHANGED stWatched
     ELSE /\ UNCHANGED <<stWritable, stShutdownPending>>
          /\ stFrame' = "none"
          /\ UpdateWriteWatcher(stWatch)

\* The other callbacks return; the one for the half-close comes before
\* streamUpdateWriteWatcher.
StreamReturn ==
  /\ stFrame \in {"connect", "read", "shutdown"} /\ (stFrame = "shutdown" => ~stClosed)
  /\ stFrame' = "none"
  /\ UNCHANGED <<stConn, stRead, stWritable, stShutdownPending, stClosed, stQueue,
                 stSize, stDrain, stHist>>
  /\ IF stFrame = "shutdown" THEN UpdateWriteWatcher(stWatch) ELSE UNCHANGED stWatched

\* loopyStreamShutdown: after the queue, or at once (a socket that is not
\* connected refuses).
Shutdown ==
  /\ StMayCall /\ ~stNoFd /\ stWritable
  /\ \/ /\ stQueue # << >>
        /\ stShutdownPending' = TRUE /\ UNCHANGED stWritable
     \/ /\ stQueue = << >> /\ stConnected
        /\ stWritable' = FALSE /\ UNCHANGED stShutdownPending
  /\ UNCHANGED <<stConn, stRead, stClosed, stQueue, stSize, stWatched, stFrame,
                 stDrain, stHist>>

\* loopyStreamClose: the requests that wait are reported, also those a drain
\* has reported, and the stream is freed.
Close ==
  /\ StMayCall
  /\ stClosed' = TRUE
  /\ stReading' = FALSE /\ stWatch' = {} /\ UNCHANGED stLost
  /\ stCalls' = [i \in StIds |-> stCalls[i] + Cardinality({k \in DOMAIN stQueue : stQueue[k].id = i})]
  /\ stQueue' = << >> /\ stSize' = 0
  /\ UNCHANGED <<stConn, stReadable, stWritable, stShutdownPending, stFrame,
                 stDrain, stSent, stFdsSent, stNext>>

StNext ==
  \/ \E n \in StSizes :
       \/ \E fds \in BOOLEAN : Write(n, fds)
       \/ WriteSome(n)
  \/ \E b \in BOOLEAN : ConnectDone(b) \/ ReadReady(b)
  \/ TryWrite \/ Connect \/ Connect6 \/ ReadStart \/ ReadStop
  \/ WriteReady \/ WriteBlocked \/ WriteError \/ WriteReturn \/ WriteEnd
  \/ DrainReturn \/ StreamReturn \/ Shutdown \/ Close

StSpec == StInit /\ [][StNext]_stVars

-----------------------------------------------------------------------------
(* Properties                                                               *)

StQueued == {stQueue[k].id : k \in DOMAIN stQueue}
StRemaining == SumFunction([k \in DOMAIN stQueue |-> stQueue[k].left])

\* The bytes of the requests leave in the order they were accepted and
\* unmixed, queued and direct writes alike, descriptors with the first byte;
\* writeQueueSize is what is left; no half-close overtakes a request.  No
\* request is reported while it waits, nor twice unless the stream is closed in
\* a callback of a queue being drained (streamWriteCallback,
\* streamDrainWriteQueue, loopyStreamTryWrite).
StreamOrder ==
  /\ \A j, k \in DOMAIN stSent : j < k => stSent[j] <= stSent[k]
  /\ \A j \in DOMAIN stSent, k \in DOMAIN stQueue : stSent[j] <= stQueue[k].id
  /\ \A k \in DOMAIN stQueue : stQueue[k].fds => stQueue[k].id \notin stFdsSent
  /\ stSize = StRemaining
  /\ ~(stClosed /\ stFrame = "drain") => \A i \in StIds : stCalls[i] <= 1
  /\ stFrame # "drain" => \A i \in StQueued : stCalls[i] = 0
  /\ ~stWritable => stQueue = << >>

\* What waits will go on: with the loop idle a queue or a half-close that
\* waits has the descriptor watched for writing, and a reader for reading.
\* The exceptions are a queue filled before a connection that then failed, and
\* what could not be registered or was on a descriptor that was replaced.
StreamWatched ==
  ~stClosed /\ stFrame = "none" =>
    /\ (stQueue # << >> \/ stShutdownPending) /\ ~stFailed => "write" \in stWatch \cup stLost
    /\ stReading => "read" \in stWatch \cup stLost
    /\ "read" \in stWatch => stReading

\* loopyStreamReadStart returned true, so data will be reported.  It does not
\* hold: it does not look whether the descriptor could be registered, and
\* loopyStreamConnect replaces the descriptor for an IPv6 address.
ReaderWatched == ~stClosed /\ stReading => "read" \in stWatch

\* loopyStream.h of loopyStreamClose: "Safe to call multiple times or from
\* callbacks".  The code that called the client goes on with the stream after
\* write and shutdown callbacks, so it must not have been freed in them.  It
\* does not hold.
CloseSafeInCallbacks == stClosed => stFrame \notin {"write", "drain", "shutdown"}

\* loopyStream.h of loopyStreamWrite: "The callback is invoked when the write
\* completes", so a request that has left the queue has been reported.  It
\* does not hold: a request that is added in a callback of a queue being
\* drained after an error is freed with the queue and not reported.
WriteReported == \A i \in StIds : i < stNext /\ i \notin StQueued => stCalls[i] = 1
=============================================================================
