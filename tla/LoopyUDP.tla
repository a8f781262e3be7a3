------------------------------ MODULE LoopyUDP -------------------------------
(***************************************************************************)
(* loopyUDP.c: a datagram socket on the loop's thread: its send queue,     *)
(* the sends that do not look at the queue, receiving, connecting.  The    *)
(* data of a queued send is not copied: it belongs to the client, "must    *)
(* remain valid until the callback is invoked", and is reused after it.    *)
(* Send callbacks send again, and may free the handle, with which the code *)
(* goes on: there the behaviour ends.  The callbacks that loopyUDPFree     *)
(* makes do nothing.  Addresses, socket options and segmentation are left  *)
(* out; a batch is one datagram.                                           *)
(***************************************************************************)
EXTENDS Integers, Sequences, SequencesExt, FiniteSets

CONSTANT UdMaxSends   (* bound: datagrams                                    *)

ASSUME UdAssumption == UdMaxSends \in Nat

VARIABLES
  udOpen,         (* the handle has not been freed                           *)
  udSocket,       (* udp->fd >= 0                                            *)
  udConnected, udReceiving,
  udQueue,        (* sendHead...: datagrams                                  *)
  udCount,        (* sendQueueCount                                          *)
  udWatch,        (* what the loop watches the socket for                    *)
  udLost,         (* history: the last registration for writing failed       *)
  udFrame,        (* "none", "sending" (udpProcessSendQueue), "callback" (in *)
                  (* the callback of the first datagram)                     *)
  udNext,         (* history: number of the next datagram                    *)
  udSent,         (* history: datagrams in the order sent                    *)
  udPast,         (* history: those sent although others waited              *)
  udCalls,        (* history: callbacks of each                              *)
  udTold          (* history: what the call returned                         *)

udVars == <<udOpen, udSocket, udConnected, udReceiving, udQueue, udCount, udWatch,
            udLost, udFrame, udNext, udSent, udPast, udCalls, udTold>>
udHist == <<udNext, udSent, udPast, udCalls, udTold, udLost>>
UdIds == 1..UdMaxSends

UdInit ==
  /\ udOpen = TRUE /\ udSocket = FALSE /\ udConnected = FALSE /\ udReceiving = FALSE
  /\ udQueue = << >> /\ udCount = 0 /\ udWatch = {} /\ udLost = FALSE
  /\ udFrame = "none" /\ udNext = 1 /\ udSent = << >> /\ udPast = {}
  /\ udCalls = [i \in UdIds |-> 0] /\ udTold = [i \in UdIds |-> "none"]

UdMayCall == udOpen /\ udFrame # "sending"

\* loopyUDPBind or the socket that a send makes, and loopyUDPConnect.
UdpBind ==
  /\ UdMayCall /\ ~udSocket
  /\ udSocket' = TRUE
  /\ UNCHANGED <<udOpen, udConnected, udReceiving, udQueue, udCount, udWatch, udFrame, udHist>>

UdpConnect(connected) ==
  /\ UdMayCall /\ udConnected # connected /\ (~connected => udSocket)
  /\ udSocket' = TRUE /\ udConnected' = connected
  /\ UNCHANGED <<udOpen, udReceiving, udQueue, udCount, udWatch, udFrame, udHist>>

\* loopyUDPSend and loopyUDPSendConnected.  With an empty queue the datagram
\* is sent at once and its callback called, or the call fails; it is queued
\* if the socket would block or others wait, unless there is no memory.
\* Nobody looks whether the socket could be registered for writing.
UdpSend(outcome) ==
  /\ UdMayCall /\ udNext \in UdIds /\ udSocket
  /\ udQueue # << >> => outcome # "sent"
  /\ CASE outcome = "sent" ->
            /\ udSent' = Append(udSent, udNext)
            /\ udCalls' = [udCalls EXCEPT ![udNext] = 1]
            /\ UNCHANGED <<udQueue, udCount, udWatch, udLost>>
       [] outcome = "fails" -> UNCHANGED <<udSent, udCalls, udQueue, udCount, udWatch, udLost>>
       [] outcome = "blocks" ->
            /\ udQueue' = Append(udQueue, udNext)
            /\ udCount' = udCount + 1
            /\ \/ udWatch' = udWatch \cup {"write"} /\ udLost' = FALSE
               \/ udWatch' = udWatch /\ udLost' = TRUE
            /\ UNCHANGED <<udSent, udCalls>>
  /\ udTold' = [udTold EXCEPT ![udNext] = IF outcome = "fails" THEN "no" ELSE "yes"]
  /\ udNext' = udNext + 1
  /\ UNCHANGED <<udOpen, udSocket, udConnected, udReceiving, udFrame, udPast>>

\* loopyUDPTrySend, loopyUDPSendMulti and the sends with segmentation: at once
\* and without a callback, whoever waits.
UdpTrySend ==
  /\ UdMayCall /\ udNext \in UdIds /\ udSocket
  /\ udSent' = Append(udSent, udNext)
  /\ udPast' = IF udQueue = << >> THEN udPast ELSE udPast \cup {udNext}
  /\ udNext' = udNext + 1
  /\ UNCHANGED <<udOpen, udSocket, udConnected, udReceiving, udQueue, udCount, udWatch, udLost,
                 udFrame, udCalls, udTold>>

\* udpWriteCallback
UdpWritable ==
  /\ udOpen /\ udFrame = "none" /\ "write" \in udWatch
  /\ udFrame' = "sending"
  /\ UNCHANGED <<udOpen, udSocket, udConnected, udReceiving, udQueue, udCount, udWatch, udHist>>

\* udpProcessSendQueue: the first datagram is sent or fails, and is called
\* back while it is still the first;
UdpSendFirst(ok) ==
  /\ udFrame = "sending" /\ udQueue # << >>
  /\ udSent' = IF ok THEN Append(udSent, Head(udQueue)) ELSE udSent
  /\ udCalls' = [udCalls EXCEPT ![Head(udQueue)] = @ + 1]
  /\ udFrame' = "callback"
  /\ UNCHANGED <<udOpen, udSocket, udConnected, udReceiving, udQueue, udCount, udWatch, udLost,
                 udNext, udPast, udTold>>

\* after the callback it is removed.
UdpSendReturns ==
  /\ udFrame = "callback" /\ udOpen
  /\ udQueue' = Tail(udQueue)
  /\ udCount' = udCount - 1
  /\ udFrame' = "sending"
  /\ UNCHANGED <<udOpen, udSocket, udConnected, udReceiving, udWatch, udHist>>

\* The socket is full, or the queue empty.
UdpSendEnd ==
  /\ udFrame = "sending"
  /\ udFrame' = "none"
  /\ udWatch' = IF udQueue = << >> THEN udWatch \ {"write"} ELSE udWatch
  /\ UNCHANGED <<udOpen, udSocket, udConnected, udReceiving, udQueue, udCount, udHist>>

\* loopyUDPRecvStart and RecvStop; a start that cannot be registered fails and
\* changes nothing.  What udpReadCallback does is the client's.
UdpReceive(on) ==
  /\ UdMayCall /\ udReceiving # on /\ udSocket
  /\ udReceiving' = on
  /\ udWatch' = IF on THEN udWatch \cup {"read"} ELSE udWatch \ {"read"}
  /\ UNCHANGED <<udOpen, udSocket, udConnected, udQueue, udCount, udFrame, udHist>>

\* loopyUDPFree tells the datagrams that wait, the one whose callback is
\* running too.
UdpFree ==
  /\ UdMayCall
  /\ udOpen' = FALSE /\ udReceiving' = FALSE /\ udWatch' = {}
  /\ udCalls' = [i \in UdIds |-> udCalls[i] + Cardinality({k \in DOMAIN udQueue : udQueue[k] = i})]
  /\ udQueue' = << >>
  /\ UNCHANGED <<udSocket, udConnected, udCount, udLost, udFrame, udNext, udSent, udPast, udTold>>

UdNext ==
  \/ \E o \in {"sent", "fails", "blocks"} : UdpSend(o)
  \/ \E b \in BOOLEAN : UdpConnect(b) \/ UdpSendFirst(b) \/ UdpReceive(b)
  \/ UdpTrySend \/ UdpBind \/ UdpWritable \/ UdpSendReturns \/ UdpSendEnd \/ UdpFree

UdSpec == UdInit /\ [][UdNext]_udVars

-----------------------------------------------------------------------------
(* Properties                                                               *)

\* loopyUDPSend's datagrams are reported once, when sent or failed, and
\* datagrams leave in the order of the calls, save those that were sent past
\* others that waited, although a callback sends into a queue whose first
\* element is about to be removed; the queue has its count, and is watched
\* while something is in it unless the last registration failed.  A handle
\* freed in a send callback reports that datagram twice
\* (udpProcessSendQueue, loopyUDPSend, loopyUDPFree).
SendsExact ==
  /\ \A j, k \in DOMAIN udSent : j < k => udSent[j] < udSent[k] \/ udSent[j] \in udPast
  /\ (udOpen \/ udFrame # "callback") =>
       \A i \in UdIds : udTold[i] = "yes" =>
         udCalls[i] + Cardinality({k \in DOMAIN udQueue : udQueue[k] = i})
           = IF udFrame = "callback" /\ i = Head(udQueue) THEN 2 ELSE 1
  /\ \A i \in UdIds : udTold[i] # "yes" => udCalls[i] = 0
  /\ udOpen => udCount = Len(udQueue)
  /\ udOpen /\ udQueue # << >> => "write" \in udWatch \/ udLost

\* Datagrams leave in the order of the calls.  It does not hold:
\* loopyUDPTrySend and loopyUDPSendMulti do not look at the queue.
DatagramsInOrder == \A j, k \in DOMAIN udSent : j < k => udSent[j] < udSent[k]

\* loopyUDP.h of loopyUDPSend: "The send is asynchronous - the callback is
\* invoked when complete", so what waits is watched.  It does not hold: the
\* result of loopyRegisterWrite is ignored.
QueueWatched == udOpen /\ udQueue # << >> => "write" \in udWatch

\* A handle is not freed under udpProcessSendQueue, which uses it after the
\* callback.  It does not hold; loopyUDP.h states no rule against it.
FreeSafeInCallbacks == ~udOpen => udFrame = "none"
=============================================================================
