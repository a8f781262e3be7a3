-------------------------- MODULE LoopyChannelAsync --------------------------
(***************************************************************************)
(* loopyChannel.c, the asynchronous operations of a channel and            *)
(* loopyChannelSelect.  A channel is here the bounded queue that           *)
(* LoopyChannelSPSC and LoopyChannelMPMC are shown to implement, and the   *)
(* async handle the coalescing signal of AsyncSignal.  An element is the   *)
(* operation that sent it; select sends CaSelected.                        *)
(***************************************************************************)
EXTENDS Integers, Sequences, SequencesExt, FiniteSets

CONSTANTS
  CaThreads,      (* threads that make operations, callbacks included        *)
  CaCapacity,     (* config.capacity                                         *)
  CaSpsc,         (* LOOPY_CHANNEL_SPSC                                      *)
  CaCases,        (* the cases of select: sequence of "send" and "recv"      *)
  CaMaxOps        (* bound: asynchronous operations                          *)

ASSUME CaAssumption ==
  /\ CaCapacity \in Nat /\ CaMaxOps \in Nat /\ CaSpsc \in BOOLEAN
  /\ CaCases \in Seq({"send", "recv"}) /\ CaCases # << >>

CaSelected == 0
CaIds == 1 .. CaMaxOps
Occurrences(s, x) == Cardinality({i \in DOMAIN s : s[i] = x})

VARIABLES
  caPending,      (* ch->pendingOps, first the one pushed last               *)
  caTaken,        (* operations asyncHandler took off the list               *)
  caSignal,       (* the async handle is to call asyncHandler                *)
  caPosting,      (* threads between the push and loopyAsyncSend             *)
  caMade,         (* history: kind and thread of every operation             *)
  caStatus,       (* history: what the callback of an operation was told     *)
  caQueue,        (* the elements in the channel                             *)
  caSent,         (* history: every element that entered it                  *)
  caClosed,       (* ch->closed                                              *)
  caFreed,        (* the channel is freed                                    *)
  caCase          (* the case that select tries next; 0 if nobody selects    *)

caRing == <<caQueue, caSent>>
caVars == <<caPending, caTaken, caSignal, caPosting, caMade, caStatus, caRing, caClosed, caFreed, caCase>>

CaInit ==
  /\ caPending = << >> /\ caTaken = << >>
  /\ caSignal = FALSE /\ caPosting = {}
  /\ caMade = << >> /\ caStatus = [i \in CaIds |-> << >>]
  /\ caQueue = << >> /\ caSent = << >>
  /\ caClosed = FALSE /\ caFreed = FALSE
  /\ caCase = 0

\* loopyChannelSendAsync, loopyChannelRecvAsync: the operation is pushed,
PostOp(t, kind) ==
  /\ ~caFreed /\ t \notin caPosting /\ Len(caMade) < CaMaxOps
  /\ caMade' = Append(caMade, [kind |-> kind, by |-> t])
  /\ caPending' = <<Len(caMade) + 1>> \o caPending
  /\ caPosting' = caPosting \cup {t}
  /\ UNCHANGED <<caTaken, caSignal, caStatus, caRing, caClosed, caFreed, caCase>>

\* and the loop woken.
SignalOp(t) ==
  /\ t \in caPosting
  /\ caPosting' = caPosting \ {t}
  /\ caSignal' = TRUE
  /\ UNCHANGED <<caPending, caTaken, caMade, caStatus, caRing, caClosed, caFreed, caCase>>

\* asyncHandler takes the list,
TakeOps ==
  /\ caSignal /\ caTaken = << >> /\ ~caFreed
  /\ caSignal' = FALSE
  /\ caTaken' = caPending
  /\ caPending' = << >>
  /\ UNCHANGED <<caPosting, caMade, caStatus, caRing, caClosed, caFreed, caCase>>

\* loopyChannelTrySend
TrySendStatus ==
  CASE caClosed -> "CLOSED"
    [] ~caClosed /\ Len(caQueue) >= CaCapacity -> "FULL"
    [] OTHER -> "OK"

\* loopyChannelTryRecv: the lock-free ring does not look at the flag.
TryRecvStatus ==
  CASE caQueue # << >> -> "OK"
    [] caQueue = << >> /\ caClosed /\ ~CaSpsc -> "CLOSED"
    [] OTHER -> "EMPTY"

TryStatus(kind) == IF kind = "send" THEN TrySendStatus ELSE TryRecvStatus

\* What the call does to the channel.
Transfer(kind, element) ==
  IF TryStatus(kind) # "OK" THEN UNCHANGED caRing
  ELSE IF kind = "send"
       THEN caQueue' = Append(caQueue, element) /\ caSent' = Append(caSent, element)
       ELSE caQueue' = Tail(caQueue) /\ UNCHANGED caSent

\* and tries each operation once, whose callback is told how it went; a
\* receive without memory for its buffer has no callback.
TryOp(memory) ==
  /\ caTaken # << >> /\ ~caFreed
  /\ LET op == Head(caTaken)
         kind == caMade[op].kind
     IN IF kind = "recv" /\ ~memory
        THEN caStatus' = [caStatus EXCEPT ![op] = Append(@, "no memory")] /\ UNCHANGED caRing
        ELSE caStatus' = [caStatus EXCEPT ![op] = Append(@, TryStatus(kind))] /\ Transfer(kind, op)
  /\ caTaken' = Tail(caTaken)
  /\ UNCHANGED <<caPending, caSignal, caPosting, caMade, caClosed, caFreed, caCase>>

\* loopyChannelSelect begins (bound: select sends one element),
SelectCall ==
  /\ ~caFreed /\ caCase = 0 /\ Occurrences(caSent, CaSelected) < 1
  /\ caCase' = 1
  /\ UNCHANGED <<caPending, caTaken, caSignal, caPosting, caMade, caStatus, caRing, caClosed, caFreed>>

\* tries the next case, returns if it would not block, and starts again or,
\* after its deadline, gives up when all would.
SelectTry(late) ==
  /\ caCase # 0
  /\ LET kind == CaCases[caCase] IN
     /\ Transfer(kind, CaSelected)
     /\ caCase' = CASE TryStatus(kind) \notin {"FULL", "EMPTY"} -> 0
                    [] OTHER -> IF caCase < Len(CaCases) THEN caCase + 1 ELSE IF late THEN 0 ELSE 1
  /\ UNCHANGED <<caPending, caTaken, caSignal, caPosting, caMade, caStatus, caClosed, caFreed>>

\* loopyChannelClose
CloseChannel ==
  /\ ~caClosed
  /\ caClosed' = TRUE
  /\ UNCHANGED <<caPending, caTaken, caSignal, caPosting, caMade, caStatus, caRing, caFreed, caCase>>

\* loopyChannelFree, which nobody may call while the channel is in use:
\* operations still on the list are dropped.
FreeChannel ==
  /\ ~caFreed /\ caTaken = << >> /\ caPosting = {} /\ caCase = 0
  /\ caFreed' = TRUE /\ caClosed' = TRUE /\ caSignal' = FALSE
  /\ caStatus' = [i \in CaIds |-> IF Contains(caPending, i) THEN Append(caStatus[i], "dropped") ELSE caStatus[i]]
  /\ caPending' = << >> /\ caQueue' = << >>
  /\ UNCHANGED <<caTaken, caPosting, caMade, caSent, caCase>>

CaNext ==
  \/ \E t \in CaThreads : SignalOp(t) \/ \E kind \in {"send", "recv"} : PostOp(t, kind)
  \/ TakeOps
  \/ \E b \in BOOLEAN : TryOp(b) \/ SelectTry(b)
  \/ SelectCall \/ CloseChannel \/ FreeChannel

CaSpec == CaInit /\ [][CaNext]_caVars

-----------------------------------------------------------------------------
(* Properties                                                               *)

\* Every operation made is in one place: on the list, taken, or told its
\* outcome once; it was told OK exactly if its element entered the channel;
\* and what is on the list has a wakeup on its way, although posting is two
\* steps and wakeups are coalesced.
AsyncOpsExact ==
  /\ \A i \in 1 .. Len(caMade) :
       Occurrences(caPending, i) + Occurrences(caTaken, i) + Len(caStatus[i]) = 1
  /\ \A i \in 1 .. Len(caMade) :
       caMade[i].kind = "send" => (caStatus[i] = <<"OK">> <=> Contains(caSent, i))
  /\ caPending # << >> => caSignal \/ caPosting # {}
  /\ Len(caQueue) <= CaCapacity

\* A thread's asynchronous sends reach the channel in the order it made them.
\* It does not hold: the list is walked from the operation pushed last.
AsyncInOrder ==
  \A i, j \in 1 .. Len(caSent) :
    i < j /\ caSent[i] # CaSelected /\ caSent[j] # CaSelected
          /\ caMade[caSent[i]].by = caMade[caSent[j]].by => caSent[i] < caSent[j]

\* "The callback is invoked on the event loop thread when data is available"
\* (loopyChannel.h).  It does not hold: a receive is tried once, and its
\* callback told EMPTY.
ReceiveWaitsForData == \A i \in CaIds : caStatus[i] # <<"EMPTY">>
=============================================================================
