------------------------ MODULE LoopyClusterRegistry ------------------------
(***************************************************************************)
(* loopyClusterRegistry.c: the nodes of a cluster with the time each was   *)
(* last seen, and versioned configuration entries that may expire.  Any    *)
(* thread may call; a read-write lock is held for each operation but not   *)
(* across the call; a node's state and heartbeat are written without it.   *)
(* loopyClusterProcess reads the clock before it takes the lock, and the   *)
(* clock is the time of day, which may be set back.  A client keeps no     *)
(* node it has unregistered.  Queries, roles, addresses, user data and     *)
(* event callbacks are left out.                                           *)
(***************************************************************************)
EXTENDS Integers, FiniteSets

CONSTANTS
  CrThreads, CrNodes, CrLocal,  (* localNodeId                               *)
  CrKeys, CrTtls,               (* time to live of entries, 0 for ever       *)
  CrFailureTimeout,             (* config.failureTimeoutMs                   *)
  CrBatch,                      (* entries or nodes one pass can collect     *)
  CrWord,                       (* 2 to the width of the clock               *)
  CrMaxTime, CrMaxVersion       (* bounds on the clock and the versions      *)

ASSUME CrAssumption == CrLocal \in CrNodes /\ CrTtls \subseteq Nat /\ CrMaxTime < CrWord

VARIABLES
  crClock,                      (* currentTimeMs()                           *)
  crNode,                       (* registry->nodes: state and lastSeen       *)
  crEntry,                      (* registry->configData                      *)
  configVersion,
  crPass,                       (* each thread's `now` and failedNodeIds     *)
  crEarly,                      (* history: a node was declared failed early *)
  crLatest                      (* history: the latest time the clock showed *)

crVars == <<crClock, crNode, crEntry, configVersion, crPass, crEarly, crLatest>>

NotIn == [state |-> "none", seen |-> 0]
NoEntry == [version |-> 0, expireAt |-> 0]
NodeStates == {"unknown", "joining", "active", "draining", "leaving", "failed"}
NotProcessing == [pc |-> "idle", now |-> 0, failed |-> {}]
CrUnlocked == \A t \in CrThreads : crPass[t].pc # "mark"

\* loopyClusterRegistryNew registers the local node, active at once.
CrInit ==
  /\ crClock = 1
  /\ crNode = [n \in CrNodes |-> IF n = CrLocal THEN [state |-> "active", seen |-> 1] ELSE NotIn]
  /\ crEntry = [k \in CrKeys |-> NoEntry]
  /\ configVersion = 0
  /\ crPass = [t \in CrThreads |-> NotProcessing]
  /\ crEarly = FALSE /\ crLatest = 1

crConfig == <<crEntry, configVersion>>
crTimes == <<crEarly, crLatest>>

\* loopyClusterRegisterNode: a known node keeps its state.
RegisterNode(n) ==
  /\ CrUnlocked
  /\ crNode' = [crNode EXCEPT ![n] =
                  [state |-> IF @.state = "none" THEN "joining" ELSE @.state, seen |-> crClock]]
  /\ UNCHANGED <<crClock, crConfig, crPass, crTimes>>

UnregisterNode(n) ==
  /\ CrUnlocked
  /\ n # CrLocal /\ crNode[n].state # "none"
  /\ crNode' = [crNode EXCEPT ![n] = NotIn]
  /\ UNCHANGED <<crClock, crConfig, crPass, crTimes>>

\* loopyClusterNodeSetState.
SetState(n, state) ==
  /\ crNode[n].state # "none"
  /\ crNode' = [crNode EXCEPT ![n] = [state |-> state, seen |-> crClock]]
  /\ UNCHANGED <<crClock, crConfig, crPass, crTimes>>

\* loopyClusterNodeHeartbeat: of the states only "joining" is left.
Heartbeat(n) ==
  /\ crNode[n].state # "none"
  /\ crNode' = [crNode EXCEPT ![n] =
                  [state |-> IF @.state = "joining" THEN "active" ELSE @.state, seen |-> crClock]]
  /\ UNCHANGED <<crClock, crConfig, crPass, crTimes>>

\* Mutant: versions counted per key.
ConfigSetPerKey(k, ttl) ==
  /\ CrUnlocked
  /\ configVersion < CrMaxVersion
  /\ configVersion' = configVersion + 1
  /\ \/ crEntry' = [crEntry EXCEPT ![k] = [version |-> @.version + 1,
                                           expireAt |-> IF ttl > 0 THEN crClock + ttl ELSE 0]]
     \/ crEntry[k] = NoEntry /\ UNCHANGED crEntry
  /\ UNCHANGED <<crClock, crNode, crPass, crTimes>>

\* loopyClusterConfigSet: the version is the registry's next, also for a key
\* that was there; memory for it may fail before (no change) or, for a new
\* key, after the version was drawn.
ConfigSet(k, ttl) ==
  /\ CrUnlocked
  /\ configVersion < CrMaxVersion
  /\ configVersion' = configVersion + 1
  /\ \/ crEntry' = [crEntry EXCEPT ![k] = [version |-> configVersion',
                                           expireAt |-> IF ttl > 0 THEN crClock + ttl ELSE 0]]
     \/ crEntry[k] = NoEntry /\ UNCHANGED crEntry
  /\ UNCHANGED <<crClock, crNode, crPass, crTimes>>

ConfigDelete(k) ==
  /\ CrUnlocked
  /\ crEntry[k] # NoEntry
  /\ crEntry' = [crEntry EXCEPT ![k] = NoEntry]
  /\ UNCHANGED <<crClock, crNode, configVersion, crPass, crTimes>>

\* loopyClusterProcess: `now` is read,
ProcessCall(t) ==
  /\ crPass[t] = NotProcessing
  /\ crPass' = [crPass EXCEPT ![t] = [pc |-> "lock", now |-> crClock, failed |-> {}]]
  /\ UNCHANGED <<crClock, crNode, crConfig, crTimes>>

\* and, under the write lock, expired entries go and silent nodes are collected.
\* A pass takes at most CrBatch of each, fewer if memory is short.
Expired(k, now) == crEntry[k].expireAt > 0 /\ now >= crEntry[k].expireAt
TimedOut(n, now) ==
  /\ n # CrLocal
  /\ crNode[n].state \notin {"none", "failed"}
  /\ (now - crNode[n].seen) % CrWord > CrFailureTimeout
ProcessPass(t) ==
  /\ crPass[t].pc = "lock" /\ CrUnlocked
  /\ \E K \in SUBSET {k \in CrKeys : Expired(k, crPass[t].now)},
        N \in SUBSET {n \in CrNodes : TimedOut(n, crPass[t].now)} :
       /\ Cardinality(K) <= CrBatch /\ Cardinality(N) <= CrBatch
       /\ crEntry' = [k \in CrKeys |-> IF k \in K THEN NoEntry ELSE crEntry[k]]
       /\ crPass' = [crPass EXCEPT ![t].pc = "mark", ![t].failed = N]
  /\ UNCHANGED <<crClock, crNode, configVersion, crTimes>>

\* Those collected are marked, and the lock is released.
MarkFailed(t) ==
  /\ crPass[t].pc = "mark"
  /\ crNode' = [n \in CrNodes |-> IF n \in crPass[t].failed THEN [crNode[n] EXCEPT !.state = "failed"]
                                  ELSE crNode[n]]
  /\ crEarly' = (crEarly \/ \E n \in crPass[t].failed : crClock - crNode[n].seen <= CrFailureTimeout)
  /\ crPass' = [crPass EXCEPT ![t] = NotProcessing]
  /\ UNCHANGED <<crClock, crConfig, crLatest>>

\* gettimeofday: time goes on, or the clock is set back.
CrTick ==
  /\ crClock' \in {c \in 1 .. CrMaxTime : c <= crClock + 1}
  /\ crLatest' = IF crClock' > crLatest THEN crClock' ELSE crLatest
  /\ UNCHANGED <<crNode, crConfig, crPass, crEarly>>

CrNext ==
  \/ \E n \in CrNodes : \/ RegisterNode(n) \/ UnregisterNode(n) \/ Heartbeat(n)
                        \/ \E state \in NodeStates : SetState(n, state)
  \/ \E k \in CrKeys : ConfigDelete(k) \/ \E ttl \in CrTtls : ConfigSet(k, ttl)
  \/ \E t \in CrThreads : ProcessCall(t) \/ ProcessPass(t) \/ MarkFailed(t)
  \/ CrTick

CrSpec == CrInit /\ [][CrNext]_crVars

-----------------------------------------------------------------------------
(* Properties                                                               *)

\* Configuration entries are kept: an entry that is set gets a version newer
\* than every version given before, also to other keys and to entries since
\* deleted; it disappears only when a client deletes it or its time is up, by
\* the latest time the clock has shown: a pass may have read it long before it
\* has the lock.
ConfigKept ==
  [][\A k \in CrKeys : crEntry'[k] # crEntry[k] =>
        \/ crEntry'[k] = NoEntry /\ (ConfigDelete(k) \/ Expired(k, crLatest))
        \/ crEntry'[k].version > configVersion]_crVars

\* An entry lasts for its ttlMs, the "Time-to-live in ms"
\* (loopyClusterRegistry.h), by the clock as it is when the entry goes.  It
\* does not hold: the clock is set back, an entry is set, and a pass that read
\* the clock before removes it, perhaps at once.
EntryLivesItsTime ==
  [][\A k \in CrKeys : crEntry'[k] = NoEntry /\ crEntry[k] # NoEntry =>
        ConfigDelete(k) \/ Expired(k, crClock)]_crVars

\* No node is declared failed that was seen within failureTimeoutMs, the "Time
\* until node is marked failed" (loopyClusterRegistry.h).  It does not hold: a
\* node seen after a pass has read the clock makes now - lastSeen wrap.
FailedOnlyLate == ~crEarly
=============================================================================
