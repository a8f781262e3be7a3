----------------------------- MODULE LoopyFSPoll -----------------------------
(***************************************************************************)
(* loopyFSPoll.c: files that a timer compares, one after the other, with   *)
(* what was seen the last time.  A file's state is one of a few values, of *)
(* which Absent means that it does not exist; the client asks for every    *)
(* kind of event.  Files change at any moment, also while a callback runs. *)
(* Callbacks start and stop polling; the entry that is being polled is     *)
(* used after its callback, so a callback does not stop its own.           *)
(***************************************************************************)
EXTENDS Integers, Sequences, FiniteSets, SequencesExt

CONSTANTS
  FpFiles, FpStates,
  FpMaxId         (* bound on nextId                                         *)

Absent == "absent"
ASSUME FpAssumption == Absent \in FpStates

VARIABLES
  fpDisk,         (* the state of each file                                  *)
  fpEntries,      (* fsp->entries, from its head                             *)
  fpSeen,         (* exists and prevStat of each entry                       *)
  fpFile,         (* path of each entry                                      *)
  fpNextId, fpTimer,
  fpCur,          (* entry that the timer's callback is at, 0 for none       *)
  fpNew,          (* newExists and newStat of that entry                     *)
  fpTold,         (* history: what the owner of each entry was told last     *)
  fpLost          (* history: a new interval left it without a timer         *)

fpVars == <<fpDisk, fpEntries, fpSeen, fpFile, fpNextId, fpTimer, fpCur, fpNew, fpTold, fpLost>>

FpInit ==
  /\ fpDisk \in [FpFiles -> FpStates]
  /\ fpEntries = << >> /\ fpSeen = << >> /\ fpFile = << >> /\ fpTold = << >>
  /\ fpNextId = 1 /\ fpTimer = FALSE
  /\ fpCur = 0 /\ fpNew = Absent /\ fpLost = FALSE

FirstEntry(s) == IF s = << >> THEN 0 ELSE Head(s)
NextEntry(e) ==
  LET i == CHOOSE j \in DOMAIN fpEntries : fpEntries[j] = e IN
  IF i = Len(fpEntries) THEN 0 ELSE fpEntries[i + 1]

\* loopyFSPollStart: the present state is the first to compare with.  An
\* entry whose timer cannot be registered is not kept.
PollStart(f, ok) ==
  /\ fpNextId < FpMaxId
  /\ fpNextId' = fpNextId + 1
  /\ fpSeen' = Append(fpSeen, fpDisk[f])
  /\ fpTold' = Append(fpTold, fpDisk[f])
  /\ fpFile' = Append(fpFile, f)
  /\ IF fpTimer \/ ok
     THEN fpTimer' = TRUE /\ fpLost' = FALSE /\ fpEntries' = <<fpNextId>> \o fpEntries
     ELSE UNCHANGED <<fpTimer, fpLost, fpEntries>>
  /\ UNCHANGED <<fpDisk, fpCur, fpNew>>

\* loopyFSPollStop; the timer goes with the last entry.
PollStop(e) ==
  /\ e \in Range(fpEntries) \ {fpCur}
  /\ fpEntries' = RemoveFirst(fpEntries, e)
  /\ fpTimer' = (fpTimer /\ fpEntries' # << >>)
  /\ UNCHANGED <<fpDisk, fpSeen, fpFile, fpNextId, fpCur, fpNew, fpTold, fpLost>>

\* loopyFSPollStopAll, outside of the timer's callback.
PollStopAll ==
  /\ fpCur = 0
  /\ fpEntries' = << >> /\ fpTimer' = FALSE
  /\ UNCHANGED <<fpDisk, fpSeen, fpFile, fpNextId, fpCur, fpNew, fpTold, fpLost>>

\* loopyFSPollFree, outside of it too; another may be made.
PollFree ==
  /\ fpCur = 0
  /\ fpEntries' = << >> /\ fpSeen' = << >> /\ fpFile' = << >> /\ fpTold' = << >>
  /\ fpNextId' = 1 /\ fpTimer' = FALSE /\ fpLost' = FALSE
  /\ UNCHANGED <<fpDisk, fpCur, fpNew>>

\* loopyFSPollSetInterval: the timer, if there is one, is replaced; whether
\* the new one could be registered is not looked at.
SetInterval(ok) ==
  /\ fpTimer
  /\ fpTimer' = ok /\ fpLost' = ~ok
  /\ UNCHANGED <<fpDisk, fpEntries, fpSeen, fpFile, fpNextId, fpCur, fpNew, fpTold>>

\* pollTimerCallback: the file is looked at, and the owner called if the
\* state is another one,
Look(e) ==
  /\ fpCur' = e
  /\ IF e = 0
     THEN UNCHANGED <<fpNew, fpTold>>
     ELSE /\ fpNew' = fpDisk[fpFile[e]]
          /\ fpTold' = IF fpNew' # fpSeen[e] THEN [fpTold EXCEPT ![e] = fpNew'] ELSE fpTold
PollTimer ==
  /\ fpTimer /\ fpCur = 0
  /\ Look(FirstEntry(fpEntries))
  /\ UNCHANGED <<fpDisk, fpEntries, fpSeen, fpFile, fpNextId, fpTimer, fpLost>>

\* Mutant: the file is read again after the callback.
PollAdvanceRereads ==
  /\ fpCur # 0
  /\ fpSeen' = [fpSeen EXCEPT ![fpCur] = fpDisk[fpFile[fpCur]]]
  /\ Look(NextEntry(fpCur))
  /\ UNCHANGED <<fpDisk, fpEntries, fpFile, fpNextId, fpTimer, fpLost>>

\* and after the callback what was looked at is kept, and the next is taken.
PollAdvance ==
  /\ fpCur # 0
  /\ fpSeen' = [fpSeen EXCEPT ![fpCur] = fpNew]
  /\ Look(NextEntry(fpCur))
  /\ UNCHANGED <<fpDisk, fpEntries, fpFile, fpNextId, fpTimer, fpLost>>

\* External: somebody changes a file.
DiskChange(f, s) ==
  /\ fpDisk[f] # s
  /\ fpDisk' = [fpDisk EXCEPT ![f] = s]
  /\ UNCHANGED <<fpEntries, fpSeen, fpFile, fpNextId, fpTimer, fpCur, fpNew, fpTold, fpLost>>

FpNext ==
  \/ \E f \in FpFiles : \/ \E ok \in BOOLEAN : PollStart(f, ok)
                        \/ \E s \in FpStates : DiskChange(f, s)
  \/ \E e \in 1 .. FpMaxId : PollStop(e)
  \/ \E ok \in BOOLEAN : SetInterval(ok)
  \/ PollStopAll \/ PollFree \/ PollTimer \/ PollAdvance

FpSpec == FpInit /\ [][FpNext]_fpVars

-----------------------------------------------------------------------------
(* Properties                                                               *)

\* No change is swallowed: what an entry compares with is what its owner was
\* told last, so a change that happens during a callback, or is undone before
\* the next pass, is compared with what the owner knows; and the timer runs
\* exactly while there are entries, unless a change of the interval lost it.
PollExact ==
  /\ \A e \in Range(fpEntries) \ {fpCur} : fpSeen[e] = fpTold[e]
  /\ fpCur # 0 => fpCur \in Range(fpEntries) /\ fpTold[fpCur] = fpNew
  /\ fpTimer => fpEntries # << >>
  /\ fpEntries # << >> => fpTimer \/ fpLost
=============================================================================
