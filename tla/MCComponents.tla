---------------------------- MODULE MCComponents -----------------------------
(* The components share no state, so the run exercises one of them at a      *)
(* time, chosen at the start; the others rest.  First the services that any  *)
(* thread may call, then the handles of a loop's thread and the adapters     *)
(* other than epoll.                                                         *)
EXTENDS LoopyServices, LoopyHandles

VARIABLE component

Services == {"concurrency pool", "connection pool", "rate limit",
             "concurrency limiter", "publish/subscribe", "cluster registry",
             "DNS", "filesystem", "channel"}
HandleKinds == {"heap", "timer", "idle", "signal", "process", "watch",
                "fspoll", "flock", "stream", "UDP", "pipe", "io_uring",
                "readiness", "buffers", "event port", "kqueue"}
svVars == <<cpVars, cnVars, rlVars, clVars, psVars, crVars, dnVars, fsVars,
            caVars>>
hdVars == <<mhVars, tmVars, idVars, sgVars, prVars, wtVars, fpVars, fkVars,
            stVars, udVars, piVars, uoVars, upVars, ibVars, evVars, kqVars>>
coVars == <<component, svVars, hdVars>>

\* A pool under a global limit and a full table, and one without either.
CpLimited == [globalLimit |-> 2, defaultUserLimit |-> 1, maxUsers |-> 1, autoCreateUsers |-> TRUE]
CpFree == [globalLimit |-> 0, defaultUserLimit |-> 2, maxUsers |-> 0, autoCreateUsers |-> FALSE]
CpBoth == {CpLimited, CpFree}

\* Topic "both" matches two patterns.
PsMatching == [t \in {"one", "both"} |-> IF t = "one" THEN {"p"} ELSE {"p", "q"}]
\* A bounded queue that drops, one acknowledged by hand, and calls.
PsOptions ==
  {[mode |-> "queue", manual |-> FALSE, size |-> 1, drop |-> TRUE],
   [mode |-> "queue", manual |-> TRUE, size |-> 0, drop |-> FALSE],
   [mode |-> "sync", manual |-> FALSE, size |-> 0, drop |-> FALSE]}

\* Select receives, or else sends.
CaBoth == <<"recv", "send">>

\* Negative values have no place in the heap's position map.
MhSigned == -2 .. 3
IdKindOf == [h \in {"a", "b", "c", "d"} |->
               CASE h = "c" -> "prepare" [] h = "d" -> "check" [] OTHER -> "idle"]
UoKindsAllowed == <<UoKinds, {"single"}, {"single"}>>

\* One that is not exercised starts in one fixed state.
CoInit ==
  /\ component \in Services \cup HandleKinds
  /\ CpInit /\ CnInit /\ RlInit /\ ClInit /\ PsInit /\ CrInit /\ DnInit /\ FsInit
  /\ CaInit
  /\ MhInit /\ TmInit /\ IdInit /\ SgInit /\ PrInit /\ WtInit /\ FpInit /\ FkInit
  /\ StInit /\ UdInit /\ PiInit /\ UoInit /\ UpInit /\ IbInit /\ EvInit /\ KqInit
  /\ component # "concurrency pool" => cpConfig = CpFree
  /\ component # "rate limit" => rlAlgorithm = "TOKEN_BUCKET" /\ rlTokens = 0
  /\ component # "filesystem" => fsDir = 0
  /\ component # "fspoll" => fpDisk = [f \in FpFiles |-> Absent]
  /\ component # "stream" => stConnected = FALSE

SvNext ==
  \/ /\ component = "concurrency pool" /\ CpNext
     /\ UNCHANGED <<cnVars, rlVars, clVars, psVars, crVars, dnVars, fsVars,
                    caVars>>
  \/ /\ component = "connection pool" /\ CnNext
     /\ UNCHANGED <<cpVars, rlVars, clVars, psVars, crVars, dnVars, fsVars,
                    caVars>>
  \/ /\ component = "rate limit" /\ RlNext
     /\ UNCHANGED <<cpVars, cnVars, clVars, psVars, crVars, dnVars, fsVars,
                    caVars>>
  \/ /\ component = "concurrency limiter" /\ ClNext
     /\ UNCHANGED <<cpVars, cnVars, rlVars, psVars, crVars, dnVars, fsVars,
                    caVars>>
  \/ /\ component = "publish/subscribe" /\ PsNext
     /\ UNCHANGED <<cpVars, cnVars, rlVars, clVars, crVars, dnVars, fsVars,
                    caVars>>
  \/ /\ component = "cluster registry" /\ CrNext
     /\ UNCHANGED <<cpVars, cnVars, rlVars, clVars, psVars, dnVars, fsVars,
                    caVars>>
  \/ /\ component = "DNS" /\ DnNext
     /\ UNCHANGED <<cpVars, cnVars, rlVars, clVars, psVars, crVars, fsVars,
                    caVars>>
  \/ /\ component = "filesystem" /\ FsNext
     /\ UNCHANGED <<cpVars, cnVars, rlVars, clVars, psVars, crVars, dnVars,
                    caVars>>
  \/ /\ component = "channel" /\ CaNext
     /\ UNCHANGED <<cpVars, cnVars, rlVars, clVars, psVars, crVars, dnVars,
                    fsVars>>

HdNext ==
  \/ /\ component = "heap" /\ MhNext
     /\ UNCHANGED <<tmVars, idVars, sgVars, prVars, wtVars, fpVars, fkVars,
                    stVars, udVars, piVars, uoVars, upVars, ibVars, evVars,
                    kqVars>>
  \/ /\ component = "timer" /\ TmNext
     /\ UNCHANGED <<mhVars, idVars, sgVars, prVars, wtVars, fpVars, fkVars,
                    stVars, udVars, piVars, uoVars, upVars, ibVars, evVars,
                    kqVars>>
  \/ /\ component = "idle" /\ IdNext
     /\ UNCHANGED <<mhVars, tmVars, sgVars, prVars, wtVars, fpVars, fkVars,
                    stVars, udVars, piVars, uoVars, upVars, ibVars, evVars,
                    kqVars>>
  \/ /\ component = "signal" /\ SgNext
     /\ UNCHANGED <<mhVars, tmVars, idVars, prVars, wtVars, fpVars, fkVars,
                    stVars, udVars, piVars, uoVars, upVars, ibVars, evVars,
                    kqVars>>
  \/ /\ component = "process" /\ PrNext
     /\ UNCHANGED <<mhVars, tmVars, idVars, sgVars, wtVars, fpVars, fkVars,
                    stVars, udVars, piVars, uoVars, upVars, ibVars, evVars,
                    kqVars>>
  \/ /\ component = "watch" /\ WtNext
     /\ UNCHANGED <<mhVars, tmVars, idVars, sgVars, prVars, fpVars, fkVars,
                    stVars, udVars, piVars, uoVars, upVars, ibVars, evVars,
                    kqVars>>
  \/ /\ component = "fspoll" /\ FpNext
     /\ UNCHANGED <<mhVars, tmVars, idVars, sgVars, prVars, wtVars, fkVars,
                    stVars, udVars, piVars, uoVars, upVars, ibVars, evVars,
                    kqVars>>
  \/ /\ component = "flock" /\ FkNext
     /\ UNCHANGED <<mhVars, tmVars, idVars, sgVars, prVars, wtVars, fpVars,
                    stVars, udVars, piVars, uoVars, upVars, ibVars, evVars,
                    kqVars>>
  \/ /\ component = "stream" /\ StNext
     /\ UNCHANGED <<mhVars, tmVars, idVars, sgVars, prVars, wtVars, fpVars,
                    fkVars, udVars, piVars, uoVars, upVars, ibVars, evVars,
                    kqVars>>
  \/ /\ component = "UDP" /\ UdNext
     /\ UNCHANGED <<mhVars, tmVars, idVars, sgVars, prVars, wtVars, fpVars,
                    fkVars, stVars, piVars, uoVars, upVars, ibVars, evVars,
                    kqVars>>
  \/ /\ component = "pipe" /\ PiNext
     /\ UNCHANGED <<mhVars, tmVars, idVars, sgVars, prVars, wtVars, fpVars,
                    fkVars, stVars, udVars, uoVars, upVars, ibVars, evVars,
                    kqVars>>
  \/ /\ component = "io_uring" /\ UoNext
     /\ UNCHANGED <<mhVars, tmVars, idVars, sgVars, prVars, wtVars, fpVars,
                    fkVars, stVars, udVars, piVars, upVars, ibVars, evVars,
                    kqVars>>
  \/ /\ component = "readiness" /\ UpNext
     /\ UNCHANGED <<mhVars, tmVars, idVars, sgVars, prVars, wtVars, fpVars,
                    fkVars, stVars, udVars, piVars, uoVars, ibVars, evVars,
                    kqVars>>
  \/ /\ component = "buffers" /\ IbNext
     /\ UNCHANGED <<mhVars, tmVars, idVars, sgVars, prVars, wtVars, fpVars,
                    fkVars, stVars, udVars, piVars, uoVars, upVars, evVars,
                    kqVars>>
  \/ /\ component = "event port" /\ EvNext
     /\ UNCHANGED <<mhVars, tmVars, idVars, sgVars, prVars, wtVars, fpVars,
                    fkVars, stVars, udVars, piVars, uoVars, upVars, ibVars,
                    kqVars>>
  \/ /\ component = "kqueue" /\ KqNext
     /\ UNCHANGED <<mhVars, tmVars, idVars, sgVars, prVars, wtVars, fpVars,
                    fkVars, stVars, udVars, piVars, uoVars, upVars, ibVars,
                    evVars>>

CoNext ==
  \/ SvNext /\ UNCHANGED <<component, hdVars>>
  \/ HdNext /\ UNCHANGED <<component, svVars>>

CoSpec == CoInit /\ [][CoNext]_coVars
=============================================================================
