---------------------------- MODULE MCLoopyLoop ----------------------------
(* The event loop on small instances; one configuration per question:       *)
(*   MCLoopRegistry: two descriptors, both actions, storage that starts too *)
(*     small for either and grows from inside callbacks;                    *)
(*   MCLoopLife: two descriptors and a timer, stop and deferred deletion,   *)
(*     with the liveness properties;                                        *)
(*   the others exhibit a disagreement between a comment and the code.      *)
EXTENDS LoopyLoop
=============================================================================
