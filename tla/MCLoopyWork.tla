---------------------------- MODULE MCLoopyWork ----------------------------
(* Two workers and three items: an item can be queued, cancelled or         *)
(* delivered while each worker is anywhere in its cycle.                    *)
EXTENDS LoopyWork
=============================================================================
