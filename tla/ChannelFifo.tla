---------------------------- MODULE ChannelFifo ----------------------------
(***************************************************************************)
(* What a channel promises, whichever implementation carries it: a bounded *)
(* first-in first-out buffer that neither loses, duplicates, reorders nor  *)
(* invents elements.                                                       *)
(***************************************************************************)
EXTENDS Naturals, Sequences

CONSTANTS
  Capacity,   (* config.capacity                     *)
  Elements    (* what can be sent                    *)

VARIABLES
  buffered,   (* accepted and not yet received       *)
  received    (* handed to receivers, in this order  *)

fifoVars == <<buffered, received>>

FifoInit == buffered = << >> /\ received = << >>

Put(e) ==
  /\ Len(buffered) < Capacity
  /\ buffered' = Append(buffered, e)
  /\ UNCHANGED received

Take ==
  /\ buffered # << >>
  /\ received' = Append(received, Head(buffered))
  /\ buffered' = Tail(buffered)

FifoNext == (\E e \in Elements : Put(e)) \/ Take

FifoSpec == FifoInit /\ [][FifoNext]_fifoVars
=============================================================================
