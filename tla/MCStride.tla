------------------------------ MODULE MCStride ------------------------------
(***************************************************************************)
(* Stride for TLC: behaviours with stride scheduling and transfers, whose  *)
(* constants are in the cfg, and behaviours with fork_winner() under round *)
(* robin, in which no tickets move.                                        *)
(***************************************************************************)
EXTENDS Stride

VARIABLE mode

Winner == INSTANCE Stride WITH
  Policies <- {0}, Winners <- {0, 1}, Amounts <- {}, MaxTickets <- 0, MaxPass <- 0

MCInit == mode \in {"transfer", "winner"} /\ Init
MCNext ==
  /\ \/ mode = "transfer" /\ Next
     \/ mode = "winner" /\ Winner!Next
  /\ UNCHANGED mode
MCSpec == MCInit /\ [][MCNext]_<<vars, mode>>
=============================================================================
