---------------------------- MODULE MCServerLive ----------------------------
(***************************************************************************)
(* WebioServer under fairness, for TLC.  ENABLED Server makes TLC compute  *)
(* every handler's result many times over, so the thread's fairness is     *)
(* stated on a bit that each step of the server flips: until it exits, the *)
(* server always has a step to take, so WF_turn(Flip) is WF_vars(Server).  *)
(***************************************************************************)
EXTENDS MCServer

VARIABLE turn

LiveInit == Init /\ turn = FALSE

LiveNext ==
    \/ Server /\ turn' = ~turn
    \/ Environment /\ UNCHANGED turn

Flip == pc # "exited" /\ turn' = ~turn

LiveFairness == WF_turn(Flip) /\ WF_vars(Tick)

LiveSpec == LiveInit /\ [][LiveNext]_<<vars, turn>> /\ LiveFairness

=============================================================================
