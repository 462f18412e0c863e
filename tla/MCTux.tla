-------------------------------- MODULE MCTux --------------------------------
(***************************************************************************)
(* Sessions of the line discipline for TLC: one that mostly receives, one   *)
(* that mostly transmits and one that does both.  The two sides only meet  *)
(* when the discipline is reopened, so short mixed sessions are enough.    *)
(***************************************************************************)
EXTENDS TuxLdisc

MCLoads == {<<8, 0>>, <<0, 6>>, <<3, 3>>}
MCPutLoads == {<<0, 4>>}
=============================================================================
