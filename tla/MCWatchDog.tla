----------------------------- MODULE MCWatchDog -----------------------------
(***************************************************************************)
(* WatchDog for TLC: MCWatchDog.cfg gives the delays in ticks of 100 ms.   *)
(***************************************************************************)
EXTENDS WatchDog
=============================================================================
