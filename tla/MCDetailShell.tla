--------------------------- MODULE MCDetailShell ---------------------------
(* Instances of DetailShell for TLC: one tick stands for 5 ms in Period and *)
(* JoinDelay; groups, frames, buffer and the long timers are scaled down.   *)
EXTENDS DetailShell

MCGroup == [f \in Fps |-> CASE f = "FPS_100" -> 1
                             [] f = "FPS_10"  -> 2
                             [] OTHER         -> 3]
=============================================================================
