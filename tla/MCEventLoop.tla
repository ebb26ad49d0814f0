---------------------------- MODULE MCEventLoop -----------------------------
(***************************************************************************)
(* One connection with two subscriptions and a keep-alive of two seconds,  *)
(* the largest that the width of the timeout allows here.                  *)
(***************************************************************************)
EXTENDS EventLoop

CONSTANTS s1, s2
=============================================================================
