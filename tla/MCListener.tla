----------------------------- MODULE MCListener -----------------------------
(***************************************************************************)
(* Three peers that come and go at the two sockets of one broker.          *)
(***************************************************************************)
EXTENDS Listener

CONSTANTS p1, p2, p3
=============================================================================
