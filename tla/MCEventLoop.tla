---------------------------- MODULE MCEventLoop ----------------------------
(***************************************************************************)
(* An instance of EventLoop: two programs at the control socket, of which  *)
(* one asks, a participant, and descriptors for the clients and a peer     *)
(* they make.                                                              *)
(***************************************************************************)
EXTENDS EventLoop

CONSTANTS c1, c2, s1
=============================================================================
