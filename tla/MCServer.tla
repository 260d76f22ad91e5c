------------------------------ MODULE MCServer ------------------------------
(***************************************************************************)
(* Instances of RtpServer: client 1 invites twice, under two initiators, as *)
(* one that reconnects does; client 2 invites once.                        *)
(***************************************************************************)
EXTENDS RtpServer

TwoClients == {[init |-> 1, ssrc |-> 1], [init |-> 2, ssrc |-> 1], [init |-> 3, ssrc |-> 2]}
OneEach    == {[init |-> 1, ssrc |-> 1], [init |-> 3, ssrc |-> 2]}

\* What the sockets were given last is written and never read: states that
\* differ in nothing else have the same steps.
Unsent == <<last, listed, record, cap, told, silent, running>>
=============================================================================
