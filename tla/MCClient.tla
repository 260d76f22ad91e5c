------------------------------ MODULE MCClient ------------------------------
(***************************************************************************)
(* Instances of RtpClient: a name with two addresses, tried after one that *)
(* does not resolve, and the name with two addresses alone.                *)
(***************************************************************************)
EXTENDS RtpClient

Unresolved     == << <<1, 2>>, <<>> >>
TwoAddresses   == << <<1, 2>> >>

OneServer  == [a \in {1, 2} |-> 1]
TwoServers == [a \in {1, 2} |-> a]
=============================================================================
