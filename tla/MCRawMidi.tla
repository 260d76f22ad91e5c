----------------------------- MODULE MCRawMidi -----------------------------
(***************************************************************************)
(* An instance of RawMidi: a device, a server for it and a client for it.  *)
(* Wires that do not lead to a device change nothing here, and heard,      *)
(* which a device ignores, is left out of the view (its bound is never     *)
(* reached).                                                               *)
(***************************************************************************)
EXTENDS RawMidi

WiresReachDevices ==
    \A i, j \in Id : links[i][j] > 0 => \E r \in Raw : idOf[r] = j

SeenByDevices == <<registry, links, said, device>>
=============================================================================
