---------------------------- MODULE MCDiscovery ----------------------------
(***************************************************************************)
(* Instances of Discovery: a server that is reached two ways and that is   *)
(* also configured, and two announcements of this program's own.           *)
(***************************************************************************)
EXTENDS Discovery

CONSTANTS n, v4, v6

\* The settings let the server in, whichever way it is found.
BothWays == {<<n, v4>>, <<n, v6>>}

\* Bound: once this program has announced something, the server is on the
\* network by one way at a time; the two sides meet in the bus only.
OneWayWithOwn == changes > 0 => Cardinality(net) <= 1
=============================================================================
