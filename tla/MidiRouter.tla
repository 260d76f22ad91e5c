----------------------------- MODULE MidiRouter -----------------------------
(***************************************************************************)
(* The MIDI router of the daemon (src/midirouter.cpp, class midirouter_t): *)
(* the registry of midipeer_t objects and the directed connections between *)
(* them, over which MIDI data and peer events are forwarded.               *)
(*                                                                         *)
(* peers[id].send_to is a vector in which an id may stand several times    *)
(* (connect never looks for a duplicate); it is kept here as a             *)
(* multiplicity, links[from][to].  heard[i][j] is what peer i could work   *)
(* out from its midipeer_t::event callbacks: the CONNECTED_ROUTER events   *)
(* that named j minus the DISCONNECTED_ROUTER events that named j.         *)
(***************************************************************************)
EXTENDS Integers, FiniteSets, FiniteSetsExt

CONSTANTS Obj,       \* the midipeer_t objects of the program
          MaxId,     \* bound: the largest peer id handed out
          MaxLinks,  \* bound: entries of all the send_to vectors together
          MaxHeard   \* bound: connections a peer counts with another

ASSUME BoundsAssumption == /\ MaxId \in Nat /\ MaxLinks \in Nat
                           /\ MaxHeard \in Nat

Id == 1..MaxId

VARIABLES
    maxId,    \* midirouter_t::max_id
    idOf,     \* midipeer_t::peer_id of every object, 0 before add_peer
    live,     \* the keys of midirouter_t::peers
    links,    \* links[i][j]: how many times j stands in peers[i].send_to
    heard     \* net CONNECTED_ROUTER events i received about j

registry == <<maxId, idOf, live>>
wiring   == <<links, heard>>
rvars    == <<maxId, idOf, live, links, heard>>

Nothing == [j \in Id |-> 0]

RTypeOK ==
    /\ maxId \in 1..(MaxId + 1)
    /\ idOf \in [Obj -> 0..MaxId]
    /\ live \in SUBSET Id
    /\ links \in [Id -> [Id -> Nat]]
    /\ heard \in [Id -> [Id -> Int]]

RInit ==
    /\ maxId = 1
    /\ idOf = [o \in Obj |-> 0]
    /\ live = {}
    /\ links = [i \in Id |-> Nothing]
    /\ heard = [i \in Id |-> Nothing]

-----------------------------------------------------------------------------
\* A router that numbers a new peer by the size of the map.
AddPeerReusingIds(o) ==
    LET id == Cardinality(live) + 1 IN
    /\ idOf[o] = 0 /\ id \in Id
    /\ idOf' = [idOf EXCEPT ![o] = id]
    /\ live' = live \cup {id}
    /\ maxId' = id + 1
    /\ UNCHANGED wiring

\* add_peer.  An object that ever had an id is "already present", even when it
\* was removed since: the call then changes nothing.
AddPeer(o) ==
    /\ idOf[o] = 0 /\ maxId \in Id
    /\ maxId' = maxId + 1
    /\ idOf' = [idOf EXCEPT ![o] = maxId]
    /\ live' = live \cup {maxId}
    /\ UNCHANGED wiring

Entries == MapThenSumSet(LAMBDA p : links[p[1]][p[2]], Id \X Id)

\* connect.  Both ends are told; a self connection tells the peer twice.
Connect(i, j) ==
    /\ i \in live /\ j \in live
    /\ Entries < MaxLinks /\ heard[i][j] < MaxHeard /\ heard[j][i] < MaxHeard
    /\ links' = [links EXCEPT ![i][j] = @ + 1]
    /\ heard' = [a \in Id |-> [b \in Id |->
                    heard[a][b] + (IF <<a, b>> = <<i, j>> THEN 1 ELSE 0)
                                + (IF <<a, b>> = <<j, i>> THEN 1 ELSE 0)]]
    /\ UNCHANGED registry

\* A disconnect that reports the end of a connection there was none of.
RoundsUnguarded(n) == 1..(n + 1)

\* The event rounds a disconnect can deliver for n copies of the id.  The loop
\* walks the vector it has just erased from: the first copy is always reported,
\* the others as far as the stale iterator still meets them.
Rounds(n) == IF n = 0 THEN {0} ELSE 1..n

\* heard after every link of the set S of pairs was cut with told[p] rounds.
Untold(told, S) ==
    [a \in Id |-> [b \in Id |->
        heard[a][b] - (IF <<a, b>> \in S THEN told[<<a, b>>] ELSE 0)
                    - (IF <<b, a>> \in S THEN told[<<b, a>>] ELSE 0)]]

\* A disconnect that drops one copy of the id and leaves the others.
DisconnectOneCopy(i, j) ==
    /\ i \in live /\ j \in live
    /\ \E k \in Rounds(links[i][j]) :
          heard' = Untold([p \in {<<i, j>>} |-> k], {<<i, j>>})
    /\ links' = [links EXCEPT ![i][j] = @ - 1]
    /\ UNCHANGED registry

\* disconnect drops every copy; between peers that are not connected it does nothing.
Disconnect(i, j) ==
    /\ i \in live /\ j \in live
    /\ \E k \in Rounds(links[i][j]) :
          heard' = Untold([p \in {<<i, j>>} |-> k], {<<i, j>>})
    /\ links' = [links EXCEPT ![i][j] = 0]
    /\ UNCHANGED registry

-----------------------------------------------------------------------------
\* remove_peer(id) looks at every peer with something in its send_to: it cuts
\* that peer's connection to id and id's connection to that peer.  A peer that
\* sends to nobody is never visited, so a one-way id -> p is dropped unseen.
Sends(p) == \E j \in Id : links[p][j] > 0

CutIncoming(id) == {p \in live \X live : p[2] = id /\ links[p[1]][id] > 0}
CutOutgoing(id) == {p \in live \X live :
                       p[1] = id /\ links[id][p[2]] > 0 /\ Sends(p[2])}
Cut(id) == CutIncoming(id) \cup CutOutgoing(id)

\* A remove_peer that trusts the erase to drop the connections to id as well.
RemovePeerOnlyErase(id) ==
    /\ id \in live
    /\ live' = live \ {id}
    /\ links' = [links EXCEPT ![id] = Nothing]
    /\ UNCHANGED <<maxId, idOf, heard>>

RemovePeer(id) ==
    /\ id \in live
    /\ \E told \in [Cut(id) -> 1..MaxLinks] :
          /\ \A p \in Cut(id) : told[p] \in Rounds(links[p[1]][p[2]])
          /\ heard' = [Untold(told, Cut(id)) EXCEPT ![id] = Nothing]
    /\ live' = live \ {id}
    /\ links' = [i \in Id |-> [j \in Id |->
                    IF i = id \/ <<i, j>> \in Cut(id) THEN 0
                                                      ELSE links[i][j]]]
    /\ UNCHANGED <<maxId, idOf>>

\* clear, when the daemon stops: every peer forgets the router.
Clear ==
    /\ live # {}
    /\ live' = {}
    /\ links' = [i \in Id |-> Nothing]
    /\ heard' = [i \in Id |-> Nothing]
    /\ UNCHANGED <<maxId, idOf>>

RNext ==
    \/ \E o \in Obj : AddPeer(o)
    \/ \E i, j \in Id : Connect(i, j)
    \/ \E i, j \in Id : Disconnect(i, j)
    \/ \E i \in Id : RemovePeer(i)
    \/ Clear

RSpec == RInit /\ [][RNext]_rvars

-----------------------------------------------------------------------------
\* No peer sends to a peer that left, and a peer that left sends to nobody:
\* midirouter_t::send_midi never meets an unknown id.
NoDangling == \A i, j \in Id : links[i][j] > 0 => i \in live /\ j \in live

\* A peer id names one object for the whole life of the daemon, so a command
\* that arrives with the id of a removed peer can never hit another peer.
IdsNameOneObject ==
    /\ \A o, p \in Obj : idOf[o] = idOf[p] /\ idOf[o] # 0 => o = p
    /\ \A i \in live : \E o \in Obj : idOf[o] = i

\* A peer never hears the end of more connections than it heard begin: what it
\* counts about another peer is at least the connections they have.
NeverHearsTooManyEnds ==
    \A i, j \in Id : heard[i][j] >= links[i][j] + links[j][i]

\* tests/test_midirouter.cpp:248, "Remove the peer, removes all connections":
\* what a peer counts about a peer that was removed is back to zero.
RemoveEndsConnections ==
    \A i \in live, j \in Id : j < maxId /\ j \notin live => heard[i][j] = 0

\* Ids are handed out in order: the part of the inductive invariant that keeps
\* the next id fresh.
IdsBelowMax == \A o \in Obj : idOf[o] < maxId

RInv == RTypeOK /\ NoDangling /\ IdsNameOneObject /\ IdsBelowMax /\ NeverHearsTooManyEnds
=============================================================================
