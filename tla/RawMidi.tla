------------------------------ MODULE RawMidi ------------------------------
(***************************************************************************)
(* Raw MIDI devices (src/local_rawmidi_peer.cpp) behind the router, and    *)
(* the network midipeers that tell them about their sessions               *)
(* (network_rtpmidi_listener_t, network_rtpmidi_client_t): a device opens  *)
(* its file when it counts its first session and closes it when it counts  *)
(* its last one out.                                                       *)
(*                                                                         *)
(* A session's CONNECTED and its disconnections become CONNECTED_PEER and  *)
(* DISCONNECTED_PEER events, which the router hands to whatever the        *)
(* network peer sends to at that moment.  A listener's sessions live as    *)
(* SessionList says (RtpServer implements it); a client says what it likes *)
(* (each refused attempt is another disconnection).                        *)
(*                                                                         *)
(* The registry owns its peers: a removed peer is destroyed, and a         *)
(* destroyed network peer no longer tells the router anything.             *)
(***************************************************************************)
EXTENDS MidiRouter

CONSTANTS Raw, Listener, Caller,  \* devices, servers and clients: all of Obj
          Sessions,               \* sessions of a listener, in order
          MaxCount                \* bound: sessions a device counts, either way

ASSUME KindsAssumption ==
    /\ Obj = Raw \cup Listener \cup Caller
    /\ Raw \cap Listener = {} /\ Raw \cap Caller = {} /\ Listener \cap Caller = {}
    /\ Sessions \subseteq Nat \ {0} /\ MaxCount \in Nat

VARIABLES
    said,      \* the phase of each session of each listener
    count,     \* local_rawmidi_peer_t::connection_count
    fd,        \* whether its device is open
    aborted,   \* assert(fd < 0) of open failed
    up,        \* history: the sessions each device was told of, and not yet of their end
    disturbed  \* history: devices at which a session was not told of exactly once, or
               \* whose wires to a session's peer changed in between

device == <<count, fd, aborted, up, disturbed>>
dvars  == <<rvars, said, device>>

\* The life of the sessions of listener n, as RtpServer keeps to it.
Life(n) == INSTANCE SessionList WITH said <- said[n]

DTypeOK ==
    /\ RTypeOK
    /\ DOMAIN said = Listener
    /\ \A n \in Listener : said[n] \in [Sessions -> Life(n)!Phase]
    /\ count \in [Raw -> Int]
    /\ fd \in [Raw -> {"closed", "open"}]
    /\ aborted \in BOOLEAN
    /\ up \in [Raw -> SUBSET (Obj \X (Sessions \cup {0}))]
    /\ disturbed \in SUBSET Raw

DInit ==
    /\ RInit
    /\ said = [n \in Listener |-> [s \in Sessions |-> "nothing"]]
    /\ count = [r \in Raw |-> 0]
    /\ fd = [r \in Raw |-> "closed"]
    /\ aborted = FALSE
    /\ up = [r \in Raw |-> {}]
    /\ disturbed = {}

-----------------------------------------------------------------------------
Live(o) == idOf[o] \in live

\* How often the router hands an event of o to r.
Copies(o, r) == IF Live(o) /\ Live(r) THEN links[idOf[o]][idOf[r]] ELSE 0

Hearers(o) == {r \in Raw : Copies(o, r) > 0}

\* A count of sessions that leaves the device open when it is back at zero.
ClosingNone(o) == {}

\* Devices that open, and that close, on an event of o: connected and
\* disconnected run once for every copy of the event.
Opening(o) == {r \in Raw : count[r] < 1 /\ count[r] + Copies(o, r) >= 1}
Closing(o) == {r \in Raw : count[r] > 0 /\ count[r] - Copies(o, r) <= 0}

\* A router that hands an event once to a peer that send_to names twice.
ConnectedOnce(o, s) ==
    /\ \A r \in Raw : count[r] + Copies(o, r) <= MaxCount
    /\ count' = [r \in Raw |-> IF r \in Hearers(o) THEN count[r] + 1 ELSE count[r]]
    /\ fd' = [r \in Raw |-> IF r \in Opening(o) THEN "open" ELSE fd[r]]
    /\ up' = [r \in Raw |-> IF r \in Hearers(o) THEN up[r] \cup {<<o, s>>} ELSE up[r]]
    /\ disturbed' = disturbed \cup {r \in Hearers(o) : <<o, s>> \in up[r]}
    /\ UNCHANGED aborted

\* local_rawmidi_peer_t::connected and open, at every device that hears of it;
\* a device may fail to open.
Connected(o, s) ==
    /\ \A r \in Raw : count[r] + Copies(o, r) <= MaxCount
    /\ count' = [r \in Raw |-> count[r] + Copies(o, r)]
    /\ aborted' = (aborted \/ \E r \in Opening(o) : fd[r] = "open")
    /\ \E opens \in SUBSET Opening(o) :
          fd' = [r \in Raw |-> IF r \in opens THEN "open" ELSE fd[r]]
    /\ up' = [r \in Raw |-> IF r \in Hearers(o) THEN up[r] \cup {<<o, s>>} ELSE up[r]]
    /\ disturbed' = disturbed \cup {r \in Hearers(o) : <<o, s>> \in up[r]}

\* local_rawmidi_peer_t::disconnected and close.
Disconnected(o, s) ==
    /\ \A r \in Raw : count[r] - Copies(o, r) >= -MaxCount
    /\ count' = [r \in Raw |-> count[r] - Copies(o, r)]
    /\ fd' = [r \in Raw |-> IF r \in Closing(o) THEN "closed" ELSE fd[r]]
    /\ up' = [r \in Raw |-> IF r \in Hearers(o) THEN up[r] \ {<<o, s>>} ELSE up[r]]
    /\ disturbed' = disturbed \cup {r \in Hearers(o) : <<o, s>> \notin up[r]}
    /\ UNCHANGED aborted

\* network_rtpmidi_listener_t's status_change_connection.
ListenerSays(n, s) ==
    /\ Live(n)
    /\ \E p \in Life(n)!Phase :
          /\ Life(n)!Follows(said[n][s], p)
          /\ said' = [said EXCEPT ![n][s] = p]
          /\ \/ p = "up" /\ Connected(n, s)
             \/ p = "gone" /\ Disconnected(n, s)
             \/ p = "part" /\ UNCHANGED device
    /\ UNCHANGED rvars

\* network_rtpmidi_client_t's status_change_event_connection.
CallerSays(c) ==
    /\ Live(c)
    /\ Connected(c, 0) \/ Disconnected(c, 0)
    /\ UNCHANGED <<rvars, said>>

-----------------------------------------------------------------------------
Up(r) == {o \in Obj : \E u \in up[r] : u[1] = o}

\* A change of the wires under a session that a device was told of.
Disturb == disturbed' = disturbed \cup {r \in Raw : \E o \in Up(r) : Copies(o, r) # Copies(o, r)'}

\* The router's operations between two peers: a device ignores CONNECTED_ROUTER
\* and DISCONNECTED_ROUTER.
Wire(i, j) ==
    /\ Connect(i, j) \/ Disconnect(i, j)
    /\ Disturb
    /\ UNCHANGED <<said, count, fd, aborted, up>>

Add(o) == AddPeer(o) /\ UNCHANGED <<said, device>>

Gone(r) == Live(r) /\ idOf[r] \notin live'

\* A destructor that leaves the file open.
DestroyLeaks ==
    /\ count' = [r \in Raw |-> IF Gone(r) THEN 0 ELSE count[r]]
    /\ up' = [r \in Raw |-> IF Gone(r) THEN {} ELSE up[r]]
    /\ Disturb
    /\ UNCHANGED <<said, fd, aborted>>

\* ~local_rawmidi_peer_t of the devices that leave the registry.
Destroy ==
    /\ count' = [r \in Raw |-> IF Gone(r) THEN 0 ELSE count[r]]
    /\ fd' = [r \in Raw |-> IF Gone(r) THEN "closed" ELSE fd[r]]
    /\ up' = [r \in Raw |-> IF Gone(r) THEN {} ELSE up[r]]
    /\ Disturb
    /\ UNCHANGED <<said, aborted>>

DNext ==
    \/ \E o \in Obj : Add(o)
    \/ \E i, j \in Id : Wire(i, j)
    \/ \E i \in Id : RemovePeer(i) /\ Destroy
    \/ Clear /\ Destroy
    \/ \E n \in Listener, s \in Sessions : ListenerSays(n, s)
    \/ \E c \in Caller : CallerSays(c)

DSpec == DInit /\ [][DNext]_dvars

-----------------------------------------------------------------------------
\* assert(fd < 0) of open holds: a device is never opened twice, whatever
\* sessions are announced or ended out of turn and however its count went.
NeverAborts == ~aborted

\* An open device counts a session and is still in the registry: no path of
\* connects, ends, removals and rewiring leaves a file open that the next end,
\* or the destructor, would not close.
OpenIsCounted == \A r \in Raw : fd[r] = "open" => count[r] >= 1 /\ Live(r)

\* For every session a device was told of: how often it counted it.
Wires(r) == [u \in up[r] |-> Copies(u[1], r)]

\* A device whose sessions were each announced once, and ended once, over wires
\* that did not change meanwhile, counts exactly these sessions (once for every
\* copy of the wire).
CountsItsSessions ==
    \A r \in Raw \ disturbed : count[r] = SumFunction(Wires(r))
=============================================================================
