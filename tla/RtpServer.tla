------------------------------ MODULE RtpServer ------------------------------
(***************************************************************************)
(* The RTP-MIDI server (lib/rtpserver.cpp, lib/rtpserverpeer.cpp): the     *)
(* vector of rtpserverpeer_t records, how a command packet finds its       *)
(* record, the one timer of a record, and what the listeners of            *)
(* status_change_event are told.                                           *)
(*                                                                         *)
(* A record's id only grows, a new record goes to the end of the vector    *)
(* and removal keeps the order, so the vector is the set of listed ids in  *)
(* increasing order.  A record that the vector moves (when it grows past   *)
(* its capacity, or closes the gap of an erased record) runs               *)
(* setup_connections again, which arms the five second timer over          *)
(* whatever timer it had.                                                  *)
(*                                                                         *)
(* The network loses, repeats, delays and reorders: a packet of a session  *)
(* may arrive at any moment, any number of times, as long as its client    *)
(* has not gone silent.  A handler of a peer raises at most one signal.    *)
(***************************************************************************)
EXTENDS RtpPeer, FiniteSets, FiniteSetsExt

CONSTANTS Session,    \* [init, ssrc]: the invitations clients make
          LocalSsrc,  \* rtppeer_t::local_ssrc of the server's peers
          MaxPeers    \* bound: records created in the life of the server

ASSUME ServerAssumption ==
    /\ Session \subseteq [init : Initiator, ssrc : Ssrc]
    /\ LocalSsrc \in Ssrc
    /\ MaxPeers \in Nat

Id     == 1..MaxPeers
Client == {s.ssrc : s \in Session}
Timer  == {"setup", "ck", "none"}
Socket == {"control", "midi", "nowhere"}

\* rtpserverpeer_t.  host and base are the address the first packet came from.
Record == [peer : Peer, host : Ssrc, base : Port, timer : Timer]

Blank == [peer |-> NewPeer(0, LocalSsrc), host |-> 0, base |-> "control", timer |-> "none"]

VARIABLES
    last,     \* max_peer_data_id: ids handed out so far
    listed,   \* ids of the records in rtpserver_t::peers
    record,   \* the records
    cap,      \* capacity of that vector
    told,     \* the last status the listeners heard of each id
    out,      \* what the last handler gave to the sockets
    silent,   \* clients that will send nothing more
    running   \* the rtpserver_t exists

svars == <<last, listed, record, cap, told, out, silent, running>>

STypeOK ==
    /\ last \in 0..MaxPeers
    /\ listed \in SUBSET Id
    /\ record \in [Id -> Record]
    /\ cap \in Nat
    /\ told \in [Id -> Event \cup {"nothing"}]
    /\ out \in SUBSET [host : Ssrc, socket : Socket, pkt : Packet]
    /\ silent \in SUBSET Client
    /\ running \in BOOLEAN

SInit ==
    /\ last = 0
    /\ listed = {}
    /\ record = [i \in Id |-> Blank]
    /\ cap = 0
    /\ told = [i \in Id |-> "nothing"]
    /\ out = {}
    /\ silent = {}
    /\ running = TRUE

-----------------------------------------------------------------------------
\* sendto: the base port is the source port of the first packet, so a record
\* that a MIDI packet created aims one socket too high.
Aim(base, port) ==
    CASE base = "control"                   -> port
      [] base = "midi" /\ port = "control"  -> "midi"
      [] base = "midi" /\ port = "midi"     -> "nowhere"

Posted(d, pkts) == {[host |-> d.host, socket |-> Aim(d.base, m.port), pkt |-> m] :
                        m \in {pkts[k] : k \in DOMAIN pkts}}

Raised(r) == IF r.events = <<>> THEN "nothing" ELSE r.events[1]

\* A rearm_ck_timeout that, on a clock, stops the old timer and starts no other.
RearmedOnce(timer, e) == CASE e = "CONNECTED" -> "ck"
                           [] e = "ck"        -> "none"
                           [] OTHER           -> timer

\* rearm_ck_timeout, on CONNECTED and on every ck_event.
Rearmed(timer, e) == IF e \in {"CONNECTED", "ck"} THEN "ck" ELSE timer

\* setup_connections, in the move assignment.
Moved(ids) == [i \in Id |-> IF i \in ids THEN [record[i] EXCEPT !.timer = "setup"]
                                         ELSE record[i]]

\* status_change tells the listeners of the server first.
Hear(id, e) ==
    told' = IF e \in {"nothing", "ck"} THEN told ELSE [told EXCEPT ![id] = e]

\* A removal that waits for the listeners to do it.
RemoveNothing(id) == /\ record' = [record EXCEPT ![id].peer.st = {}]
                     /\ UNCHANGED listed

\* remove_peer: the records after it move down by one.
Remove(id) ==
    /\ listed' = listed \ {id}
    /\ record' = [Moved({i \in listed : i > id}) EXCEPT ![id] = Blank]

\* The peer of record id did r: its packets are sent, its signal is heard.
Settle(id, r) ==
    /\ Hear(id, Raised(r))
    /\ out' = Posted(record[id], r.out)
    /\ IF Raised(r) \in Disconnected
       THEN Remove(id)
       ELSE /\ record' = [record EXCEPT ![id].peer = r.peer,
                                        ![id].timer = Rearmed(@, Raised(r))]
            /\ UNCHANGED listed
    /\ UNCHANGED <<last, cap, silent, running>>

-----------------------------------------------------------------------------
\* find_peer_by_packet: invitations by initiator, the others by SSRC; the first
\* record of the vector that fits.
Fits(m) == {i \in listed : IF m.cmd = "IN" THEN record[i].peer.init = m.init
                                           ELSE record[i].peer.remote = m.ssrc}

\* data_ready, for a packet that has a record.
Known(m) ==
    /\ Fits(m) # {}
    /\ LET id == Min(Fits(m)) IN Settle(id, DataReady(record[id].peer, m))

Grow == Cardinality(listed) = cap

\* A server that numbers records by their place in the vector.
CreateReusingIds(m) ==
    LET id == Cardinality(listed) + 1
        r  == OnIN(NewPeer(0, LocalSsrc), m)
        d  == [peer |-> r.peer, host |-> m.ssrc, base |-> m.port, timer |-> "setup"]
    IN
    /\ m.cmd = "IN" /\ Fits(m) = {} /\ id \in Id
    /\ last' = id
    /\ listed' = listed \cup {id}
    /\ record' = [record EXCEPT ![id] = d]
    /\ Hear(id, Raised(r))
    /\ out' = Posted(d, r.out)
    /\ UNCHANGED <<cap, silent, running>>

\* data_ready and create_peer_from, for an invitation nobody knows.
Create(m) ==
    LET id == last + 1
        r  == OnIN(NewPeer(0, LocalSsrc), m)
        d  == [peer |-> r.peer, host |-> m.ssrc, base |-> m.port, timer |-> "setup"]
    IN
    /\ m.cmd = "IN" /\ Fits(m) = {} /\ last < MaxPeers
    /\ last' = id
    /\ listed' = listed \cup {id}
    /\ cap' = IF Grow THEN (IF cap = 0 THEN 1 ELSE 2 * cap) ELSE cap
    /\ record' = [Moved(IF Grow THEN listed ELSE {}) EXCEPT ![id] = d]
    /\ Hear(id, Raised(r))
    /\ out' = Posted(d, r.out)
    /\ UNCHANGED <<silent, running>>

\* A packet a client of session s sends in its life.
FromClient(s) ==
    {Pkt(cmd, port, s.init, s.ssrc) : cmd \in {"IN", "BY"}, port \in Port}
    \cup {Pkt(cmd, "midi", 0, s.ssrc) : cmd \in {"CK0", "CK2"}}

Receive(s) ==
    /\ running /\ s.ssrc \notin silent
    /\ \E m \in FromClient(s) : Known(m) \/ Create(m)

-----------------------------------------------------------------------------
\* The five second timer of setup_connections.
SetupTimer(id) ==
    /\ id \in listed /\ record[id].timer = "setup"
    /\ IF record[id].peer.st = {"control"}
       THEN Settle(id, Disconnect(record[id].peer))
       ELSE /\ record' = [record EXCEPT ![id].timer = "none"]
            /\ out' = {}
            /\ UNCHANGED <<last, listed, cap, told, silent, running>>

\* The sixty second timer of rearm_ck_timeout.
CkTimer(id) ==
    /\ id \in listed /\ record[id].timer = "ck"
    /\ Settle(id, Disconnect(record[id].peer))

\* A destructor that leaves without a word.
StopSilently ==
    /\ running
    /\ running' = FALSE
    /\ listed' = {}
    /\ record' = [i \in Id |-> Blank]
    /\ out' = {}
    /\ UNCHANGED <<last, cap, told, silent>>

\* send_goodbye, control first, on the ports that are connected.
Goodbyes(p) ==
    (IF "control" \in p.st THEN <<Pkt("BY", "control", p.init, LocalSsrc)>> ELSE <<>>)
    \o (IF "midi" \in p.st THEN <<Pkt("BY", "midi", p.init, LocalSsrc)>> ELSE <<>>)

\* ~rtpserver_t: a goodbye on every connected port, control first, of a copy
\* of the list; each peer's second one removes its record.
Stop ==
    /\ running
    /\ running' = FALSE
    /\ listed' = {}
    /\ record' = [i \in Id |-> Blank]
    /\ told' = [i \in Id |-> IF i \in listed THEN "DISCONNECT" ELSE told[i]]
    /\ out' = UNION {Posted(record[i], Goodbyes(record[i].peer)) : i \in listed}
    /\ UNCHANGED <<last, cap, silent>>

\* A client crashes, or its network is gone for good.
GoSilent(c) ==
    /\ running /\ c \notin silent
    /\ silent' = silent \cup {c}
    /\ UNCHANGED <<last, listed, record, cap, told, out, running>>

SNext ==
    \/ \E s \in Session : Receive(s)
    \/ \E id \in Id : SetupTimer(id) \/ CkTimer(id)
    \/ \E c \in Client : GoSilent(c)
    \/ Stop

SSpec == SInit /\ [][SNext]_svars

Unheard(id) == record[id].peer.remote \in silent

\* The poller runs every timer that is due, and a timer of a peer that is no
\* longer heard from is not put off by its packets.
TimersRun == \A id \in Id : /\ WF_svars(Unheard(id) /\ SetupTimer(id))
                            /\ WF_svars(Unheard(id) /\ CkTimer(id))

SFairSpec == SSpec /\ TimersRun

-----------------------------------------------------------------------------
Created == 1..last

\* Whoever was told that a peer is there is told when it is gone, and only
\* then: a record is off the list exactly when the last status its listeners
\* heard is a disconnection (status_change and remove_peer, over timers,
\* goodbyes of both sides and the destructor).
GoneIffTold == \A id \in Created : id \notin listed <=> told[id] \in Disconnected

\* No record stays on the list with neither port connected: nothing would ever
\* end it, its timers only end a peer that has a port.
ListedHasAPort == \A id \in listed : record[id].peer.st # {}

PortsOf(e) == CASE e = "CONNECTED"         -> Port
                [] e = "CONTROL_CONNECTED" -> {"control"}
                [] e = "MIDI_CONNECTED"    -> {"midi"}
                [] OTHER                   -> {}

\* The listeners of status_change_event never believe less than the peer has:
\* every connected port of a record was announced by the last status they heard
\* (a goodbye on one of two ports is not announced, so they may believe more).
ToldCoversStatus ==
    \A id \in listed : record[id].peer.st \subseteq PortsOf(told[id])

\* A connected record loses its sixty second timer only to a move of the vector:
\* in a step that makes the vector grow, or that erases an earlier record.
LosesItInAMove ==
    \A id \in listed \cap listed' :
       record[id].timer = "ck" /\ record'[id].timer # "ck"
          => cap' # cap \/ \E e \in listed \ listed' : e < id
WatchdogOnlyLostInMoves == [][LosesItInAMove]_svars

\* The far end of a session that this end closes is told on every port that is
\* connected (rtppeer_t::disconnect of the timers, the destructor's goodbyes).
SaysGoodbye ==
    \A id \in listed \ listed' : told'[id] = "DISCONNECT" =>
       \A p \in record[id].peer.st :
          \E o \in out' : o.host = record[id].host /\ o.pkt.cmd = "BY" /\ o.pkt.port = p
EndingSaysGoodbye == [][SaysGoodbye]_svars

\* The phase of a session, by the last status its listeners heard.
PhaseOf(e) == CASE e = "nothing"                                -> "nothing"
                [] e = "CONNECTED"                              -> "up"
                [] e \in Disconnected                           -> "gone"
                [] OTHER                                        -> "part"

Promised == INSTANCE SessionList WITH
                Sessions <- Id, said <- [i \in Id |-> PhaseOf(told[i])]

\* The server keeps the promise of SessionList: for its listeners a session
\* begins with one port, its end is told once and is the last they hear of it.
KeepsPromise == Promised!Spec

ConnectedTo(c) ==
    \E id \in listed : record[id].peer.remote = c /\ IsConnected(record[id].peer)

\* "If no signal in 60 secs, remove the peer": a client that has gone silent
\* does not stay connected.  The code breaks it: a move of the vector arms the
\* five second timer over the sixty second one and does nothing to a connected
\* peer when it fires.
SilentIsRemoved == \A c \in Client : c \in silent ~> ~ConnectedTo(c)
=============================================================================
