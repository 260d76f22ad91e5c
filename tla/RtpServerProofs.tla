--------------------------- MODULE RtpServerProofs ---------------------------
(***************************************************************************)
(* The invariant SInv of the server's list, and the action properties of   *)
(* RtpServer, proved for every set of clients and any number of records.   *)
(*                                                                         *)
(* Keeps says what the list needs of a handler of rtppeer_t; it is proved  *)
(* of every packet a client sends and of disconnect, so that the lemmas    *)
(* about the server never look into a handler again.                       *)
(***************************************************************************)
EXTENDS RtpServer, SequenceTheorems, WellFoundedInduction, TLAPS

FromPeer == {"IN", "BY", "CK0", "CK2"}

\* A handler that turned peer p into the result r has raised a disconnection,
\* or left a connected port, and announced what it connected.
Keeps(p, r) ==
    /\ r.peer \in Peer
    /\ \A k \in DOMAIN r.out : r.out[k] \in Packet
    /\ Raised(r) \in Event \cup {"nothing"}
    /\ Raised(r) \notin Disconnected =>
          /\ r.peer.st # {}
          /\ r.peer.st \subseteq (IF Raised(r) \in {"nothing", "ck"} THEN p.st
                                                                   ELSE PortsOf(Raised(r)))

\* No handler of a packet says that this end disconnected.
Theirs(r) == Raised(r) # "DISCONNECT"

\* The result r says goodbye on every connected port of p, and that it did.
Ends(p, r) ==
    /\ Raised(r) = "DISCONNECT"
    /\ \A port \in p.st : \E k \in DOMAIN r.out :
          r.out[k].cmd = "BY" /\ r.out[k].port = port

\* An id that was not handed out yet was never spoken of.
Unspoken == \A id \in Id : id > last => told[id] = "nothing"

SInv == /\ STypeOK /\ listed \subseteq Created /\ Unspoken
        /\ GoneIffTold /\ ListedHasAPort /\ ToldCoversStatus

-----------------------------------------------------------------------------
\* What the program writes between two numbers is what OpToRel makes of it.
LEMMA LessIsIn ==
    ASSUME NEW y \in Nat, NEW x \in Nat, y < x PROVE <<y, x>> \in OpToRel(<, Nat)
<1>1. PICK z : z = <<y, x>>
    OBVIOUS
<1>2. z \in {ss \in Nat \X Nat : ss[1] < ss[2]}
    BY <1>1
<1>3. z \in OpToRel(<, Nat)
    BY <1>2, Zenon DEF OpToRel
<1> QED BY <1>1, <1>3, Zenon

\* The first record that fits is one of those that fit.
LEMMA MinIsIn == ASSUME NEW S \in SUBSET Nat, S # {} PROVE Min(S) \in S
<1>1. PICK x \in S : \A y \in S : ~ (<<y, x>> \in OpToRel(<, Nat))
    BY NatLessThanWellFounded, WFMin, Zenon
<1>2. ASSUME NEW y \in S PROVE x =< y
  <2>1. ASSUME y < x PROVE FALSE
    <3>1. <<y, x>> \in OpToRel(<, Nat)
        BY <2>1, LessIsIn
    <3> QED BY <3>1, <1>1, Zenon
  <2> QED BY <2>1
<1> QED BY <1>2 DEF Min

-----------------------------------------------------------------------------
\* The status that stands for a set of ports announces exactly these ports.
LEMMA StatusAnnounces ==
    ASSUME NEW st \in SUBSET Port, st # {}
    PROVE  /\ StatusEvent(st) \in Event \ (Disconnected \cup {"ck", "nothing"})
           /\ StatusEvent(st) # "DISCONNECT"
           /\ PortsOf(StatusEvent(st)) = st
<1>1. st = Port \/ st = {"control"} \/ st = {"midi"}
    BY DEF Port
<1>2. {"control"} # {} /\ {"midi"} # {} /\ Port # {} /\ {"control"} # Port
      /\ {"midi"} # Port /\ {"midi"} # {"control"}
    BY DEF Port
<1>3. CASE st = Port
    BY <1>2, <1>3 DEF StatusEvent, PortsOf, Event, Disconnected
<1>4. CASE st = {"control"}
    BY <1>2, <1>4 DEF StatusEvent, PortsOf, Event, Disconnected
<1>5. CASE st = {"midi"}
    BY <1>2, <1>5 DEF StatusEvent, PortsOf, Event, Disconnected
<1> QED BY <1>1, <1>3, <1>4, <1>5

\* parse_command_in.  It works for a new peer, without ports, too.
LEMMA InvitedKeeps ==
    ASSUME NEW p \in Peer, NEW m \in Packet
    PROVE  /\ Keeps(p, OnIN(p, m)) /\ Theirs(OnIN(p, m))
           /\ Raised(OnIN(p, m)) \notin Disconnected \cup {"ck", "nothing"}
<1> DEFINE q == [p EXCEPT !.init = m.init, !.remote = m.ssrc, !.st = @ \cup {m.port}]
           e == StatusEvent(q.st)
           r == OnIN(p, m)
<1>1. q \in Peer /\ q.st # {} /\ q.st \in SUBSET Port
    BY DEF Peer, Packet
<1>2. /\ r.peer = q /\ r.out = <<Pkt("OK", m.port, m.init, p.local)>> /\ r.events = <<e>>
    BY DEF OnIN, Result
<1>3. /\ e \in Event \ (Disconnected \cup {"ck", "nothing"})
      /\ e # "DISCONNECT" /\ PortsOf(e) = q.st
    BY <1>1, StatusAnnounces
<1>4. Pkt("OK", m.port, m.init, p.local) \in Packet
    BY DEF Pkt, Packet, Peer, Command
<1> HIDE DEF e, r, q
<1>5. Raised(r) = e
    BY <1>2 DEF Raised
<1>6. Keeps(p, r) /\ Theirs(r)
    BY <1>1, <1>2, <1>3, <1>4, <1>5 DEF Keeps, Theirs
<1> QED BY <1>3, <1>5, <1>6 DEF r

\* A handler that raises nothing and leaves a port keeps what the list needs.
LEMMA QuietKeeps ==
    ASSUME NEW p, NEW q \in Peer, q.st # {}, q.st \subseteq p.st,
           NEW r, r = [peer |-> q, out |-> <<>>, events |-> <<>>]
    PROVE  Keeps(p, r) /\ Theirs(r)
<1>1. Raised(r) = "nothing" /\ "nothing" \notin Disconnected /\ r.peer = q
    BY DEF Raised, Disconnected
<1>2. \A k \in DOMAIN r.out : r.out[k] \in Packet
    OBVIOUS
<1> QED BY <1>1, <1>2 DEF Keeps, Theirs

\* parse_command_by: the end of the last port is told.
LEMMA GoodbyeKeeps ==
    ASSUME NEW p \in Peer, p.st # {}, NEW m \in Packet
    PROVE  Keeps(p, OnBY(p, m)) /\ Theirs(OnBY(p, m))
<1> DEFINE q == [p EXCEPT !.init = m.init]
           s == [q EXCEPT !.st = @ \ {m.port}]
<1>1. q \in Peer /\ s \in Peer /\ q.st = p.st /\ s.st \subseteq p.st
    BY DEF Peer, Packet
<1>2. CASE m.ssrc # p.remote
  <2>1. OnBY(p, m) = [peer |-> q, out |-> <<>>, events |-> <<>>]
      BY <1>2 DEF OnBY, Result
  <2> QED BY <1>1, <2>1, QuietKeeps
<1>3. CASE m.ssrc = p.remote /\ s.st = {}
  <2>1. OnBY(p, m) = [peer |-> s, out |-> <<>>, events |-> <<"PEER_DISCONNECTED">>]
      BY <1>3 DEF OnBY, Result
  <2> QED BY <1>1, <2>1 DEF Keeps, Theirs, Raised, Disconnected, Event
<1>4. CASE m.ssrc = p.remote /\ s.st # {}
  <2>1. OnBY(p, m) = [peer |-> s, out |-> <<>>, events |-> <<>>]
      BY <1>4 DEF OnBY, Result
  <2> QED BY <1>1, <1>4, <2>1, QuietKeeps
<1> QED BY <1>2, <1>3, <1>4

\* parse_command_ck leaves the peer alone.
LEMMA ClockKeeps ==
    ASSUME NEW p \in Peer, p.st # {}, NEW m \in Packet, m.cmd \in {"CK0", "CK2"}
    PROVE  Keeps(p, OnCK(p, m)) /\ Theirs(OnCK(p, m))
<1>1. CASE m.cmd = "CK0"
  <2>1. OnCK(p, m) = [peer |-> p, out |-> <<Pkt("CK1", m.port, 0, p.local)>>,
                      events |-> <<>>]
      BY <1>1 DEF OnCK, Result
  <2>2. Pkt("CK1", m.port, 0, p.local) \in Packet
      BY ZeroAssumption DEF Pkt, Packet, Peer, Command
  <2> QED BY <2>1, <2>2 DEF Keeps, Theirs, Raised, Disconnected
<1>2. CASE m.cmd = "CK2"
  <2>1. OnCK(p, m) = [peer |-> p, out |-> <<>>, events |-> <<"ck">>]
      BY <1>2 DEF OnCK, Result
  <2> QED BY <2>1 DEF Keeps, Theirs, Raised, Disconnected, Event
<1> QED BY <1>1, <1>2

\* Every packet of a client, at a peer that has a port.
LEMMA PacketKeeps ==
    ASSUME NEW p \in Peer, p.st # {}, NEW m \in Packet, m.cmd \in FromPeer
    PROVE  Keeps(p, DataReady(p, m)) /\ Theirs(DataReady(p, m))
<1>1. CASE m.cmd = "IN"
    BY <1>1, InvitedKeeps DEF DataReady
<1>2. CASE m.cmd = "BY"
    BY <1>2, GoodbyeKeeps DEF DataReady
<1>3. CASE m.cmd \in {"CK0", "CK2"}
  <2>1. DataReady(p, m) = OnCK(p, m)
      BY <1>3 DEF DataReady
  <2> QED BY <1>3, <2>1, ClockKeeps
<1> QED BY <1>1, <1>2, <1>3 DEF FromPeer

\* send_goodbye, taken apart.
LEMMA GoodbyeParts ==
    ASSUME NEW p \in Peer, NEW port \in Port
    PROVE  /\ SendGoodbye(p, port).peer = [p EXCEPT !.st = p.st \ {port}]
           /\ SendGoodbye(p, port).out = <<Pkt("BY", port, p.init, p.local)>>
           /\ SendGoodbye(p, port).events =
                 IF p.st \ {port} = {} THEN <<"DISCONNECT">> ELSE <<>>
BY DEF SendGoodbye, Result, Peer

\* Short sequences put together.
LEMMA ShortConcat ==
    ASSUME NEW x, NEW y
    PROVE  /\ <<>> \o <<x>> = <<x>>
           /\ <<x>> \o <<>> = <<x>>
           /\ <<x>> \o <<y>> = <<x, y>>
<1>1. <<x>> \in Seq({x, y}) /\ <<y>> \in Seq({x, y})
    OBVIOUS
<1>2. <<>> \o <<x>> = <<x>> /\ <<x>> \o <<>> = <<x>>
    BY <1>1, ConcatEmptySeq
<1>3. <<x>> \o <<y>> = Append(<<x>>, y)
    BY <1>1, AppendIsConcat
<1>4. Append(<<x>>, y) = <<x, y>>
  <2>1. /\ Len(Append(<<x>>, y)) = 2 /\ Append(<<x>>, y) \in Seq({x, y})
        /\ Append(<<x>>, y)[1] = x /\ Append(<<x>>, y)[2] = y
      BY <1>1, AppendProperties
  <2>2. <<x, y>> \in Seq({x, y}) /\ Len(<<x, y>>) = 2
      OBVIOUS
  <2>3. ASSUME NEW i \in 1..2 PROVE Append(<<x>>, y)[i] = <<x, y>>[i]
      BY <2>1, i = 1 \/ i = 2
  <2> QED BY <2>1, <2>2, <2>3, SeqEqual
<1> QED BY <1>2, <1>3, <1>4

\* A result has the parts it was made of.
LEMMA ResultParts ==
    ASSUME NEW p, NEW o, NEW e
    PROVE  Result(p, o, e).peer = p /\ Result(p, o, e).out = o /\ Result(p, o, e).events = e
BY DEF Result

\* The packets and the signal of disconnect, by the ports that are connected.
LEMMA DisconnectParts ==
    ASSUME NEW p \in Peer, NEW byM, NEW byC, NEW r,
           byM = Pkt("BY", "midi", p.init, p.local),
           byC = Pkt("BY", "control", p.init, p.local),
           r = Disconnect(p)
    PROVE  /\ r.peer = NewPeer(0, p.local)
           /\ p.st = {"control"} => r.events = <<"DISCONNECT">> /\ r.out = <<byC>>
           /\ p.st = {"midi"} => r.events = <<"DISCONNECT">> /\ r.out = <<byM>>
           /\ p.st = Port => r.events = <<"DISCONNECT">> /\ r.out = <<byM, byC>>
<1>p. "midi" \in Port /\ "control" \in Port
    BY DEF Port
<1>1. PICK a : a = IF "midi" \in p.st THEN SendGoodbye(p, "midi")
                                     ELSE Result(p, <<>>, <<>>)
    OBVIOUS
<1>2. PICK b : b = IF "control" \in a.peer.st THEN SendGoodbye(a.peer, "control")
                                             ELSE Result(a.peer, <<>>, <<>>)
    OBVIOUS
<1>3. r = Result(NewPeer(0, p.local), a.out \o b.out, a.events \o b.events)
    BY <1>1, <1>2 DEF Disconnect
<1>q. /\ r.peer = NewPeer(0, p.local)
      /\ r.out = a.out \o b.out /\ r.events = a.events \o b.events
  <2>1. PICK x, o, e : x = NewPeer(0, p.local) /\ o = a.out \o b.out
                       /\ e = a.events \o b.events
      OBVIOUS
  <2>2. r = Result(x, o, e)
      BY <1>3, <2>1, Zenon
  <2>3. r.peer = x /\ r.out = o /\ r.events = e
      BY <2>2, ResultParts
  <2> QED BY <2>1, <2>3
<1>4. ASSUME p.st = {"control"} PROVE r.events = <<"DISCONNECT">> /\ r.out = <<byC>>
  <2>1. a.peer = p /\ a.out = <<>> /\ a.events = <<>>
      BY <1>1, <1>4 DEF Result
  <2>2. b.out = <<byC>> /\ b.events = <<"DISCONNECT">>
      BY <1>2, <1>4, <1>p, <2>1, GoodbyeParts
  <2> QED BY <1>q, <2>1, <2>2, ShortConcat
<1>5. ASSUME p.st = {"midi"} PROVE r.events = <<"DISCONNECT">> /\ r.out = <<byM>>
  <2>1. a = SendGoodbye(p, "midi")
      BY <1>1, <1>5
  <2>2. a.peer.st = {} /\ a.out = <<byM>> /\ a.events = <<"DISCONNECT">>
      BY <2>1, <1>5, <1>p, GoodbyeParts DEF Peer
  <2>3. b = Result(a.peer, <<>>, <<>>)
      BY <1>2, <2>2
  <2>4. b.out = <<>> /\ b.events = <<>>
      BY <2>3 DEF Result
  <2> QED BY <1>q, <2>2, <2>4, ShortConcat
<1>6. ASSUME p.st = Port PROVE r.events = <<"DISCONNECT">> /\ r.out = <<byM, byC>>
  <2>1. a = SendGoodbye(p, "midi")
      BY <1>1, <1>6, <1>p
  <2>2. /\ a.peer = [p EXCEPT !.st = p.st \ {"midi"}]
        /\ a.out = <<byM>> /\ a.events = <<>>
    <3>1. "control" \in p.st \ {"midi"}
        BY <1>6, <1>p
    <3>2. p.st \ {"midi"} # {}
        BY <3>1
    <3> QED BY <2>1, <3>2, <1>p, GoodbyeParts
  <2>3. /\ a.peer \in Peer /\ a.peer.st = {"control"}
        /\ a.peer.init = p.init /\ a.peer.local = p.local
      BY <1>6, <2>2 DEF Peer, Port
  <2>4. b = SendGoodbye(a.peer, "control")
      BY <1>2, <2>3
  <2>5. b.out = <<byC>> /\ b.events = <<"DISCONNECT">>
      BY <1>p, <2>3, <2>4, GoodbyeParts
  <2> QED BY <1>q, <2>2, <2>5, ShortConcat
<1> QED BY <1>4, <1>5, <1>6, <1>q

\* rtppeer_t::disconnect of a peer that has a port.
LEMMA DisconnectEnds ==
    ASSUME NEW p \in Peer, p.st # {}
    PROVE  Keeps(p, Disconnect(p)) /\ Ends(p, Disconnect(p))
<1>1. PICK byM, byC, r : /\ byM = Pkt("BY", "midi", p.init, p.local)
                         /\ byC = Pkt("BY", "control", p.init, p.local)
                         /\ r = Disconnect(p)
    OBVIOUS
<1>2. p.st = Port \/ p.st = {"control"} \/ p.st = {"midi"}
    BY DEF Peer, Port
<1>3. /\ byM \in Packet /\ byC \in Packet
      /\ byM.cmd = "BY" /\ byM.port = "midi" /\ byC.cmd = "BY" /\ byC.port = "control"
    BY <1>1 DEF Pkt, Packet, Peer, Command, Port
<1>4. /\ r.peer \in Peer /\ r.events = <<"DISCONNECT">>
      /\ \/ p.st = Port /\ r.out = <<byM, byC>>
         \/ p.st = {"control"} /\ r.out = <<byC>>
         \/ p.st = {"midi"} /\ r.out = <<byM>>
  <2>1. NewPeer(0, p.local) \in Peer
      BY ZeroAssumption DEF NewPeer, Peer
  <2> QED BY <1>1, <1>2, <2>1, DisconnectParts
<1>5. Raised(r) = "DISCONNECT"
    BY <1>4 DEF Raised
<1>6. \A k \in DOMAIN r.out : r.out[k] \in Packet
    BY <1>3, <1>4
<1>7. Keeps(p, r)
    BY <1>4, <1>5, <1>6 DEF Keeps, Disconnected, Event
<1>8. ASSUME NEW port \in p.st
      PROVE  \E k \in DOMAIN r.out : r.out[k].cmd = "BY" /\ r.out[k].port = port
  <2>1. CASE p.st = Port /\ r.out = <<byM, byC>>
    <3>1. DOMAIN r.out = 1..2 /\ r.out[1] = byM /\ r.out[2] = byC
        BY <2>1
    <3>2. port = "midi" \/ port = "control"
        BY <2>1 DEF Port
    <3> QED BY <3>1, <3>2, <1>3
  <2>2. CASE p.st = {"control"} /\ r.out = <<byC>>
    <3>1. 1 \in DOMAIN r.out /\ r.out[1] = byC /\ port = "control"
        BY <2>2
    <3> QED BY <3>1, <1>3
  <2>3. CASE p.st = {"midi"} /\ r.out = <<byM>>
    <3>1. 1 \in DOMAIN r.out /\ r.out[1] = byM /\ port = "midi"
        BY <2>3
    <3> QED BY <3>1, <1>3
  <2> QED BY <1>4, <2>1, <2>2, <2>3
<1>9. Ends(p, r)
    BY <1>5, <1>8 DEF Ends
<1> QED BY <1>1, <1>7, <1>9

-----------------------------------------------------------------------------
\* What a handler gives to the sockets is packets to the record's host.
LEMMA PostedParts ==
    ASSUME NEW d \in Record, NEW pkts, \A k \in DOMAIN pkts : pkts[k] \in Packet
    PROVE  /\ Posted(d, pkts) \in SUBSET [host : Ssrc, socket : Socket, pkt : Packet]
           /\ \A k \in DOMAIN pkts : \E o \in Posted(d, pkts) :
                 o.host = d.host /\ o.pkt = pkts[k]
<1>1. ASSUME NEW m \in Packet
      PROVE  [host |-> d.host, socket |-> Aim(d.base, m.port), pkt |-> m]
                \in [host : Ssrc, socket : Socket, pkt : Packet]
  <2>1. d.host \in Ssrc /\ d.base \in Port /\ m.port \in Port
      BY DEF Record, Packet
  <2>2. d.base = "control" => Aim(d.base, m.port) = m.port
      BY DEF Aim
  <2>3. d.base = "midi" /\ m.port = "control" => Aim(d.base, m.port) = "midi"
      BY DEF Aim
  <2>4. d.base = "midi" /\ m.port = "midi" => Aim(d.base, m.port) = "nowhere"
      BY DEF Aim
  <2>5. Aim(d.base, m.port) \in Socket
      BY <2>1, <2>2, <2>3, <2>4 DEF Port, Socket
  <2> QED BY <2>1, <2>5
<1>2. \A x : x \in Posted(d, pkts) <=> \E m \in {pkts[k] : k \in DOMAIN pkts} :
          x = [host |-> d.host, socket |-> Aim(d.base, m.port), pkt |-> m]
    BY DEF Posted
<1>3. \A m \in {pkts[k] : k \in DOMAIN pkts} : m \in Packet
    OBVIOUS
<1>4. ASSUME NEW x \in Posted(d, pkts)
      PROVE  x \in [host : Ssrc, socket : Socket, pkt : Packet]
    BY <1>1, <1>2, <1>3
<1>5. ASSUME NEW k \in DOMAIN pkts
      PROVE \E o \in Posted(d, pkts) : o.host = d.host /\ o.pkt = pkts[k]
  <2>1. PICK m : m = pkts[k]
      OBVIOUS
  <2>2. [host |-> d.host, socket |-> Aim(d.base, m.port), pkt |-> m] \in Posted(d, pkts)
      BY <1>2, <2>1
  <2> QED BY <2>1, <2>2
<1> QED BY <1>4, <1>5

\* A record that the vector moves keeps all but its timer.
LEMMA MovedParts ==
    ASSUME STypeOK, NEW S
    PROVE  /\ Moved(S) \in [Id -> Record]
           /\ \A i \in Id : /\ Moved(S)[i].peer = record[i].peer
                            /\ Moved(S)[i].host = record[i].host
                            /\ i \notin S => Moved(S)[i] = record[i]
<1>1. record \in [Id -> Record] /\ "setup" \in Timer
    BY DEF STypeOK, Timer
<1>2. \A i \in Id : Moved(S)[i] = IF i \in S THEN [record[i] EXCEPT !.timer = "setup"]
                                            ELSE record[i]
    BY DEF Moved
<1>3. \A i \in Id : Moved(S)[i] \in Record
    BY <1>1, <1>2 DEF Record
<1>4. Moved(S) \in [Id -> Record]
    BY <1>3 DEF Moved
<1> QED BY <1>1, <1>2, <1>4 DEF Record

\* The record of an id that is not on the list is a record all the same.
LEMMA BlankType == Blank \in Record /\ NewPeer(0, LocalSsrc) \in Peer
BY ZeroAssumption, ServerAssumption DEF Blank, Record, NewPeer, Peer, Port, Timer

\* status_change tells one id's listeners, or nobody when there is nothing to tell.
LEMMA HearParts ==
    ASSUME STypeOK, NEW id \in Id, NEW e \in Event \cup {"nothing"}, Hear(id, e)
    PROVE  /\ told' \in [Id -> Event \cup {"nothing"}]
           /\ \A i \in Id : told'[i] = IF i = id /\ e \notin {"nothing", "ck"} THEN e
                                                                          ELSE told[i]
BY DEF STypeOK, Hear

\* A server that was just created.
LEMMA InitSInv == SInit => SInv
<1> SUFFICES ASSUME SInit PROVE SInv
    OBVIOUS
<1>1. STypeOK
    BY BlankType, ServerAssumption DEF SInit, STypeOK
<1>2. listed = {} /\ last = 0 /\ Created = {} /\ \A i \in Id : told[i] = "nothing"
    BY DEF SInit, Created
<1> QED BY <1>1, <1>2 DEF SInv, Unspoken, GoneIffTold, ListedHasAPort, ToldCoversStatus

\* remove_peer after the listeners were told.
LEMMA RemoveInv ==
    ASSUME SInv, NEW id \in listed, NEW e \in Disconnected, Hear(id, e), Remove(id),
           last' = last, cap' = cap, silent' = silent, running' = running,
           out' \in SUBSET [host : Ssrc, socket : Socket, pkt : Packet]
    PROVE  SInv'
<1>1. /\ STypeOK /\ listed \subseteq Created /\ Unspoken
      /\ GoneIffTold /\ ListedHasAPort /\ ToldCoversStatus
    BY DEF SInv
<1>2. id \in Id /\ listed \subseteq Id
    BY <1>1 DEF STypeOK
<1>3. e \in Event /\ e \notin {"nothing", "ck"}
    BY DEF Disconnected, Event
<1>4. /\ told' \in [Id -> Event \cup {"nothing"}]
      /\ \A i \in Id : told'[i] = IF i = id THEN e ELSE told[i]
    BY <1>1, <1>2, <1>3, HearParts
<1>5. listed' = listed \ {id}
    BY DEF Remove
<1>6. /\ record' \in [Id -> Record]
      /\ \A i \in Id : i # id => record'[i].peer = record[i].peer
  <2>1. PICK S : record' = [Moved(S) EXCEPT ![id] = Blank]
      BY DEF Remove
  <2> QED BY <2>1, <1>1, MovedParts, BlankType
<1>7. STypeOK'
    BY <1>1, <1>4, <1>5, <1>6 DEF STypeOK
<1>8. Created' = Created /\ listed' \subseteq Created'
    BY <1>1, <1>5 DEF Created
<1>9. Created \subseteq Id
    BY <1>1, ServerAssumption DEF Created, Id, STypeOK
<1>10. Unspoken'
    BY <1>1, <1>2, <1>4 DEF Unspoken, Created, Id, STypeOK
<1>11. GoneIffTold'
    BY <1>1, <1>4, <1>5, <1>8, <1>9 DEF GoneIffTold
<1>12. ListedHasAPort'
    BY <1>1, <1>2, <1>5, <1>6 DEF ListedHasAPort
<1>13. ToldCoversStatus'
    BY <1>1, <1>2, <1>4, <1>5, <1>6 DEF ToldCoversStatus
<1> QED BY <1>7, <1>8, <1>10, <1>11, <1>12, <1>13 DEF SInv

\* A handler of a record's peer, its signal and what the signal makes the server do.
LEMMA SettleInv ==
    ASSUME SInv, NEW id \in listed, NEW r, Keeps(record[id].peer, r), Settle(id, r)
    PROVE  SInv'
<1> DEFINE e == Raised(r)
<1>1. /\ STypeOK /\ listed \subseteq Created /\ Unspoken
      /\ GoneIffTold /\ ListedHasAPort /\ ToldCoversStatus
    BY DEF SInv
<1>2. id \in Id /\ listed \subseteq Id /\ record[id] \in Record
    BY <1>1 DEF STypeOK
<1>3. e \in Event \cup {"nothing"}
    BY DEF Keeps
<1>4. /\ last' = last /\ cap' = cap /\ silent' = silent /\ running' = running
      /\ out' = Posted(record[id], r.out) /\ Hear(id, e)
    BY DEF Settle
<1>5. out' \in SUBSET [host : Ssrc, socket : Socket, pkt : Packet]
    BY <1>2, <1>4, PostedParts DEF Keeps
<1>6. CASE e \in Disconnected
    BY <1>4, <1>5, <1>6, RemoveInv DEF Settle
<1>7. CASE e \notin Disconnected
  <2>1. listed' = listed
      BY <1>7 DEF Settle
  <2>2. record' = [record EXCEPT ![id].peer = r.peer, ![id].timer = Rearmed(@, e)]
      BY <1>7 DEF Settle
  <2>3. r.peer \in Peer /\ r.peer.st # {}
      BY <1>7 DEF Keeps
  <2>4. Rearmed(record[id].timer, e) \in Timer
      BY <1>2 DEF Rearmed, Timer, Record
  <2>5. record'[id] = [record[id] EXCEPT !.peer = r.peer,
                                          !.timer = Rearmed(record[id].timer, e)]
      BY <1>1, <1>2, <2>2 DEF STypeOK, Record
  <2>6. record'[id] \in Record /\ record'[id].peer = r.peer
      BY <1>2, <2>3, <2>4, <2>5 DEF Record
  <2>7. /\ record' \in [Id -> Record]
        /\ \A i \in Id : i # id => record'[i] = record[i]
      BY <1>1, <1>2, <2>2, <2>6 DEF STypeOK
  <2>8. /\ told' \in [Id -> Event \cup {"nothing"}]
        /\ \A i \in Id : told'[i] = IF i = id /\ e \notin {"nothing", "ck"} THEN e
                                                                        ELSE told[i]
      BY <1>1, <1>2, <1>3, <1>4, HearParts
  <2>9. STypeOK'
      BY <1>1, <1>4, <1>5, <2>1, <2>7, <2>8 DEF STypeOK
  <2>10. Created' = Created /\ Created \subseteq Id
      BY <1>1, <1>4, ServerAssumption DEF Created, Id, STypeOK
  <2>11. Unspoken'
      BY <1>1, <1>2, <1>4, <2>8 DEF Unspoken, Created, Id, STypeOK
  <2>12. GoneIffTold'
      BY <1>1, <1>7, <2>1, <2>8, <2>10 DEF GoneIffTold
  <2>13. ListedHasAPort'
      BY <1>1, <1>2, <2>1, <2>3, <2>6, <2>7 DEF ListedHasAPort
  <2>14. ToldCoversStatus'
    <3> SUFFICES ASSUME NEW i \in listed
                 PROVE  record'[i].peer.st \subseteq PortsOf(told'[i])
        BY <2>1 DEF ToldCoversStatus
    <3>1. CASE i # id
        BY <3>1, <1>1, <1>2, <2>7, <2>8 DEF ToldCoversStatus
    <3>2. CASE i = id /\ e \in {"nothing", "ck"}
      <4>1. r.peer.st \subseteq record[id].peer.st
          BY <3>2, <1>7 DEF Keeps
      <4>2. told'[i] = told[id]
          BY <3>2, <1>2, <2>8
      <4> QED BY <3>2, <4>1, <4>2, <1>1, <2>6 DEF ToldCoversStatus
    <3>3. CASE i = id /\ e \notin {"nothing", "ck"}
      <4>1. r.peer.st \subseteq PortsOf(e)
          BY <3>3, <1>7 DEF Keeps
      <4>2. told'[i] = e
          BY <3>3, <1>2, <2>8
      <4> QED BY <3>3, <4>1, <4>2, <2>6
    <3> QED BY <3>1, <3>2, <3>3
  <2> QED BY <1>1, <2>1, <2>9, <2>10, <2>11, <2>12, <2>13, <2>14 DEF SInv
<1> QED BY <1>6, <1>7

\* An invitation that nobody knew: the new record, and what moves for it.
LEMMA CreateInv ==
    ASSUME SInv, NEW m \in Packet, Create(m)
    PROVE  SInv'
<1>1. /\ STypeOK /\ listed \subseteq Created /\ Unspoken
      /\ GoneIffTold /\ ListedHasAPort /\ ToldCoversStatus
    BY DEF SInv
<1>2. PICK id, r, d, e :
          /\ id = last + 1 /\ r = OnIN(NewPeer(0, LocalSsrc), m) /\ e = Raised(r)
          /\ d = [peer |-> r.peer, host |-> m.ssrc, base |-> m.port, timer |-> "setup"]
    OBVIOUS
<1>3. /\ last < MaxPeers /\ last' = id /\ listed' = listed \cup {id}
      /\ record' = [Moved(IF Grow THEN listed ELSE {}) EXCEPT ![id] = d]
      /\ Hear(id, e) /\ out' = Posted(d, r.out)
      /\ silent' = silent /\ running' = running
      /\ cap' = IF Grow THEN (IF cap = 0 THEN 1 ELSE 2 * cap) ELSE cap
    BY <1>2 DEF Create
<1>4. /\ last \in Nat /\ id \in Id /\ id \notin Created /\ id \notin listed
      /\ Created' = Created \cup {id} /\ Created' \subseteq Id
      /\ \A i \in Id : i > id => i > last
    BY <1>1, <1>2, <1>3, ServerAssumption DEF STypeOK, Created, Id
<1>5. /\ Keeps(NewPeer(0, LocalSsrc), r) /\ e \notin Disconnected \cup {"ck", "nothing"}
    BY <1>2, BlankType, InvitedKeeps
<1>6. /\ r.peer \in Peer /\ r.peer.st # {} /\ r.peer.st \subseteq PortsOf(e)
      /\ e \in Event \cup {"nothing"}
      /\ \A k \in DOMAIN r.out : r.out[k] \in Packet
    BY <1>2, <1>5 DEF Keeps
<1>7. d \in Record /\ d.peer = r.peer
    BY <1>2, <1>6 DEF Record, Packet, Timer
<1>8. out' \in SUBSET [host : Ssrc, socket : Socket, pkt : Packet]
    BY <1>3, <1>6, <1>7, PostedParts
<1>9. /\ record' \in [Id -> Record] /\ record'[id].peer = r.peer
      /\ \A i \in Id : i # id => record'[i].peer = record[i].peer
    BY <1>1, <1>3, <1>4, <1>7, MovedParts
<1>10. /\ told' \in [Id -> Event \cup {"nothing"}]
       /\ \A i \in Id : told'[i] = IF i = id THEN e ELSE told[i]
    BY <1>1, <1>3, <1>4, <1>5, <1>6, HearParts
<1>11. cap' \in Nat
    BY <1>1, <1>3 DEF STypeOK
<1>12. last' \in 0..MaxPeers /\ listed' \in SUBSET Id
    BY <1>1, <1>2, <1>3, <1>4, ServerAssumption DEF STypeOK
<1>13. STypeOK'
    BY <1>1, <1>3, <1>8, <1>9, <1>10, <1>11, <1>12 DEF STypeOK
<1>14. listed' \subseteq Created'
    BY <1>1, <1>3, <1>4
<1>15. Unspoken'
    BY <1>1, <1>3, <1>4, <1>10 DEF Unspoken, Id
<1>16. GoneIffTold'
    BY <1>1, <1>3, <1>4, <1>5, <1>10 DEF GoneIffTold
<1>17. ListedHasAPort'
    BY <1>3, <1>1, <1>4, <1>6, <1>9, <1>12 DEF ListedHasAPort
<1>18. ToldCoversStatus'
    BY <1>3, <1>1, <1>4, <1>6, <1>9, <1>10, <1>12 DEF ToldCoversStatus
<1> QED BY <1>13, <1>14, <1>15, <1>16, <1>17, <1>18 DEF SInv

\* Any packet of a client.
LEMMA ReceiveInv == ASSUME SInv, NEW s \in Session, Receive(s) PROVE SInv'
<1>1. PICK m \in FromClient(s) : Known(m) \/ Create(m)
    BY DEF Receive
<1>2. m \in Packet /\ m.cmd \in FromPeer
  <2>1. s.init \in Initiator /\ s.ssrc \in Ssrc
      BY ServerAssumption
  <2> QED BY <2>1, ZeroAssumption DEF FromClient, Pkt, Packet, Command, Port, FromPeer
<1>3. CASE Create(m)
    BY <1>2, <1>3, CreateInv
<1>4. CASE Known(m)
  <2>1. PICK id : id = Min(Fits(m))
      OBVIOUS
  <2>2. Fits(m) # {} /\ Fits(m) \subseteq listed
      BY <1>4 DEF Known, Fits
  <2>3. listed \subseteq Nat /\ record \in [Id -> Record] /\ listed \subseteq Id
      BY ServerAssumption DEF SInv, STypeOK, Id
  <2>4. id \in listed
      BY <2>1, <2>2, <2>3, MinIsIn
  <2>5. record[id].peer \in Peer /\ record[id].peer.st # {}
      BY <2>3, <2>4 DEF SInv, ListedHasAPort, Record
  <2>6. Settle(id, DataReady(record[id].peer, m))
      BY <1>4, <2>1 DEF Known
  <2> QED BY <1>2, <2>4, <2>5, <2>6, PacketKeeps, SettleInv
<1> QED BY <1>1, <1>3, <1>4

\* The peer of a listed record can be disconnected.
LEMMA ListedPeer ==
    ASSUME SInv, NEW id \in listed
    PROVE  /\ record[id] \in Record /\ record[id].peer \in Peer
           /\ record[id].peer.st # {} /\ id \in Id
BY DEF SInv, STypeOK, ListedHasAPort, Record

\* The timers: one may do nothing but be gone.
LEMMA TimerInv ==
    ASSUME SInv, NEW id \in Id, SetupTimer(id) \/ CkTimer(id) PROVE SInv'
<1>1. id \in listed
    BY DEF SetupTimer, CkTimer
<1>2. CASE Settle(id, Disconnect(record[id].peer))
    BY <1>1, <1>2, ListedPeer, DisconnectEnds, SettleInv
<1>3. CASE /\ record' = [record EXCEPT ![id].timer = "none"] /\ out' = {}
           /\ UNCHANGED <<last, listed, cap, told, silent, running>>
  <2>1. STypeOK /\ record \in [Id -> Record]
      BY DEF SInv, STypeOK
  <2>2. /\ record' \in [Id -> Record]
        /\ \A i \in Id : record'[i].peer = record[i].peer
      BY <1>3, <2>1 DEF Record, Timer
  <2>3. STypeOK'
      BY <1>3, <2>1, <2>2 DEF STypeOK
  <2>4. Unspoken' /\ GoneIffTold' /\ listed' \subseteq Created'
      BY <1>3 DEF SInv, Unspoken, GoneIffTold, Created
  <2>5. listed' = listed /\ told' = told /\ listed \subseteq Id
      BY <1>3, <2>1 DEF STypeOK
  <2>6. ListedHasAPort' /\ ToldCoversStatus'
      BY <2>2, <2>5 DEF SInv, ListedHasAPort, ToldCoversStatus
  <2> QED BY <2>3, <2>4, <2>6 DEF SInv
<1> QED BY <1>2, <1>3 DEF SetupTimer, CkTimer

\* The destructor's goodbyes.
LEMMA GoodbyesParts ==
    ASSUME NEW p \in Peer
    PROVE  /\ \A k \in DOMAIN Goodbyes(p) : Goodbyes(p)[k] \in Packet
           /\ \A port \in p.st : \E k \in DOMAIN Goodbyes(p) :
                 Goodbyes(p)[k].cmd = "BY" /\ Goodbyes(p)[k].port = port
<1>1. PICK byM, byC, g : /\ byM = Pkt("BY", "midi", p.init, LocalSsrc)
                         /\ byC = Pkt("BY", "control", p.init, LocalSsrc)
                         /\ g = Goodbyes(p)
    OBVIOUS
<1>2. /\ byM \in Packet /\ byC \in Packet
      /\ byM.cmd = "BY" /\ byM.port = "midi" /\ byC.cmd = "BY" /\ byC.port = "control"
    BY <1>1, ServerAssumption DEF Pkt, Packet, Peer, Command, Port
<1>3. \A port \in p.st : port = "control" \/ port = "midi"
    BY DEF Peer, Port
<1>4. CASE "control" \in p.st /\ "midi" \in p.st
  <2>1. g = <<byC>> \o <<byM>>
      BY <1>1, <1>4 DEF Goodbyes
  <2>2. g = <<byC, byM>>
      BY <2>1, ShortConcat
  <2>3. DOMAIN g = 1..2 /\ g[1] = byC /\ g[2] = byM
      BY <2>2
  <2> QED BY <1>1, <1>2, <1>3, <2>3
<1>5. CASE "control" \in p.st /\ "midi" \notin p.st
  <2>1. g = <<byC>> \o <<>>
      BY <1>1, <1>5 DEF Goodbyes
  <2>2. g = <<byC>>
      BY <2>1, ShortConcat
  <2>3. DOMAIN g = 1..1 /\ g[1] = byC
      BY <2>2
  <2> QED BY <1>1, <1>2, <1>3, <1>5, <2>3
<1>6. CASE "control" \notin p.st /\ "midi" \in p.st
  <2>1. g = <<>> \o <<byM>>
      BY <1>1, <1>6 DEF Goodbyes
  <2>2. g = <<byM>>
      BY <2>1, ShortConcat
  <2>3. DOMAIN g = 1..1 /\ g[1] = byM
      BY <2>2
  <2> QED BY <1>1, <1>2, <1>3, <1>6, <2>3
<1>7. CASE "control" \notin p.st /\ "midi" \notin p.st
  <2>1. g = <<>> \o <<>>
      BY <1>1, <1>7 DEF Goodbyes
  <2>2. <<>> \in Seq(Packet)
      OBVIOUS
  <2>3. g = <<>>
      BY <2>1, <2>2, ConcatEmptySeq
  <2>4. DOMAIN g = {}
      BY <2>3
  <2> QED BY <1>1, <1>3, <1>7, <2>4
<1> QED BY <1>4, <1>5, <1>6, <1>7

\* The destructor leaves an empty list and told everyone on it.
LEMMA StopInv == ASSUME SInv, Stop PROVE SInv'
<1>1. /\ STypeOK /\ listed \subseteq Created /\ Unspoken /\ GoneIffTold
    BY DEF SInv
<1>2. /\ running' = FALSE /\ listed' = {} /\ last' = last /\ cap' = cap /\ silent' = silent
      /\ record' = [i \in Id |-> Blank]
      /\ told' = [i \in Id |-> IF i \in listed THEN "DISCONNECT" ELSE told[i]]
      /\ out' = UNION {Posted(record[i], Goodbyes(record[i].peer)) : i \in listed}
    BY DEF Stop
<1>3. ASSUME NEW o \in out' PROVE o \in [host : Ssrc, socket : Socket, pkt : Packet]
  <2>1. PICK i \in listed : o \in Posted(record[i], Goodbyes(record[i].peer))
      BY <1>2
  <2>2. \A k \in DOMAIN Goodbyes(record[i].peer) : Goodbyes(record[i].peer)[k] \in Packet
      BY ListedPeer, GoodbyesParts
  <2> QED BY <2>1, <2>2, ListedPeer, PostedParts
<1>4. record' \in [Id -> Record]
    BY <1>2, BlankType
<1>5. told' \in [Id -> Event \cup {"nothing"}]
    BY <1>1, <1>2 DEF STypeOK, Event
<1>6. STypeOK'
    BY <1>1, <1>2, <1>3, <1>4, <1>5 DEF STypeOK
<1>7. Created' = Created /\ Created \subseteq Id
    BY <1>1, <1>2, ServerAssumption DEF Created, Id, STypeOK
<1>8. Unspoken'
    BY <1>1, <1>2, ServerAssumption DEF Unspoken, Created, Id, STypeOK
<1>9. GoneIffTold'
    BY <1>1, <1>2, <1>7 DEF GoneIffTold, Disconnected
<1> QED BY <1>2, <1>6, <1>8, <1>9 DEF SInv, ListedHasAPort, ToldCoversStatus

\* The steps of the server, with or without one of its handlers.
LEMMA StepInv == ASSUME SInv, [SNext]_svars PROVE SInv'
<1>1. ASSUME NEW c \in Client, GoSilent(c) PROVE SInv'
  <2>1. UNCHANGED <<last, listed, record, cap, told, out, running>>
      BY <1>1 DEF GoSilent
  <2>2. silent' \in SUBSET Client
      BY <1>1 DEF GoSilent, SInv, STypeOK
  <2> QED BY <2>1, <2>2 DEF SInv, STypeOK, Unspoken, GoneIffTold, ListedHasAPort,
                            ToldCoversStatus, Created
<1>2. CASE UNCHANGED svars
    BY <1>2 DEF svars, SInv, STypeOK, Unspoken, GoneIffTold, ListedHasAPort,
                ToldCoversStatus, Created
<1> QED BY <1>1, <1>2, ReceiveInv, TimerInv, StopInv DEF SNext

-----------------------------------------------------------------------------
\* The list and what its listeners are told, for any number of records.
THEOREM ServerInvariant == SSpec => []SInv
BY InitSInv, StepInv, PTL DEF SSpec

\* Type correctness of the server's state.
THEOREM ServerTypeCorrect == SSpec => []STypeOK
BY ServerInvariant, PTL DEF SInv

\* A record is off the list exactly when its listeners heard that it is gone.
THEOREM ServerGoneIffTold == SSpec => []GoneIffTold
BY ServerInvariant, PTL DEF SInv

\* No record stays without a port.
THEOREM ServerListedHasAPort == SSpec => []ListedHasAPort
BY ServerInvariant, PTL DEF SInv

\* The listeners never believe less than a peer has.
THEOREM ServerToldCoversStatus == SSpec => []ToldCoversStatus
BY ServerInvariant, PTL DEF SInv

-----------------------------------------------------------------------------
\* What one handler of a listed record does to the others and to its own timer.
LEMMA SettleStep ==
    ASSUME SInv, NEW id \in listed, NEW r, Keeps(record[id].peer, r), Settle(id, r)
    PROVE  /\ \A i \in Id : i # id => told'[i] = told[i]
           /\ \A i \in listed \cap listed' :
                 record[i].timer = "ck" /\ record'[i].timer # "ck"
                    => \E e \in listed \ listed' : e < i
           /\ \A i \in listed \ listed' : i = id /\ told'[i] = Raised(r)
           /\ out' = Posted(record[id], r.out)
<1>1. STypeOK /\ id \in Id /\ listed \subseteq Id /\ listed \subseteq Nat
    BY ServerAssumption DEF SInv, STypeOK, Id
<1>2. Hear(id, Raised(r)) /\ Raised(r) \in Event \cup {"nothing"}
    BY DEF Settle, Keeps
<1>3. \A i \in Id : told'[i] = IF i = id /\ Raised(r) \notin {"nothing", "ck"}
                              THEN Raised(r) ELSE told[i]
    BY <1>1, <1>2, HearParts
<1>4. CASE Raised(r) \in Disconnected
  <2>1. listed' = listed \ {id}
      BY <1>4 DEF Settle, Remove
  <2>2. record' = [Moved({i \in listed : i > id}) EXCEPT ![id] = Blank]
      BY <1>4 DEF Settle, Remove
  <2>3. \A i \in listed' : ~(id < i) => record'[i] = record[i]
    <3> SUFFICES ASSUME NEW i \in listed', ~(id < i) PROVE record'[i] = record[i]
        OBVIOUS
    <3>1. i \in Id /\ i # id /\ i \in Nat /\ id \in Nat
        BY <1>1, <2>1
    <3>2. i \notin {j \in listed : j > id}
        BY <3>1
    <3>3. Moved({j \in listed : j > id})[i] = record[i]
        BY <1>1, <3>1, <3>2, MovedParts
    <3> QED BY <2>2, <3>1, <3>3, <1>1, MovedParts
  <2>4. Raised(r) \notin {"nothing", "ck"}
      BY <1>4 DEF Disconnected
  <2>5. out' = Posted(record[id], r.out)
      BY DEF Settle
  <2>6. id \in listed \ listed'
      BY <2>1
  <2>7. \A i \in listed \cap listed' :
            record[i].timer = "ck" /\ record'[i].timer # "ck" => id < i
      BY <2>3
  <2> QED BY <1>1, <1>3, <2>1, <2>4, <2>5, <2>6, <2>7
<1>5. CASE Raised(r) \notin Disconnected
  <2>1. listed' = listed
      BY <1>5 DEF Settle
  <2>2. record' = [record EXCEPT ![id].peer = r.peer, ![id].timer = Rearmed(@, Raised(r))]
      BY <1>5 DEF Settle
  <2>3. record \in [Id -> Record]
      BY <1>1 DEF STypeOK
  <2>4. record'[id] = [record[id] EXCEPT !.peer = r.peer,
                                          !.timer = Rearmed(record[id].timer, Raised(r))]
      BY <1>1, <2>2, <2>3 DEF Record
  <2>5. record'[id].timer = Rearmed(record[id].timer, Raised(r))
      BY <1>1, <2>3, <2>4 DEF Record
  <2>6. record[id].timer = "ck" => record'[id].timer = "ck"
      BY <2>5 DEF Rearmed
  <2>7. \A i \in Id : i # id => record'[i] = record[i]
      BY <2>2, <2>3
  <2>8. out' = Posted(record[id], r.out)
      BY DEF Settle
  <2>9. \A i \in listed \cap listed' : ~(record[i].timer = "ck" /\ record'[i].timer # "ck")
      BY <1>1, <2>6, <2>7
  <2> QED BY <1>3, <2>1, <2>8, <2>9
<1> QED BY <1>4, <1>5

\* A step of the server is a handler of a listed record, a new record, a timer
\* that does nothing, or says no word to anybody but in the destructor.
LEMMA StepKinds ==
    ASSUME SInv, SNext
    PROVE  \/ \E id \in listed : \E r :
                 /\ Keeps(record[id].peer, r) /\ Settle(id, r)
                 /\ Theirs(r) \/ Ends(record[id].peer, r)
           \/ \E m \in Packet : Create(m)
           \/ \E id \in listed : /\ record[id].timer = "setup"
                                  /\ record' = [record EXCEPT ![id].timer = "none"]
                                  /\ listed' = listed /\ told' = told
           \/ Stop
           \/ record' = record /\ listed' = listed /\ told' = told
<1>1. ASSUME NEW s \in Session, Receive(s)
      PROVE  \/ \E id \in listed : \E r :
                   Keeps(record[id].peer, r) /\ Settle(id, r) /\ Theirs(r)
             \/ \E m \in Packet : Create(m)
  <2>1. PICK m \in FromClient(s) : Known(m) \/ Create(m)
      BY <1>1 DEF Receive
  <2>2. m \in Packet /\ m.cmd \in FromPeer
    <3>1. s.init \in Initiator /\ s.ssrc \in Ssrc
        BY ServerAssumption
    <3> QED BY <3>1, ZeroAssumption DEF FromClient, Pkt, Packet, Command, Port, FromPeer
  <2>3. CASE Known(m)
    <3>1. PICK id : id = Min(Fits(m))
        OBVIOUS
    <3>2. Fits(m) # {} /\ Fits(m) \subseteq listed
        BY <2>3 DEF Known, Fits
    <3>3. listed \subseteq Nat
        BY ServerAssumption DEF SInv, STypeOK, Id
    <3>4. id \in listed
        BY <3>1, <3>2, <3>3, MinIsIn
    <3>5. Settle(id, DataReady(record[id].peer, m))
        BY <2>3, <3>1 DEF Known
    <3> QED BY <2>2, <3>4, <3>5, ListedPeer, PacketKeeps
  <2> QED BY <2>1, <2>2, <2>3
<1>2. ASSUME NEW id \in Id, SetupTimer(id) \/ CkTimer(id)
      PROVE  \/ /\ id \in listed
                /\ Keeps(record[id].peer, Disconnect(record[id].peer))
                /\ Settle(id, Disconnect(record[id].peer))
                /\ Ends(record[id].peer, Disconnect(record[id].peer))
             \/ /\ id \in listed /\ record[id].timer = "setup"
                /\ record' = [record EXCEPT ![id].timer = "none"]
                /\ listed' = listed /\ told' = told
  <2>1. id \in listed
      BY <1>2 DEF SetupTimer, CkTimer
  <2> QED BY <1>2, <2>1, ListedPeer, DisconnectEnds DEF SetupTimer, CkTimer
<1>3. ASSUME NEW c \in Client, GoSilent(c)
      PROVE  record' = record /\ listed' = listed /\ told' = told
    BY <1>3 DEF GoSilent
<1> QED BY <1>1, <1>2, <1>3 DEF SNext

\* The phases of the status codes.
LEMMA Phases ==
    ASSUME NEW e \in Event \cup {"nothing"}
    PROVE  /\ PhaseOf(e) = "gone" <=> e \in Disconnected
           /\ PhaseOf(e) = "nothing" <=> e = "nothing"
           /\ e \notin Disconnected \cup {"nothing"} => PhaseOf(e) \in {"part", "up"}
           /\ e \notin Disconnected \cup {"nothing", "CONNECTED"} => PhaseOf(e) = "part"
<1>1. e = "nothing" => PhaseOf(e) = "nothing" /\ e \notin Disconnected
    BY DEF PhaseOf, Disconnected
<1>2. e = "CONNECTED" => PhaseOf(e) = "up" /\ e \notin Disconnected
    BY DEF PhaseOf, Disconnected
<1>3. e \in Disconnected => PhaseOf(e) = "gone"
    BY DEF PhaseOf, Disconnected
<1>4. e \notin Disconnected \cup {"nothing", "CONNECTED"} => PhaseOf(e) = "part"
    BY DEF PhaseOf
<1> QED BY <1>1, <1>2, <1>3, <1>4

\* What is heard of a record that is on the list, and of an id that was used.
LEMMA ListedIsAlive ==
    ASSUME SInv
    PROVE  /\ \A i \in listed : PhaseOf(told[i]) \in {"part", "up"}
           /\ \A i \in Created : PhaseOf(told[i]) # "nothing"
<1>1. /\ STypeOK /\ listed \subseteq Created /\ GoneIffTold
      /\ ListedHasAPort /\ ToldCoversStatus /\ Created \subseteq Id
    BY ServerAssumption DEF SInv, STypeOK, Created, Id
<1>2. \A i \in Id : told[i] \in Event \cup {"nothing"}
    BY <1>1 DEF STypeOK
<1>3. ASSUME NEW i \in listed PROVE told[i] # "nothing" /\ told[i] \notin Disconnected
  <2>1. PortsOf("nothing") = {}
      BY DEF PortsOf
  <2>2. record[i].peer.st # {} /\ record[i].peer.st \subseteq PortsOf(told[i])
      BY <1>1 DEF ListedHasAPort, ToldCoversStatus
  <2> QED BY <1>1, <2>1, <2>2 DEF GoneIffTold
<1>4. ASSUME NEW i \in Created \ listed PROVE told[i] \in Disconnected
    BY <1>1 DEF GoneIffTold
<1> QED BY <1>1, <1>2, <1>3, <1>4, Phases

\* A session begins with the one port its first invitation came to.
LEMMA FirstIsPart ==
    ASSUME NEW m \in Packet
    PROVE  PhaseOf(Raised(OnIN(NewPeer(0, LocalSsrc), m))) = "part"
<1> DEFINE p == NewPeer(0, LocalSsrc)
           e == Raised(OnIN(p, m))
<1>1. e = StatusEvent({m.port})
  <2>1. OnIN(p, m).events = <<StatusEvent({m.port})>>
      BY BlankType DEF OnIN, Result, NewPeer, Peer
  <2> QED BY <2>1 DEF Raised
<1>2. m.port = "control" \/ m.port = "midi"
    BY DEF Packet, Port
<1>3. {m.port} # {} /\ {m.port} # Port /\ {m.port} \in SUBSET Port
    BY <1>2 DEF Port
<1>4. StatusEvent({m.port}) \in {"CONTROL_CONNECTED", "MIDI_CONNECTED"}
  <2>1. CASE m.port = "control"
      BY <2>1, <1>3 DEF StatusEvent
  <2>2. CASE m.port = "midi"
      BY <2>2, <1>3 DEF StatusEvent
  <2> QED BY <1>2, <2>1, <2>2
<1> HIDE DEF e
<1>5. e \in Event /\ e \notin Disconnected \cup {"nothing", "CONNECTED"}
    BY <1>1, <1>4 DEF Event, Disconnected
<1> QED BY <1>5, Phases DEF e

\* The server keeps the promise of SessionList, for any number of sessions.
THEOREM ServerKeepsPromise == SSpec => KeepsPromise
<1> DEFINE said == [i \in Id |-> PhaseOf(told[i])]
<1>1. SInit => Promised!Init
  <2> SUFFICES ASSUME SInit PROVE Promised!Init
      OBVIOUS
  <2>1. \A i \in Id : PhaseOf(told[i]) = "nothing"
      BY Phases DEF SInit
  <2> QED BY <2>1 DEF Promised!Init
<1>2. ASSUME SInv, SInv', [SNext]_svars PROVE [Promised!Next]_said
  <2>1. STypeOK /\ STypeOK' /\ listed \subseteq Id
      BY <1>2 DEF SInv, STypeOK
  <2>2. ASSUME NEW j \in listed, NEW r, Keeps(record[j].peer, r), Settle(j, r)
        PROVE  [Promised!Next]_said
    <3>1. \A i \in Id : i # j => said'[i] = said[i]
        BY <1>2, <2>2, SettleStep
    <3>2. j \in Id /\ said[j] \in {"part", "up"}
        BY <1>2, <2>1, ListedIsAlive
    <3>3. said'[j] \in {"part", "up", "gone"}
      <4>1. said'[j] = PhaseOf(told'[j]) /\ told'[j] \in Event \cup {"nothing"}
          BY <2>1, <3>2 DEF STypeOK
      <4>2. told'[j] # "nothing"
        <5>1. /\ Hear(j, Raised(r)) /\ Raised(r) \in Event \cup {"nothing"}
            BY <2>2 DEF Settle, Keeps
        <5>2. told[j] # "nothing"
          <6>1. told[j] \in Event \cup {"nothing"} /\ PhaseOf(told[j]) # "nothing"
              BY <2>1, <3>2 DEF STypeOK
          <6> QED BY <6>1, Phases
        <5> QED BY <2>1, <3>2, <5>1, <5>2, HearParts
      <4> QED BY <4>1, <4>2, Phases
    <3>4. CASE said'[j] \in {"part", "up"}
      <4>1. said' = [said EXCEPT ![j] = said'[j]]
          BY <3>1, <3>2
      <4>2. Promised!Change(j)
          BY <3>2, <3>4, <4>1 DEF Promised!Change, Promised!Alive
      <4> QED BY <3>2, <4>2 DEF Promised!Next
    <3>5. CASE said'[j] = "gone"
      <4>1. said' = [i \in Id |-> IF i \in {j} THEN "gone" ELSE said[i]]
          BY <3>1, <3>2, <3>5
      <4>2. Promised!End({j})
          BY <3>2, <4>1 DEF Promised!End, Promised!Alive
      <4> QED BY <3>2, <4>2 DEF Promised!Next
    <3> QED BY <3>3, <3>4, <3>5
  <2>3. ASSUME NEW m \in Packet, Create(m) PROVE [Promised!Next]_said
    <3>1. PICK n : n = last + 1
        OBVIOUS
    <3>2. /\ last < MaxPeers /\ Hear(n, Raised(OnIN(NewPeer(0, LocalSsrc), m)))
        BY <2>3, <3>1 DEF Create
    <3>3. n \in Id /\ n \notin Created /\ \A i \in Id : i < n => i \in Created
        BY <2>1, <3>1, <3>2, ServerAssumption DEF STypeOK, Created, Id
    <3>4. PhaseOf(Raised(OnIN(NewPeer(0, LocalSsrc), m))) = "part"
        BY FirstIsPart
    <3>5. Raised(OnIN(NewPeer(0, LocalSsrc), m)) \notin {"nothing", "ck"}
        BY BlankType, InvitedKeeps
    <3>6. told' = [told EXCEPT ![n] = Raised(OnIN(NewPeer(0, LocalSsrc), m))]
        BY <3>2, <3>5 DEF Hear
    <3>7. said' = [said EXCEPT ![n] = "part"]
        BY <2>1, <3>3, <3>4, <3>6 DEF STypeOK
    <3>8. said[n] = "nothing"
      <4>1. told[n] = "nothing"
          BY <1>2, <2>1, <3>1, <3>3 DEF SInv, Unspoken, STypeOK
      <4> QED BY <3>3, <4>1, Phases
    <3>9. \A i \in Id : i < n => said[i] # "nothing"
        BY <1>2, <3>3, ListedIsAlive
    <3>10. Promised!Begin(n)
        BY <3>7, <3>8, <3>9 DEF Promised!Begin
    <3> QED BY <3>3, <3>10 DEF Promised!Next
  <2>4. ASSUME Stop PROVE [Promised!Next]_said
    <3>1. \A i \in Id : told'[i] = IF i \in listed THEN "DISCONNECT" ELSE told[i]
        BY <2>4 DEF Stop
    <3>2. PhaseOf("DISCONNECT") = "gone"
        BY Phases DEF Disconnected, Event
    <3>3. said' = [i \in Id |-> IF i \in listed THEN "gone" ELSE said[i]]
        BY <3>1, <3>2
    <3>4. Promised!End(listed)
        BY <1>2, <2>1, <3>3, ListedIsAlive DEF Promised!End, Promised!Alive
    <3> QED BY <2>1, <3>4 DEF Promised!Next
  <2>5. ASSUME told' = told PROVE [Promised!Next]_said
      BY <2>5
  <2>6. CASE SNext
      BY <1>2, <2>2, <2>3, <2>4, <2>5, <2>6, StepKinds
  <2>7. CASE UNCHANGED svars
      BY <2>5, <2>7 DEF svars
  <2> QED BY <1>2, <2>6, <2>7
<1>3. SInv /\ SInv' /\ [SNext]_svars => [Promised!Next]_said
    BY <1>2
<1> QED BY <1>1, <1>3, ServerInvariant, PTL DEF SSpec, KeepsPromise, Promised!Spec

\* The far end of a session that this end closes hears of it on every port.
THEOREM ServerEndingSaysGoodbye == SSpec => EndingSaysGoodbye
<1> DEFINE Said(id) == \A p \in record[id].peer.st :
               \E o \in out' : o.host = record[id].host /\ o.pkt.cmd = "BY" /\ o.pkt.port = p
<1>1. ASSUME SInv, [SNext]_svars, NEW id \in listed \ listed', told'[id] = "DISCONNECT"
      PROVE  Said(id)
  <2>1. SNext
      BY <1>1 DEF svars
  <2>2. ASSUME NEW j \in listed, NEW r, Keeps(record[j].peer, r), Settle(j, r),
               Theirs(r) \/ Ends(record[j].peer, r)
        PROVE  Said(id)
    <3>1. j = id /\ told'[id] = Raised(r) /\ out' = Posted(record[id], r.out)
        BY <1>1, <2>2, SettleStep
    <3>2. Ends(record[id].peer, r)
        BY <1>1, <2>2, <3>1 DEF Theirs
    <3>3. \A k \in DOMAIN r.out : \E o \in out' : o.host = record[id].host /\ o.pkt = r.out[k]
        BY <1>1, <2>2, <3>1, ListedPeer, PostedParts DEF Keeps
    <3>4. ASSUME NEW p \in record[id].peer.st
          PROVE  \E o \in out' : o.host = record[id].host /\ o.pkt.cmd = "BY" /\ o.pkt.port = p
      <4>1. PICK k \in DOMAIN r.out : r.out[k].cmd = "BY" /\ r.out[k].port = p
          BY <3>2 DEF Ends
      <4>2. PICK o \in out' : o.host = record[id].host /\ o.pkt = r.out[k]
          BY <3>3
      <4> QED BY <4>1, <4>2
    <3> QED BY <3>4
  <2>3. ASSUME Stop PROVE Said(id)
    <3>1. PICK g : g = Goodbyes(record[id].peer)
        OBVIOUS
    <3>2. /\ \A k \in DOMAIN g : g[k] \in Packet
          /\ \A p \in record[id].peer.st : \E k \in DOMAIN g : g[k].cmd = "BY" /\ g[k].port = p
        BY <1>1, <3>1, ListedPeer, GoodbyesParts
    <3>3. Posted(record[id], g) \subseteq out'
        BY <1>1, <2>3, <3>1 DEF Stop
    <3>4. ASSUME NEW p \in record[id].peer.st
          PROVE  \E o \in out' : o.host = record[id].host /\ o.pkt.cmd = "BY" /\ o.pkt.port = p
      <4>1. PICK k \in DOMAIN g : g[k].cmd = "BY" /\ g[k].port = p
          BY <3>2
      <4>2. PICK o \in Posted(record[id], g) : o.host = record[id].host /\ o.pkt = g[k]
          BY <1>1, <3>2, ListedPeer, PostedParts
      <4> QED BY <3>3, <4>1, <4>2
    <3> QED BY <3>4
  <2>4. ASSUME NEW m \in Packet, Create(m) PROVE FALSE
      BY <1>1, <2>4 DEF Create
  <2> QED BY <1>1, <2>1, <2>2, <2>3, <2>4, StepKinds
<1>2. SInv /\ [SNext]_svars => [SaysGoodbye]_svars
    BY <1>1 DEF SaysGoodbye
<1> QED BY <1>2, ServerInvariant, PTL DEF SSpec, EndingSaysGoodbye

\* Only a move of the vector takes the watchdog from a connected record.
THEOREM ServerWatchdogOnlyLostInMoves == SSpec => WatchdogOnlyLostInMoves
<1>1. ASSUME SInv, [SNext]_svars, NEW id \in listed \cap listed',
             record[id].timer = "ck", record'[id].timer # "ck"
      PROVE  cap' # cap \/ \E e \in listed \ listed' : e < id
  <2>1. SNext /\ STypeOK /\ id \in Id
      BY <1>1 DEF svars, SInv, STypeOK
  <2>2. ASSUME NEW j \in listed, NEW r, Keeps(record[j].peer, r), Settle(j, r)
        PROVE  \E e \in listed \ listed' : e < id
      BY <1>1, <2>2, SettleStep
  <2>3. ASSUME NEW m \in Packet, Create(m) PROVE cap' # cap
    <3>1. PICK n, d : /\ record' = [Moved(IF Grow THEN listed ELSE {}) EXCEPT ![n] = d]
                      /\ n = last + 1
                      /\ cap' = IF Grow THEN (IF cap = 0 THEN 1 ELSE 2 * cap) ELSE cap
        BY <2>3 DEF Create
    <3>2. id # n
        BY <1>1, <3>1, ServerAssumption DEF SInv, STypeOK, Created
    <3>3. record'[id] = Moved(IF Grow THEN listed ELSE {})[id]
        BY <2>1, <3>1, <3>2, MovedParts
    <3>4. Grow
      <4>1. ASSUME ~ Grow PROVE FALSE
        <5>1. record'[id] = record[id]
            BY <2>1, <3>3, <4>1, MovedParts
        <5> QED BY <1>1, <5>1
      <4> QED BY <4>1
    <3> QED BY <2>1, <3>1, <3>4 DEF STypeOK
  <2>4. ASSUME NEW j \in listed, record[j].timer = "setup",
               record' = [record EXCEPT ![j].timer = "none"]
        PROVE  FALSE
      BY <1>1, <2>1, <2>4 DEF STypeOK
  <2>5. ~ Stop
      BY <1>1 DEF Stop
  <2>6. record' # record
      BY <1>1
  <2> QED BY <1>1, <2>1, <2>2, <2>3, <2>4, <2>5, <2>6, StepKinds
<1>2. SInv /\ [SNext]_svars => [LosesItInAMove]_svars
    BY <1>1 DEF LosesItInAMove
<1> QED BY <1>2, ServerInvariant, PTL DEF SSpec, WatchdogOnlyLostInMoves
=============================================================================
